----------------------- MODULE CatalogSessionsProofs -----------------------
(***************************************************************************)
(* Proofs about module CatalogSessions: what a session undoes is what was  *)
(* there, the file opens and holds what the sessions see, and concurrent   *)
(* sessions implement the serial catalog of module SerialCatalog.          *)
(***************************************************************************)
EXTENDS CatalogSessions, TLAPS

USE DEF Views, Snapshots

-----------------------------------------------------------------------------
(* Tables as values.                                                       *)

(* The rows of the table are the first ones of its pages. *)
Backed(t) ==
  /\ Len(t.rows) <= Len(t.chain)
  /\ \A i \in 1 .. Len(t.rows) : t.rows[i] = t.chain[i]

(* The table keeps its UNIQUE constraint. *)
Sound(t) == t.unique => Distinct(t.rows)

(* An entry of the published catalog that can be read, of a table or of a  *)
(* free name.                                                              *)
Readable(e) ==
  /\ e = [cols |-> e.cols, num |-> e.num, chain |-> e.chain]
  /\ e.num \in Nat /\ e.num <= Len(e.chain)
  /\ e.cols \in Layouts \cup {<<>>}
  /\ e.chain \in Contents(e.cols)
  /\ e.cols = <<>> => e.chain = <<>>

(* A row sequence is a sequence of rows, of bounded length. *)
LEMMA RowSeqsAre ==
  ASSUME NEW w, NEW n \in Nat, NEW r
  PROVE r \in RowSeqs(w, n) <=> r \in Seq([1 .. w -> Cells]) /\ Len(r) <= n
<1> DEFINE Row == [1 .. w -> Cells]
<1> HIDE DEF Row
<1>1. RowSeqs(w, n) = UNION {[1 .. k -> Row] : k \in 0 .. n}
  BY DEF RowSeqs, Row
<1>2. ASSUME r \in RowSeqs(w, n)  PROVE r \in Seq(Row) /\ Len(r) <= n
  <2>1. PICK k \in 0 .. n : r \in [1 .. k -> Row]
    BY <1>1, <1>2
  <2>2. r \in Seq(Row) /\ Len(r) = k
    BY <2>1
  <2>3. QED  BY <2>1, <2>2
<1>3. ASSUME r \in Seq(Row), Len(r) <= n  PROVE r \in RowSeqs(w, n)
  <2>1. Len(r) \in 0 .. n /\ r \in [1 .. Len(r) -> Row]
    BY <1>3
  <2>2. QED  BY <1>1, <2>1
<1>4. QED  BY <1>2, <1>3 DEF Row

(* What a table is made of. *)
LEMMA TableParts ==
  ASSUME NEW t \in Table
  PROVE /\ t = [cols |-> t.cols, unique |-> t.unique, rows |-> t.rows,
                chain |-> t.chain]
        /\ t.cols \in Layouts \cup {<<>>} /\ t.unique \in BOOLEAN
        /\ t.rows \in Contents(t.cols) /\ t.chain \in Contents(t.cols)
        /\ t.cols = <<>> => t = NoTable
<1>1. CASE t = NoTable
  <2>1. <<>> \in Seq([1 .. 0 -> Cells]) /\ Len(<<>>) <= MaxRows
    BY BoundsAssumption
  <2>2. <<>> \in Contents(<<>>)
    BY <2>1, RowSeqsAre, BoundsAssumption DEF Contents
  <2>3. QED  BY <1>1, <2>2 DEF NoTable
<1>2. CASE t # NoTable
  <2>1. PICK cols \in Layouts : t \in TablesOf(cols)
    BY <1>2 DEF Table
  <2>2. cols # <<>>
    BY LayoutsAssumption
  <2>3. QED  BY <2>1, <2>2 DEF TablesOf
<1>3. QED  BY <1>1, <1>2

(* A table is made of a column list, rows and pages. *)
LEMMA TableFrom ==
  ASSUME NEW cols \in Layouts, NEW unique \in BOOLEAN,
         NEW rows \in Contents(cols), NEW chain \in Contents(cols)
  PROVE [cols |-> cols, unique |-> unique, rows |-> rows, chain |-> chain]
          \in Table
BY DEF Table, TablesOf

(* A free name is a table without rows or pages. *)
LEMMA NoTableIs ==
  /\ NoTable \in Table /\ Backed(NoTable) /\ Sound(NoTable)
  /\ NoTable.cols = <<>> /\ ~NoTable.unique
  /\ NoTable.rows = <<>> /\ NoTable.chain = <<>>
BY DEF NoTable, Table, Backed, Sound

(* The rows of a table: a sequence, of at most MaxRows. *)
LEMMA ContentsAre ==
  ASSUME NEW cols \in Layouts \cup {<<>>}, NEW r
  PROVE /\ r \in Contents(cols) <=>
             r \in Seq([1 .. Len(cols) -> Cells]) /\ Len(r) <= MaxRows
        /\ r \in Contents(cols) => Len(r) \in 0 .. MaxRows
        /\ <<>> \in Contents(cols)
<1>1. MaxRows \in Nat
  BY BoundsAssumption
<1>2. \A x : x \in Contents(cols) <=>
               x \in Seq([1 .. Len(cols) -> Cells]) /\ Len(x) <= MaxRows
  BY <1>1, RowSeqsAre DEF Contents
<1>3. <<>> \in Seq([1 .. Len(cols) -> Cells]) /\ Len(<<>>) <= MaxRows
  BY <1>1
<1>4. r \in Contents(cols) => Len(r) \in 0 .. MaxRows
  BY <1>1, <1>2
<1>5. QED  BY <1>2, <1>3, <1>4

(* The first rows of a table are rows of a table, and as distinct. *)
LEMMA FirstRows ==
  ASSUME NEW cols \in Layouts \cup {<<>>}, NEW r \in Contents(cols), NEW n \in Int,
         n <= Len(r)
  PROVE /\ SubSeq(r, 1, n) \in Contents(cols)
        /\ Len(SubSeq(r, 1, n)) <= Len(r)
        /\ \A i \in 1 .. Len(SubSeq(r, 1, n)) : SubSeq(r, 1, n)[i] = r[i]
        /\ Distinct(r) => Distinct(SubSeq(r, 1, n))
<1> DEFINE Row == [1 .. Len(cols) -> Cells]
<1> HIDE DEF Row
<1>0. r \in Seq(Row) /\ Len(r) <= MaxRows
  BY ContentsAre DEF Row
<1>1. r \in Seq(Row) /\ Len(r) <= MaxRows /\ Len(r) \in Nat
  BY <1>0
<1> DEFINE q == SubSeq(r, 1, n)
<1>2. q \in Seq(Row) /\ Len(q) <= Len(r) /\ DOMAIN q = 1 .. Len(q)
        /\ \A i \in 1 .. Len(q) : q[i] = r[i]
  BY <1>1
<1>3. Len(q) <= MaxRows
  BY <1>1, <1>2, BoundsAssumption
<1>4. q \in Contents(cols)
  BY <1>2, <1>3, ContentsAre DEF Row
<1>5. ASSUME Distinct(r)  PROVE Distinct(q)
  <2>1. DOMAIN r = 1 .. Len(r)
    BY <1>1
  <2>2. DOMAIN q \subseteq DOMAIN r
    BY <1>1, <1>2, <2>1
  <2> HIDE DEF q
  <2>3. QED  BY <1>2, <1>5, <2>2 DEF Distinct
<1>6. QED  BY <1>2, <1>4, <1>5

-----------------------------------------------------------------------------
(* What a process that opens the file makes of an entry. *)

(* The entry of a table that is backed can be read. *)
LEMMA ImageReads ==
  ASSUME NEW t \in Table, Backed(t)
  PROVE Readable([cols |-> t.cols, num |-> Len(t.rows), chain |-> t.chain])
<1>1. /\ t.cols \in Layouts \cup {<<>>} /\ t.rows \in Contents(t.cols)
      /\ t.chain \in Contents(t.cols)
      /\ t.cols = <<>> => t = NoTable
  BY TableParts
<1>2. Len(t.rows) \in Nat
  BY <1>1, ContentsAre
<1>3. t.cols = <<>> => t.chain = <<>>
  BY <1>1, NoTableIs
<1>4. QED  BY <1>1, <1>2, <1>3 DEF Backed, Readable

(* The rows an entry of the catalog is loaded with. *)
LEMMA LoadedRows ==
  ASSUME NEW e, Readable(e)
  PROVE /\ Loaded(e) = [cols |-> e.cols, unique |-> FALSE,
                        rows |-> [i \in 1 .. e.num |-> e.chain[i]],
                        chain |-> e.chain]
        /\ Loaded(e).rows \in Contents(e.cols)
        /\ Len(Loaded(e).rows) = e.num
<1> DEFINE Row == [1 .. Len(e.cols) -> Cells]
           rows == [i \in 1 .. e.num |-> e.chain[i]]
<1>1. /\ e.cols \in Layouts \cup {<<>>} /\ e.num \in Nat
      /\ e.num <= Len(e.chain) /\ e.chain \in Contents(e.cols)
  BY DEF Readable
<1>2. e.chain \in Seq(Row) /\ Len(e.chain) <= MaxRows
  BY <1>1, ContentsAre
<1>3. {i \in DOMAIN e.chain : i <= e.num} = 1 .. e.num
  <2> HIDE DEF Row
  <2>1. DOMAIN e.chain = 1 .. Len(e.chain) /\ Len(e.chain) \in Nat
    BY <1>2
  <2>2. QED  BY <1>1, <2>1
<1>4. Restrict(e.chain, {i \in DOMAIN e.chain : i <= e.num}) = rows
  BY <1>3 DEF Restrict
<1>5. rows \in Seq(Row) /\ Len(rows) = e.num
  <2> HIDE DEF Row
  <2>1. \A i \in 1 .. e.num : e.chain[i] \in Row
    BY <1>1, <1>2
  <2>2. QED  BY <1>1, <2>1
<1>6. rows \in Contents(e.cols)
  <2>1. e.num <= MaxRows
    <3> HIDE DEF Row
    <3>1. Len(e.chain) \in Nat
      BY <1>2
    <3>2. QED  BY <1>1, <1>2, <3>1, BoundsAssumption
  <2> HIDE DEF rows
  <2>2. QED  BY <1>1, <1>5, <2>1, ContentsAre
<1>7. QED  BY <1>4, <1>5, <1>6 DEF Loaded

(* It is the table it was the entry of, but for the constraint. *)
LEMMA LoadedTable ==
  ASSUME NEW e, Readable(e)
  PROVE /\ Loaded(e) \in Table /\ Backed(Loaded(e)) /\ Sound(Loaded(e))
        /\ e = [cols |-> Loaded(e).cols, num |-> Len(Loaded(e).rows),
                chain |-> Loaded(e).chain]
<1> DEFINE t == Loaded(e)
<1>1. /\ t.cols = e.cols /\ t.unique = FALSE /\ t.chain = e.chain
      /\ t.rows = [i \in 1 .. e.num |-> e.chain[i]]
      /\ t = [cols |-> t.cols, unique |-> t.unique, rows |-> t.rows,
              chain |-> t.chain]
      /\ t.rows \in Contents(e.cols) /\ Len(t.rows) = e.num
  BY LoadedRows
<1>2. /\ e = [cols |-> e.cols, num |-> e.num, chain |-> e.chain]
      /\ e.num \in Nat /\ e.num <= Len(e.chain)
      /\ e.cols \in Layouts \cup {<<>>} /\ e.chain \in Contents(e.cols)
      /\ e.cols = <<>> => e.chain = <<>>
  BY DEF Readable
<1> HIDE DEF t
<1>3. Backed(t) /\ Sound(t)
  BY <1>1, <1>2 DEF Backed, Sound
<1>4. t \in Table
  <2>1. CASE e.cols \in Layouts
    BY <2>1, <1>1, <1>2, TableFrom
  <2>2. CASE e.cols = <<>>
    <3>1. e.num = 0
      BY <1>2, <2>2
    <3>2. t.rows = <<>>
      BY <1>1, <3>1
    <3>3. t = NoTable
      BY <1>1, <1>2, <2>2, <3>2 DEF NoTable
    <3>4. QED  BY <3>3, NoTableIs
  <2>3. QED  BY <1>2, <2>1, <2>2
<1>5. QED  BY <1>1, <1>2, <1>3, <1>4 DEF t

(* A table that is backed is loaded with its rows. *)
LEMMA LoadedIsTable ==
  ASSUME NEW t \in Table, Backed(t)
  PROVE LET e == [cols |-> t.cols, num |-> Len(t.rows), chain |-> t.chain]
        IN  Loaded(e).cols = t.cols /\ Loaded(e).rows = t.rows
              /\ Loaded(e).chain = t.chain /\ ~Loaded(e).unique
<1> DEFINE e == [cols |-> t.cols, num |-> Len(t.rows), chain |-> t.chain]
           Row == [1 .. Len(t.cols) -> Cells]
<1> HIDE DEF Row
<1>1. Readable(e)
  BY ImageReads
<1>2. /\ Loaded(e).cols = e.cols /\ Loaded(e).chain = e.chain
      /\ Loaded(e).rows = [i \in 1 .. e.num |-> e.chain[i]]
      /\ ~Loaded(e).unique
  <2> HIDE DEF e
  <2>1. QED  BY <1>1, LoadedRows
<1>3. t.rows \in Contents(t.cols) /\ t.cols \in Layouts \cup {<<>>}
  BY TableParts
<1>4. t.rows \in Seq(Row)
  BY <1>3, ContentsAre DEF Row
<1>5. t.rows = [i \in 1 .. Len(t.rows) |-> t.rows[i]]
  BY <1>4
<1>6. [i \in 1 .. Len(t.rows) |-> t.rows[i]]
        = [i \in 1 .. Len(t.rows) |-> t.chain[i]]
  BY DEF Backed
<1>7. QED  BY <1>2, <1>5, <1>6

-----------------------------------------------------------------------------
(* The inductive invariant. *)

(* Every table is one, has its rows in its pages, and keeps UNIQUE. *)
Kept(ts) == \A n \in Names : ts[n] \in Table /\ Backed(ts[n]) /\ Sound(ts[n])

(* No name is both of a table and of a view. *)
Kinds(ts, vs) == \A n \in Names : ts[n].cols = <<>> \/ vs[n] = NoView

(* The session holds catalog_commit. *)
Holds(s) == sess[s].pc \notin {"idle", "updating"}

(* The views that the failing statement of s leaves. *)
FormerViews(s) ==
  [n \in Names |-> IF n \in sess[s].ns THEN sess[s].views[n] ELSE views[n]]

OneHolder == \A r, s \in Sessions : Holds(r) /\ Holds(s) => r = s

(* Between two statements the tables are kept, and names are of one kind. *)
TablesKept ==
  /\ (\A s \in Sessions : sess[s].pc # "applied") => Kept(tables)
  /\ (\A s \in Sessions : sess[s].pc # "restoring") => Kinds(tables, views)

(* A statement that has changed the catalog can be undone, and the rows    *)
(* that are in no pages are those its flush is going to write.             *)
Undoable(s) ==
  /\ Kept(Undone(s, tables))
  /\ Kinds(Undone(s, tables), FormerViews(s))
  /\ ~sess[s].changes => sess[s].ns = {} /\ sess[s].count = 0
  /\ \A n \in Names :
       /\ Sound(tables[n])
       /\ \/ Backed(tables[n]) \/ n \in sess[s].rewrites
          \/ sess[s].rewrites = {} /\ tables[n].chain = <<>>

StatementsUndoable ==
  \A s \in Sessions : sess[s].pc = "applied" => Undoable(s)

(* A rollback that has restored the tables goes with the views it is about *)
(* to restore, and has nothing to undo.                                    *)
RollbacksRestore ==
  \A s \in Sessions : sess[s].pc = "restoring" =>
    /\ sess[s].ns = {} /\ sess[s].rewrites = {} /\ sess[s].count = 0
    /\ ~sess[s].changes
    /\ Kinds(tables, sess[s].views)

(* The file can be opened. *)
FileReadable ==
  (\A n \in Names : Readable(disk.tables[n])) /\ Kinds(disk.tables, disk.views)

(* The file is that of the tables and views unless a flush is pending. *)
FileAgrees ==
  ~doubt /\ (\A s \in Sessions : sess[s].pc \notin {"applied", "restoring"})
    => disk = Image(tables, views)

(* An open transaction has a catalog to go back to, and knows of the       *)
(* sessions that have changed the catalog, or is about to.                 *)
SnapshotKept == tx # NoTx => Kept(tx.tables) /\ Kinds(tx.tables, tx.views)

WritersNoted ==
  tx # NoTx /\ ~tx.external => \A w \in writers :
    w = tx.owner \/ (sess[w].pc = "published" /\ sess[w].changes)

Inv ==
  /\ TypeOK /\ OneHolder /\ TablesKept /\ StatementsUndoable /\ RollbacksRestore
  /\ FileReadable /\ FileAgrees /\ SnapshotKept /\ WritersNoted

-----------------------------------------------------------------------------
(* What a flush stores, and what it undoes. *)

(* The table without its last c rows. *)
Cut(t, c) == [t EXCEPT !.rows = SubSeq(@, 1, Len(@) - c)]

LEMMA CutTable ==
  ASSUME NEW t \in Table, NEW c \in Nat
  PROVE /\ Cut(t, c) \in Table
        /\ Cut(t, c).cols = t.cols /\ Cut(t, c).unique = t.unique
        /\ Cut(t, c).chain = t.chain
        /\ Cut(t, c).rows = SubSeq(t.rows, 1, Len(t.rows) - c)
        /\ Sound(t) => Sound(Cut(t, c))
<1>1. /\ t = [cols |-> t.cols, unique |-> t.unique, rows |-> t.rows,
              chain |-> t.chain]
      /\ t.cols \in Layouts \cup {<<>>} /\ t.unique \in BOOLEAN
      /\ t.rows \in Contents(t.cols) /\ t.chain \in Contents(t.cols)
      /\ t.cols = <<>> => t = NoTable
  BY TableParts
<1> DEFINE q == SubSeq(t.rows, 1, Len(t.rows) - c)
<1>2. Len(t.rows) \in Nat
  BY <1>1, ContentsAre
<1>3. q \in Contents(t.cols) /\ (Distinct(t.rows) => Distinct(q))
  <2>1. Len(t.rows) - c \in Int /\ Len(t.rows) - c <= Len(t.rows)
    BY <1>2
  <2>2. QED  BY <1>1, <2>1, FirstRows
<1>4. Cut(t, c) = [cols |-> t.cols, unique |-> t.unique, rows |-> q,
                   chain |-> t.chain]
  <2> HIDE DEF q
  <2>1. Cut(t, c) = [t EXCEPT !.rows = q]
    BY DEF Cut, q
  <2>2. QED  BY <1>1, <2>1
<1>5. Sound(t) => Sound(Cut(t, c))
  BY <1>3, <1>4 DEF Sound
<1>6. Cut(t, c) \in Table
  <2>1. CASE t.cols \in Layouts
    <3> HIDE DEF q
    <3>1. QED  BY <2>1, <1>1, <1>3, <1>4, TableFrom
  <2>2. CASE t.cols = <<>>
    <3>1. t = NoTable /\ t.rows = <<>>
      BY <1>1, <2>2, NoTableIs
    <3>2. q = <<>>
      <4>1. SubSeq(<<>>, 1, 0 - c) = <<>>
        OBVIOUS
      <4>2. Len(t.rows) = 0
        BY <3>1
      <4>3. QED  BY <3>1, <4>1, <4>2
    <3>3. Cut(t, c) = NoTable
      BY <1>4, <3>1, <3>2 DEF NoTable
    <3>4. QED  BY <3>3, NoTableIs
  <2>3. QED  BY <1>1, <2>1, <2>2
<1>7. QED  BY <1>4, <1>5, <1>6

(* The table with its rows in its pages. *)
LEMMA WrittenTable ==
  ASSUME NEW t \in Table
  PROVE LET u == [t EXCEPT !.chain = t.rows]
        IN  /\ u \in Table /\ Backed(u) /\ (Sound(t) => Sound(u))
            /\ u.cols = t.cols /\ u.unique = t.unique /\ u.rows = t.rows
            /\ u.chain = t.rows
<1> DEFINE u == [t EXCEPT !.chain = t.rows]
<1>1. /\ t = [cols |-> t.cols, unique |-> t.unique, rows |-> t.rows,
              chain |-> t.chain]
      /\ t.cols \in Layouts \cup {<<>>} /\ t.unique \in BOOLEAN
      /\ t.rows \in Contents(t.cols) /\ t.chain \in Contents(t.cols)
      /\ t.cols = <<>> => t = NoTable
  BY TableParts
<1>2. u = [cols |-> t.cols, unique |-> t.unique, rows |-> t.rows,
           chain |-> t.rows]
  BY <1>1
<1> HIDE DEF u
<1>3. Len(t.rows) \in Nat
  BY <1>1, ContentsAre
<1>4. Backed(u) /\ (Sound(t) => Sound(u))
  BY <1>2, <1>3 DEF Backed, Sound
<1>5. u \in Table
  <2>1. CASE t.cols \in Layouts
    BY <1>1, <1>2, <2>1, TableFrom
  <2>2. CASE t.cols = <<>>
    BY <1>1, <1>2, <2>2, NoTableIs DEF NoTable
  <2>3. QED  BY <1>1, <2>1, <2>2
<1>6. QED  BY <1>2, <1>4, <1>5 DEF u

(* The fields of a statement in progress. *)
LEMMA SessionParts ==
  ASSUME TypeOK, NEW s \in Sessions
  PROVE /\ sess[s].ns \in SUBSET Names /\ sess[s].rewrites \in SUBSET Names
        /\ sess[s].tables \in [Names -> Table]
        /\ sess[s].views \in Views
        /\ sess[s].count \in Nat /\ sess[s].changes \in BOOLEAN
        /\ sess[s].stmt \in Statements
        /\ sess[s].pc \in {"idle", "updating", "applied", "published",
                            "restoring"}
<1>1. sess[s] \in Session
  BY DEF TypeOK
<1>2. sess[s].count \in 0 .. MaxRows
  BY <1>1 DEF Session
<1>3. sess[s].count \in Nat
  BY <1>2, BoundsAssumption
<1>4. QED  BY <1>1, <1>3 DEF Session

(* Storing changes the pages of tables and nothing else, and the pages of  *)
(* every table are then behind its rows.                                   *)
LEMMA StoredTables ==
  ASSUME TypeOK, NEW s \in Sessions, Undoable(s)
  PROVE /\ Stored(s) \in [Names -> Table] /\ Kept(Stored(s))
        /\ \A n \in Names : /\ Stored(s)[n].cols = tables[n].cols
                             /\ Stored(s)[n].unique = tables[n].unique
                             /\ Stored(s)[n].rows = tables[n].rows
        /\ \A n \in Names :
             \/ Stored(s)[n] = tables[n] /\ n \notin sess[s].rewrites
             \/ Stored(s)[n].chain = tables[n].rows
<1>1. ASSUME NEW n \in Names
      PROVE /\ Stored(s)[n] \in Table /\ Backed(Stored(s)[n])
            /\ Sound(Stored(s)[n])
            /\ Stored(s)[n].cols = tables[n].cols
            /\ Stored(s)[n].unique = tables[n].unique
            /\ Stored(s)[n].rows = tables[n].rows
            /\ \/ Stored(s)[n] = tables[n] /\ n \notin sess[s].rewrites
               \/ Stored(s)[n].chain = tables[n].rows
  <2>1. /\ tables[n] \in Table /\ Sound(tables[n])
        /\ \/ Backed(tables[n]) \/ n \in sess[s].rewrites
           \/ sess[s].rewrites = {} /\ tables[n].chain = <<>>
    BY <1>1 DEF Undoable, TypeOK
  <2>2. CASE n \in sess[s].rewrites \/ (sess[s].rewrites = {} /\ tables[n].chain = <<>>)
    <3>1. Stored(s)[n] = [tables[n] EXCEPT !.chain = tables[n].rows]
      BY <2>2, <1>1 DEF Stored
    <3>2. QED  BY <2>1, <3>1, WrittenTable
  <2>3. CASE ~(n \in sess[s].rewrites \/ (sess[s].rewrites = {} /\ tables[n].chain = <<>>))
    <3>1. Stored(s)[n] = tables[n]
      BY <2>3, <1>1 DEF Stored
    <3>2. QED  BY <2>1, <2>3, <3>1
  <2>4. QED  BY <2>2, <2>3
<1>2. Stored(s) = [n \in Names |-> Stored(s)[n]]
  BY DEF Stored
<1>3. Stored(s) \in [Names -> Table]
  BY <1>1, <1>2
<1>4. QED  BY <1>1, <1>3 DEF Kept

(* A failing statement leaves the same tables whether its rows had been    *)
(* stored or not, but for pages that nobody reads.                         *)
LEMMA UndoneStored ==
  ASSUME TypeOK, NEW s \in Sessions, Undoable(s)
  PROVE /\ Undone(s, tables) \in [Names -> Table]
        /\ Undone(s, Stored(s)) \in [Names -> Table]
        /\ Kept(Undone(s, Stored(s)))
        /\ \A n \in Names :
             /\ Undone(s, Stored(s))[n].cols = Undone(s, tables)[n].cols
             /\ Undone(s, Stored(s))[n].unique = Undone(s, tables)[n].unique
             /\ Undone(s, Stored(s))[n].rows = Undone(s, tables)[n].rows
<1> DEFINE ts == Stored(s)  c == sess[s].count
           U(xs, n) == IF n \in sess[s].ns THEN sess[s].tables[n]
                       ELSE IF n \in sess[s].rewrites THEN Cut(xs[n], c)
                       ELSE xs[n]
<1>1. /\ c \in Nat
      /\ ts \in [Names -> Table] /\ Kept(ts)
      /\ \A n \in Names : /\ ts[n].cols = tables[n].cols
                           /\ ts[n].unique = tables[n].unique
                           /\ ts[n].rows = tables[n].rows
      /\ \A n \in Names : \/ (ts[n] = tables[n] /\ n \notin sess[s].rewrites)
                          \/ ts[n].chain = tables[n].rows
  BY StoredTables, SessionParts
<1>2. tables \in [Names -> Table]
  BY DEF TypeOK
<1> HIDE DEF ts, c
<1>3. Undone(s, ts) = [n \in Names |-> U(ts, n)]
      /\ Undone(s, tables) = [n \in Names |-> U(tables, n)]
  BY DEF Undone, Cut, c
<1>4. \A n \in Names : Kept(Undone(s, tables)) =>
        U(tables, n) \in Table /\ Backed(U(tables, n)) /\ Sound(U(tables, n))
  BY <1>3 DEF Kept
<1>5. ASSUME NEW n \in Names
      PROVE /\ U(ts, n) \in Table /\ Backed(U(ts, n)) /\ Sound(U(ts, n))
            /\ U(ts, n).cols = U(tables, n).cols
            /\ U(ts, n).unique = U(tables, n).unique
            /\ U(ts, n).rows = U(tables, n).rows
  <2>1. U(tables, n) \in Table /\ Backed(U(tables, n)) /\ Sound(U(tables, n))
    BY <1>4 DEF Undoable
  <2>2. CASE n \in sess[s].ns
    BY <2>1, <2>2
  <2>3. CASE n \notin sess[s].ns /\ n \in sess[s].rewrites
    <3>1. /\ ts[n] \in Table /\ Sound(ts[n]) /\ tables[n] \in Table
          /\ ts[n].cols = tables[n].cols /\ ts[n].unique = tables[n].unique
          /\ ts[n].rows = tables[n].rows /\ ts[n].chain = tables[n].rows
      BY <1>1, <1>2, <2>3 DEF Kept
    <3>2. U(ts, n) = Cut(ts[n], c) /\ U(tables, n) = Cut(tables[n], c)
      BY <2>3
    <3>3. /\ Cut(ts[n], c) \in Table /\ Sound(Cut(ts[n], c))
          /\ Cut(ts[n], c).cols = ts[n].cols
          /\ Cut(ts[n], c).unique = ts[n].unique
          /\ Cut(ts[n], c).chain = ts[n].chain
          /\ Cut(ts[n], c).rows = SubSeq(ts[n].rows, 1, Len(ts[n].rows) - c)
      BY <1>1, <3>1, CutTable
    <3>4. /\ Cut(tables[n], c).cols = tables[n].cols
          /\ Cut(tables[n], c).unique = tables[n].unique
          /\ Cut(tables[n], c).rows
               = SubSeq(tables[n].rows, 1, Len(tables[n].rows) - c)
      BY <1>1, <3>1, CutTable
    <3>5. Backed(Cut(ts[n], c))
      <4> DEFINE r == ts[n].rows  m == Len(ts[n].rows) - c
      <4>1. r \in Contents(ts[n].cols) /\ ts[n].cols \in Layouts \cup {<<>>}
        BY <3>1, TableParts
      <4>2. Len(r) \in Nat
        BY <4>1, ContentsAre
      <4>3. m \in Int /\ m <= Len(r)
        BY <4>2, <1>1
      <4> HIDE DEF m
      <4>4. /\ Len(SubSeq(r, 1, m)) <= Len(r)
            /\ \A i \in 1 .. Len(SubSeq(r, 1, m)) : SubSeq(r, 1, m)[i] = r[i]
        BY <4>1, <4>3, FirstRows
      <4>5. Cut(ts[n], c).rows = SubSeq(r, 1, m) /\ Cut(ts[n], c).chain = r
        BY <3>1, <3>3 DEF m
      <4>6. QED  BY <4>4, <4>5 DEF Backed
    <3>6. QED  BY <3>1, <3>2, <3>3, <3>4, <3>5
  <2>4. CASE n \notin sess[s].ns /\ n \notin sess[s].rewrites
    <3>1. U(ts, n) = ts[n] /\ U(tables, n) = tables[n]
      BY <2>4
    <3>2. QED  BY <1>1, <3>1 DEF Kept
  <2>5. QED  BY <2>2, <2>3, <2>4
<1>6. \A n \in Names : U(tables, n) \in Table
  BY <1>4 DEF Undoable
<1> HIDE DEF U
<1>7. QED  BY <1>3, <1>5, <1>6 DEF Kept, ts

-----------------------------------------------------------------------------
(* Every step keeps the invariant. *)

(* The catalog of any tables is one that the file can hold. *)
LEMMA ImageTyped ==
  ASSUME NEW ts \in [Names -> Table], NEW vs \in Views
  PROVE Image(ts, vs) \in
          [tables : [Names -> Entry], views : Views]
<1>1. ASSUME NEW n \in Names
      PROVE [cols |-> ts[n].cols, num |-> Len(ts[n].rows), chain |-> ts[n].chain]
              \in Entry
  <2>1. ts[n] \in Table
    OBVIOUS
  <2>2. /\ ts[n].cols \in Layouts \cup {<<>>} /\ ts[n].rows \in Contents(ts[n].cols)
        /\ ts[n].chain \in Contents(ts[n].cols)
    BY <2>1, TableParts
  <2>3. Len(ts[n].rows) \in 0 .. MaxRows
    BY <2>2, ContentsAre
  <2>4. ts[n].chain \in UNION {Contents(cols) : cols \in Layouts \cup {<<>>}}
    BY <2>2
  <2>5. QED  BY <2>2, <2>3, <2>4 DEF Entry
<1>2. QED  BY <1>1 DEF Image

(* The statements. *)
LEMMA StatementsAre ==
  /\ \A n \in Names, cols \in Layouts, unique \in BOOLEAN :
       [op |-> "create table", name |-> n, cols |-> cols, unique |-> unique]
         \in Statements
  /\ \A n \in Names, cols \in Layouts, rows \in Selected :
       [op |-> "create table as", name |-> n, cols |-> cols, rows |-> rows]
         \in Statements
  /\ \A n \in Names, q \in ViewDefs :
       [op |-> "create view", name |-> n, query |-> q] \in Statements
  /\ \A op \in {"drop tables", "drop views"}, ns \in SUBSET Names, e \in BOOLEAN :
       [op |-> op, names |-> ns, ifExists |-> e] \in Statements
  /\ \A n \in Names, rows \in Selected :
       [op |-> "insert", name |-> n, rows |-> rows] \in Statements
  /\ \A n \in Names :
       \A hit \in SUBSET UNION {[1 .. Len(cols) -> Cells] : cols \in Layouts} :
         [op |-> "delete", name |-> n, hit |-> hit] \in Statements
  /\ \A n \in Names, col \in Columns, i \in Nat \ {0} :
       [op |-> "update", name |-> n, col |-> col, at |-> i] \in Statements
<1> DEFINE
  CreateTables == [op : {"create table"}, name : Names, cols : Layouts,
                   unique : BOOLEAN]
  CreateTablesAs == [op : {"create table as"}, name : Names, cols : Layouts,
                     rows : Selected]
  CreateViews == [op : {"create view"}, name : Names, query : ViewDefs]
  Drops == [op : {"drop tables", "drop views"}, names : SUBSET Names,
            ifExists : BOOLEAN]
  Inserts == [op : {"insert"}, name : Names, rows : Selected]
  Deletes == [op : {"delete"}, name : Names,
              hit : SUBSET UNION {[1 .. Len(cols) -> Cells] : cols \in Layouts}]
  Updates == [op : {"update"}, name : Names, col : Columns, at : Nat \ {0}]
<1>1. Statements = {NoStatement} \cup CreateTables \cup CreateTablesAs
                     \cup CreateViews \cup Drops \cup Inserts \cup Deletes
                     \cup Updates
  BY Zenon DEF Statements
<1>2. \A n \in Names, cols \in Layouts, unique \in BOOLEAN :
        [op |-> "create table", name |-> n, cols |-> cols, unique |-> unique]
          \in CreateTables
  OBVIOUS
<1>3. \A n \in Names, cols \in Layouts, rows \in Selected :
        [op |-> "create table as", name |-> n, cols |-> cols, rows |-> rows]
          \in CreateTablesAs
  OBVIOUS
<1>4. \A n \in Names, q \in ViewDefs :
        [op |-> "create view", name |-> n, query |-> q] \in CreateViews
  OBVIOUS
<1>5. \A op \in {"drop tables", "drop views"}, ns \in SUBSET Names, e \in BOOLEAN :
        [op |-> op, names |-> ns, ifExists |-> e] \in Drops
  OBVIOUS
<1>6. \A n \in Names, rows \in Selected :
        [op |-> "insert", name |-> n, rows |-> rows] \in Inserts
  OBVIOUS
<1>7. \A n \in Names :
        \A hit \in SUBSET UNION {[1 .. Len(cols) -> Cells] : cols \in Layouts} :
          [op |-> "delete", name |-> n, hit |-> hit] \in Deletes
  OBVIOUS
<1>8. \A n \in Names, col \in Columns, i \in Nat \ {0} :
        [op |-> "update", name |-> n, col |-> col, at |-> i] \in Updates
  OBVIOUS
<1> HIDE DEF CreateTables, CreateTablesAs, CreateViews, Drops, Inserts, Deletes,
             Updates
<1>9. \A x : \/ x \in CreateTables \/ x \in CreateTablesAs \/ x \in CreateViews
              \/ x \in Drops \/ x \in Inserts \/ x \in Deletes \/ x \in Updates
             => x \in Statements
  BY <1>1
<1>10. QED  BY <1>2, <1>3, <1>4, <1>5, <1>6, <1>7, <1>8, <1>9, Zenon

(* A session that does nothing. *)
LEMMA IdleTyped == Idle \in Session
<1>1. NoTables \in [Names -> Table] /\ NoViews \in Views
  BY NoTableIs DEF NoTables, NoViews
<1>2. NoStatement \in Statements
  BY Zenon DEF Statements
<1>3. QED  BY <1>1, <1>2, BoundsAssumption DEF Idle, Session

(* The store begins with an empty catalog. *)
LEMMA InitKeeps == Init => Inv
<1> SUFFICES ASSUME Init PROVE Inv
  OBVIOUS
<1> USE DEF Init
<1>1. /\ NoTables \in [Names -> Table] /\ NoViews \in Views
      /\ Kept(NoTables) /\ Kinds(NoTables, NoViews)
  BY NoTableIs DEF NoTables, NoViews, Kept, Kinds
<1>2. Idle \in Session
  BY IdleTyped
<1>3. TypeOK
  <2>1. disk \in [tables : [Names -> Entry], views : Views]
    BY <1>1, ImageTyped
  <2>2. sess \in [Sessions -> Session] /\ begun \in 0 .. MaxStatements
    BY <1>2, BoundsAssumption
  <2>3. QED  BY <1>1, <2>1, <2>2 DEF TypeOK
<1>4. \A s \in Sessions : sess[s].pc = "idle"
  BY DEF Idle
<1>5. FileReadable
  <2>1. ASSUME NEW n \in Names
        PROVE /\ Readable(disk.tables[n])
              /\ disk.tables[n].cols = <<>>
    BY NoTableIs, ImageReads DEF Image, NoTables
  <2>2. QED  BY <2>1 DEF FileReadable, Kinds
<1>6. QED
  BY <1>1, <1>3, <1>4, <1>5
     DEF Inv, OneHolder, Holds, TablesKept, StatementsUndoable,
         RollbacksRestore, FileAgrees, SnapshotKept, WritersNoted

(* A statement in progress whose flush is pending. *)
Pending(stmt, ns, rewrites, ts, vs, count, changes) ==
  [Idle EXCEPT !.pc = "applied", !.stmt = stmt, !.ns = ns, !.rewrites = rewrites,
     !.tables = ts, !.views = vs, !.count = count, !.changes = changes]

LEMMA PendingParts ==
  ASSUME NEW stmt \in Statements,
         NEW ns \in SUBSET Names, NEW rewrites \in SUBSET Names,
         NEW ts \in [Names -> Table],
         NEW vs \in Views,
         NEW count \in 0 .. MaxRows, NEW changes \in BOOLEAN
  PROVE LET st == Pending(stmt, ns, rewrites, ts, vs, count, changes)
        IN  /\ st \in Session
            /\ st.pc = "applied" /\ st.stmt = stmt /\ st.ns = ns /\ st.rewrites = rewrites
            /\ st.tables = ts /\ st.views = vs /\ st.count = count
            /\ st.changes = changes
<1> DEFINE st == Pending(stmt, ns, rewrites, ts, vs, count, changes)
<1>1. Idle = [pc |-> Idle.pc, stmt |-> Idle.stmt, rewrites |-> Idle.rewrites, ns |-> Idle.ns,
              tables |-> Idle.tables, views |-> Idle.views,
              count |-> Idle.count, changes |-> Idle.changes]
  BY DEF Idle
<1>2. /\ st.pc = "applied" /\ st.stmt = stmt /\ st.ns = ns /\ st.rewrites = rewrites
      /\ st.tables = ts /\ st.views = vs /\ st.count = count
  BY <1>1 DEF Pending
<1>3. st.changes = changes
  BY <1>1 DEF Pending
<1>4. st \in Session
  BY IdleTyped DEF Pending, Session
<1>5. QED  BY <1>2, <1>3, <1>4

(* The statement of s has changed the catalog, and can still be undone. *)
Pends(s) ==
  /\ \A r \in Sessions : sess[r].pc \in {"idle", "updating"}
  /\ \A r \in Sessions \ {s} : sess'[r] = sess[r]
  /\ Undone(s, tables)' = tables /\ FormerViews(s)' = views
  /\ sess'[s].pc = "applied"
  /\ UNCHANGED <<disk, tx, writers>>

(* What ns, rewrites and count say is enough to get from tables ts and     *)
(* views vs back to the ones before, and the rows of ts that are not       *)
(* stored are going to be.                                                 *)
Reversible(ns, rewrites, count, changes, ts, vs) ==
  /\ ns \in SUBSET Names /\ rewrites \in SUBSET Names
  /\ count \in 0 .. MaxRows /\ changes \in BOOLEAN
  /\ ts \in [Names -> Table] /\ vs \in Views
  /\ Kinds(ts, vs)
  /\ \A n \in Names :
       /\ Sound(ts[n])
       /\ \/ Backed(ts[n]) \/ n \in rewrites
          \/ rewrites = {} /\ ts[n].chain = <<>>
  /\ \A n \in Names \ ns :
       /\ vs[n] = views[n]
       /\ n \notin rewrites => ts[n] = tables[n]
       /\ n \in rewrites => Cut(ts[n], count) = tables[n]
  /\ ~changes => ns = {} /\ count = 0

(* A statement changes the catalog under the lock in a way that can be     *)
(* undone.                                                                 *)
LEMMA ApplyKeeps ==
  ASSUME Inv, NEW s \in Sessions, Lockable, begun' \in 0 .. MaxStatements,
         NEW stmt \in Statements,
         NEW ns, NEW rewrites, NEW count, NEW changes, NEW ts, NEW vs,
         Apply(s, stmt, ns, rewrites, count, changes, ts, vs),
         Reversible(ns, rewrites, count, changes, ts, vs)
  PROVE Inv' /\ Pends(s)
<1> USE DEF Reversible
<1> DEFINE st == Pending(stmt, ns, rewrites, tables, views, count, changes)
<1>1. /\ tables' = ts /\ views' = vs /\ sess' = [sess EXCEPT ![s] = st]
      /\ UNCHANGED <<disk, tx, poisoned, writers, doubt>>
  BY DEF Apply, Pending
<1>2. TypeOK
  BY DEF Inv
<1>3. /\ st \in Session
      /\ st.pc = "applied" /\ st.stmt = stmt /\ st.ns = ns /\ st.rewrites = rewrites
      /\ st.tables = tables /\ st.views = views /\ st.count = count
      /\ st.changes = changes
  BY <1>2, PendingParts DEF TypeOK
<1> HIDE DEF st
<1>4. /\ sess'[s] = st
      /\ \A r \in Sessions : r # s => sess'[r] = sess[r]
      /\ \A r \in Sessions : sess[r].pc \in {"idle", "updating"}
  BY <1>1, <1>2 DEF TypeOK, Lockable
<1>5. /\ sess'[s].pc = "applied" /\ sess'[s].ns = ns
      /\ sess'[s].rewrites = rewrites /\ sess'[s].tables = tables
      /\ sess'[s].views = views /\ sess'[s].count = count
      /\ sess'[s].changes = changes
  BY <1>3, <1>4
<1>6. TypeOK'
  <2>2. sess' \in [Sessions -> Session]
    BY <1>1, <1>2, <1>3 DEF TypeOK
  <2>3. QED  BY <1>1, <1>2, <2>2 DEF TypeOK
<1>7. Undone(s, tables)' = tables
  <2>1. Undone(s, tables)' =
          [n \in Names |-> IF n \in ns THEN tables[n]
                           ELSE IF n \in rewrites THEN Cut(ts[n], count)
                           ELSE ts[n]]
    <3>1. /\ tables' = ts /\ sess'[s].ns = ns /\ sess'[s].rewrites = rewrites
          /\ sess'[s].tables = tables /\ sess'[s].count = count
      BY <1>1, <1>5
    <3>2. QED  BY ONLY <3>1, Zenon DEF Undone, Cut
  <2>2. tables = [n \in Names |-> tables[n]]
    BY <1>2 DEF TypeOK
  <2>3. \A n \in Names :
          (IF n \in ns THEN tables[n]
           ELSE IF n \in rewrites THEN Cut(ts[n], count) ELSE ts[n]) = tables[n]
    OBVIOUS
  <2>4. QED  BY <2>1, <2>2, <2>3
<1>8. FormerViews(s)' = views
  <2>1. FormerViews(s)' =
          [n \in Names |-> IF n \in ns THEN views[n] ELSE vs[n]]
    BY <1>1, <1>5 DEF FormerViews
  <2>2. views = [n \in Names |-> views[n]]
    BY <1>2 DEF TypeOK
  <2>3. QED  BY <2>1, <2>2
<1>9. Kept(tables) /\ Kinds(tables, views)
  BY <1>4 DEF Inv, TablesKept
<1>10. Undoable(s)'
  <2>1. Kept(Undone(s, tables)') /\ Kinds(Undone(s, tables)', FormerViews(s)')
    BY <1>7, <1>8, <1>9
  <2>2. ~sess'[s].changes => sess'[s].ns = {} /\ sess'[s].count = 0
    BY <1>5
  <2>3. \A n \in Names :
          /\ Sound(tables'[n])
          /\ \/ Backed(tables'[n]) \/ n \in sess'[s].rewrites
             \/ sess'[s].rewrites = {} /\ tables'[n].chain = <<>>
    BY <1>1, <1>5
  <2>4. QED  BY <2>1, <2>2, <2>3 DEF Undoable, Kept, Kinds, Sound, Backed
<1>11. /\ OneHolder' /\ TablesKept' /\ StatementsUndoable' /\ RollbacksRestore'
       /\ FileAgrees'
  <2>1. \A r \in Sessions : sess'[r].pc \notin {"idle", "updating"} => r = s
    BY <1>4
  <2>2. Kinds(tables', views')
    BY <1>1
  <2>3. OneHolder'
    BY <2>1 DEF OneHolder, Holds
  <2>4. TablesKept'
    BY <1>5, <2>2 DEF TablesKept, Kinds
  <2>5. StatementsUndoable'
    BY <2>1, <1>10 DEF StatementsUndoable
  <2>6. RollbacksRestore'
    BY <2>1, <1>5 DEF RollbacksRestore
  <2>7. FileAgrees'
    BY <1>5 DEF FileAgrees
  <2>8. QED  BY <2>3, <2>4, <2>5, <2>6, <2>7
<1>12. FileReadable' /\ SnapshotKept'
  BY <1>1 DEF Inv, FileReadable, SnapshotKept, Kept, Kinds, Backed, Sound
<1>13. WritersNoted'
  <2>1. tx # NoTx /\ ~tx.external => \A w \in writers : w = tx.owner
    BY <1>2, <1>4 DEF Inv, WritersNoted, TypeOK
  <2>2. QED  BY <1>1, <2>1 DEF WritersNoted
<1>14. QED
  <2>1. Inv'
    BY <1>6, <1>11, <1>12, <1>13 DEF Inv
  <2>2. Pends(s)
    BY <1>1, <1>4, <1>5, <1>7, <1>8 DEF Pends
  <2>3. QED  BY <2>1, <2>2

(* A new table. *)
LEMMA NewTable ==
  ASSUME NEW cols \in Layouts, NEW unique \in BOOLEAN,
         NEW rows \in RowSeqs(Len(cols), MaxSelected)
  PROVE /\ LET t == [NoTable EXCEPT !.cols = cols, !.unique = unique]
           IN  t \in Table /\ Backed(t) /\ Sound(t)
        /\ LET t == [NoTable EXCEPT !.cols = cols, !.rows = rows]
           IN  t \in Table /\ t.chain = <<>> /\ Sound(t)
<1>0. cols \in Seq(Columns)
  BY LayoutsAssumption
<1>1. rows \in Contents(cols) /\ <<>> \in Contents(cols)
  <2>1. MaxRows \in Nat /\ MaxSelected \in Nat /\ MaxSelected <= MaxRows
    BY BoundsAssumption
  <2>2. rows \in Seq([1 .. Len(cols) -> Cells]) /\ Len(rows) <= MaxSelected
    BY <2>1, RowSeqsAre
  <2>3. Len(rows) \in Nat
    BY <2>2
  <2>4. QED  BY <2>1, <2>2, <2>3, ContentsAre
<1>2. NoTable = [cols |-> NoTable.cols, unique |-> NoTable.unique,
                 rows |-> NoTable.rows, chain |-> NoTable.chain]
  BY DEF NoTable
<1>3. /\ NoTable.rows = <<>> /\ NoTable.chain = <<>> /\ NoTable.unique = FALSE
  BY DEF NoTable
<1>4. [NoTable EXCEPT !.cols = cols, !.unique = unique] \in TablesOf(cols)
  BY <1>1, <1>2, <1>3 DEF TablesOf
<1>5. [NoTable EXCEPT !.cols = cols, !.rows = rows] \in TablesOf(cols)
  BY <1>1, <1>2, <1>3 DEF TablesOf
<1>6. TablesOf(cols) \subseteq Table
  BY DEF Table
<1>7. LET t == [NoTable EXCEPT !.cols = cols, !.unique = unique]
      IN  Backed(t) /\ Sound(t)
  BY <1>2, <1>3 DEF Backed, Sound, Distinct
<1>8. LET t == [NoTable EXCEPT !.cols = cols, !.rows = rows]
      IN  t.chain = <<>> /\ Sound(t)
  BY <1>2, <1>3 DEF Sound
<1>9. QED  BY <1>4, <1>5, <1>6, <1>7, <1>8

(* What a statement finds when it takes the lock. *)
LEMMA LockFinds ==
  ASSUME Inv, Lockable
  PROVE /\ Kept(tables) /\ Kinds(tables, views)
        /\ tables \in [Names -> Table]
        /\ views \in Views
        /\ 0 \in 0 .. MaxRows
        /\ \A s \in Sessions : sess[s].pc \in {"idle", "updating"}
        /\ \A s \in Sessions : Start(s) => begun' \in 0 .. MaxStatements
<1>1. \A s \in Sessions : sess[s].pc \in {"idle", "updating"}
  BY DEF Lockable
<1>2. Kept(tables) /\ Kinds(tables, views)
  BY <1>1 DEF Inv, TablesKept
<1>3. \A s \in Sessions : Start(s) => begun' \in 0 .. MaxStatements
  BY BoundsAssumption DEF Inv, TypeOK, Start
<1>4. 0 \in 0 .. MaxRows
  BY BoundsAssumption
<1>5. QED  BY <1>1, <1>2, <1>3, <1>4 DEF Inv, TypeOK

LEMMA CreateTableKeeps ==
  ASSUME Inv, NEW s \in Sessions, NEW n \in Names, NEW cols \in Layouts,
         NEW unique \in BOOLEAN, CreateTable(s, n, cols, unique)
  PROVE Inv' /\ Pends(s)
<1> DEFINE stmt == [op |-> "create table", name |-> n, cols |-> cols, unique |-> unique]
           t == [NoTable EXCEPT !.cols = cols, !.unique = unique]
           ts == [tables EXCEPT ![n] = t]
<1>1. /\ Start(s) /\ Lockable /\ views[n] = NoView
      /\ Apply(s, stmt, {n}, {}, 0, TRUE, ts, views)
  BY DEF CreateTable
<1>2. t \in Table /\ Backed(t) /\ Sound(t)
  <2>1. <<>> \in RowSeqs(Len(cols), MaxSelected)
    <3>1. <<>> \in Seq([1 .. Len(cols) -> Cells]) /\ Len(<<>>) <= MaxSelected
            /\ MaxSelected \in Nat
      BY BoundsAssumption
    <3>2. QED  BY <3>1, RowSeqsAre
  <2>2. QED  BY <2>1, NewTable
<1>3. /\ Kept(tables) /\ Kinds(tables, views) /\ tables \in [Names -> Table]
      /\ views \in Views /\ 0 \in 0 .. MaxRows
      /\ begun' \in 0 .. MaxStatements
  BY <1>1, LockFinds
<1> HIDE DEF t
<1>4. /\ ts \in [Names -> Table] /\ ts[n] = t
      /\ \A m \in Names \ {n} : ts[m] = tables[m]
  BY <1>2, <1>3
<1> HIDE DEF ts
<1>5. Kinds(ts, views)
  BY <1>1, <1>3, <1>4 DEF Kinds
<1>6. \A m \in Names : Sound(ts[m]) /\ Backed(ts[m])
  BY <1>2, <1>3, <1>4 DEF Kept
<1>7. Reversible({n}, {}, 0, TRUE, ts, views)
  BY <1>3, <1>4, <1>5, <1>6 DEF Reversible
<1>8. stmt \in Statements
  BY StatementsAre DEF Selected
<1> HIDE DEF stmt
<1>9. QED  BY <1>1, <1>3, <1>7, <1>8, ApplyKeeps

LEMMA CreateTableAsKeeps ==
  ASSUME Inv, NEW s \in Sessions, NEW n \in Names, NEW cols \in Layouts,
         NEW rows \in RowSeqs(Len(cols), MaxSelected),
         CreateTableAs(s, n, cols, rows)
  PROVE Inv' /\ Pends(s)
<1> DEFINE stmt == [op |-> "create table as", name |-> n, cols |-> cols, rows |-> rows]
           t == [NoTable EXCEPT !.cols = cols, !.rows = rows]
           ts == [tables EXCEPT ![n] = t]
<1>1. /\ Start(s) /\ Lockable /\ views[n] = NoView
      /\ Apply(s, stmt, {n}, {}, 0, TRUE, ts, views)
  BY DEF CreateTableAs
<1>2. t \in Table /\ t.chain = <<>> /\ Sound(t)
  BY NewTable
<1>3. /\ Kept(tables) /\ Kinds(tables, views) /\ tables \in [Names -> Table]
      /\ views \in Views /\ 0 \in 0 .. MaxRows
      /\ begun' \in 0 .. MaxStatements
  BY <1>1, LockFinds
<1> HIDE DEF t
<1>4. /\ ts \in [Names -> Table] /\ ts[n] = t
      /\ \A m \in Names \ {n} : ts[m] = tables[m]
  BY <1>2, <1>3
<1> HIDE DEF ts
<1>5. Kinds(ts, views)
  BY <1>1, <1>3, <1>4 DEF Kinds
<1>6. \A m \in Names : Sound(ts[m]) /\ (Backed(ts[m]) \/ ts[m].chain = <<>>)
  BY <1>2, <1>3, <1>4 DEF Kept
<1>7. Reversible({n}, {}, 0, TRUE, ts, views)
  BY <1>3, <1>4, <1>5, <1>6 DEF Reversible
<1>8. stmt \in Statements
  BY StatementsAre DEF Selected
<1> HIDE DEF stmt
<1>9. QED  BY <1>1, <1>3, <1>7, <1>8, ApplyKeeps

LEMMA CreateViewKeeps ==
  ASSUME Inv, NEW s \in Sessions, NEW n \in Names, NEW q \in ViewDefs,
         CreateView(s, n, q)
  PROVE Inv' /\ Pends(s)
<1> DEFINE stmt == [op |-> "create view", name |-> n, query |-> q]
           vs == [views EXCEPT ![n] = q]
<1>1. /\ Start(s) /\ Lockable /\ tables[n] = NoTable
      /\ Apply(s, stmt, {n}, {}, 0, TRUE, tables, vs)
  BY DEF CreateView
<1>2. /\ Kept(tables) /\ Kinds(tables, views) /\ tables \in [Names -> Table]
      /\ views \in Views /\ 0 \in 0 .. MaxRows
      /\ begun' \in 0 .. MaxStatements
  BY <1>1, LockFinds
<1>3. /\ vs \in Views
      /\ \A m \in Names \ {n} : vs[m] = views[m]
  BY <1>2
<1> HIDE DEF vs
<1>4. Kinds(tables, vs)
  BY <1>1, <1>2, <1>3, NoTableIs DEF Kinds
<1>5. Reversible({n}, {}, 0, TRUE, tables, vs)
  BY <1>2, <1>3, <1>4 DEF Reversible, Kept
<1>6. stmt \in Statements
  BY StatementsAre DEF Selected
<1> HIDE DEF stmt
<1>7. QED  BY <1>1, <1>2, <1>5, <1>6, ApplyKeeps

LEMMA DropTablesKeeps ==
  ASSUME Inv, NEW s \in Sessions, NEW ns \in SUBSET Names, NEW ifExists \in BOOLEAN,
         DropTables(s, ns, ifExists)
  PROVE Inv' /\ Pends(s)
<1> DEFINE stmt == [op |-> "drop tables", names |-> ns, ifExists |-> ifExists]
           dropped == {n \in ns : tables[n] # NoTable}
           ts == [n \in Names |-> IF n \in ns THEN NoTable ELSE tables[n]]
<1>1. /\ Start(s) /\ Lockable
      /\ Apply(s, stmt, dropped, {}, 0, dropped # {}, ts, views)
  BY DEF DropTables
<1>2. /\ Kept(tables) /\ Kinds(tables, views) /\ tables \in [Names -> Table]
      /\ views \in Views /\ 0 \in 0 .. MaxRows
      /\ begun' \in 0 .. MaxStatements
  BY <1>1, LockFinds
<1>3. /\ dropped \in SUBSET Names /\ ts \in [Names -> Table]
      /\ \A m \in Names : ts[m] = NoTable \/ ts[m] = tables[m]
      /\ \A m \in Names \ dropped : ts[m] = tables[m]
  BY <1>2, NoTableIs
<1> HIDE DEF ts, dropped
<1>4. Kinds(ts, views)
  BY <1>2, <1>3, NoTableIs DEF Kinds
<1>5. \A m \in Names : Sound(ts[m]) /\ Backed(ts[m])
  BY <1>2, <1>3, NoTableIs DEF Kept
<1>6. Reversible(dropped, {}, 0, dropped # {}, ts, views)
  BY <1>2, <1>3, <1>4, <1>5 DEF Reversible
<1>7. stmt \in Statements
  BY StatementsAre DEF Selected
<1> HIDE DEF stmt
<1>8. QED  BY <1>1, <1>2, <1>6, <1>7, ApplyKeeps

LEMMA DropViewsKeeps ==
  ASSUME Inv, NEW s \in Sessions, NEW ns \in SUBSET Names, NEW ifExists \in BOOLEAN,
         DropViews(s, ns, ifExists)
  PROVE Inv' /\ Pends(s)
<1> DEFINE stmt == [op |-> "drop views", names |-> ns, ifExists |-> ifExists]
           dropped == {n \in ns : views[n] # NoView}
           vs == [n \in Names |-> IF n \in ns THEN NoView ELSE views[n]]
<1>1. /\ Start(s) /\ Lockable
      /\ Apply(s, stmt, dropped, {}, 0, dropped # {}, tables, vs)
  BY DEF DropViews
<1>2. /\ Kept(tables) /\ Kinds(tables, views) /\ tables \in [Names -> Table]
      /\ views \in Views /\ 0 \in 0 .. MaxRows
      /\ begun' \in 0 .. MaxStatements
  BY <1>1, LockFinds
<1>3. /\ dropped \in SUBSET Names /\ vs \in Views
      /\ \A m \in Names : vs[m] = NoView \/ vs[m] = views[m]
      /\ \A m \in Names \ dropped : vs[m] = views[m]
  BY <1>2
<1> HIDE DEF vs, dropped
<1>4. Kinds(tables, vs)
  BY <1>2, <1>3 DEF Kinds
<1>5. Reversible(dropped, {}, 0, dropped # {}, tables, vs)
  BY <1>2, <1>3, <1>4 DEF Reversible, Kept
<1>6. stmt \in Statements
  BY StatementsAre DEF Selected
<1> HIDE DEF stmt
<1>7. QED  BY <1>1, <1>2, <1>5, <1>6, ApplyKeeps

(* Rows of the same columns can take the place of the rows of a table. *)
LEMMA WithRows ==
  ASSUME NEW t \in Table, t # NoTable, NEW rows \in Contents(t.cols)
  PROVE LET u == [t EXCEPT !.rows = rows]
        IN  /\ u \in Table /\ u.cols = t.cols /\ u.unique = t.unique
            /\ u.rows = rows /\ u.chain = t.chain
<1>1. /\ t = [cols |-> t.cols, unique |-> t.unique, rows |-> t.rows,
              chain |-> t.chain]
      /\ t.cols \in Layouts /\ t.unique \in BOOLEAN
      /\ t.chain \in Contents(t.cols)
  BY TableParts
<1>2. [t EXCEPT !.rows = rows]
        = [cols |-> t.cols, unique |-> t.unique, rows |-> rows, chain |-> t.chain]
  BY <1>1
<1>3. [cols |-> t.cols, unique |-> t.unique, rows |-> rows, chain |-> t.chain]
        \in Table
  BY <1>1, TableFrom
<1>4. QED  BY <1>2, <1>3

(* Truncating takes off what was appended. *)
LEMMA CutAppended ==
  ASSUME NEW t \in Table, t # NoTable, NEW rows \in Seq([1 .. Len(t.cols) -> Cells]),
         Len(t.rows) + Len(rows) <= MaxRows
  PROVE LET u == [t EXCEPT !.rows = @ \o rows]
        IN  u \in Table /\ Cut(u, Len(rows)) = t /\ u.cols = t.cols
<1> DEFINE Row == [1 .. Len(t.cols) -> Cells]
           both == t.rows \o rows
           u == [t EXCEPT !.rows = both]
<1>1. /\ t = [cols |-> t.cols, unique |-> t.unique, rows |-> t.rows,
              chain |-> t.chain]
      /\ t.cols \in Layouts \cup {<<>>} /\ t.rows \in Contents(t.cols)
  BY TableParts
<1>2. t.rows \in Seq(Row) /\ rows \in Seq(Row)
  BY <1>1, ContentsAre
<1> HIDE DEF Row
<1>3. /\ both \in Seq(Row) /\ Len(both) <= MaxRows
      /\ SubSeq(both, 1, Len(both) - Len(rows)) = t.rows
  BY <1>2
<1> HIDE DEF both
<1>4. both \in Contents(t.cols)
  BY <1>1, <1>3, ContentsAre DEF Row
<1>5. u \in Table /\ u.cols = t.cols /\ u.rows = both
  BY <1>4, WithRows
<1>6. Cut(u, Len(rows)) = t
  <2>1. Cut(u, Len(rows)) = [u EXCEPT !.rows = t.rows]
    BY <1>3, <1>5 DEF Cut
  <2>2. [u EXCEPT !.rows = t.rows] = t
    BY <1>1
  <2>3. QED  BY <2>1, <2>2
<1>7. QED  BY <1>5, <1>6 DEF both

(* Rows of the table's arity, whatever columns they were selected from. *)
LEMMA SelectedRows ==
  ASSUME NEW cols \in Layouts, NEW w \in Nat,
         NEW rows \in RowSeqs(Len(cols), MaxSelected),
         \A i \in DOMAIN rows : Len(rows[i]) = w
  PROVE rows \in Seq([1 .. w -> Cells]) /\ Len(rows) \in 0 .. MaxRows
<1>0. cols \in Seq(Columns)
  BY LayoutsAssumption
<1>1. /\ MaxSelected \in Nat /\ MaxSelected <= MaxRows /\ MaxRows \in Nat
  BY BoundsAssumption
<1>2. rows \in Seq([1 .. Len(cols) -> Cells]) /\ Len(rows) <= MaxSelected
  BY <1>1, RowSeqsAre
<1>3. Len(rows) \in 0 .. MaxRows /\ DOMAIN rows = 1 .. Len(rows)
  BY <1>1, <1>2
<1>4. \A i \in DOMAIN rows : rows[i] \in [1 .. w -> Cells]
  <2>1. TAKE i \in DOMAIN rows
  <2>2. rows[i] \in [1 .. Len(cols) -> Cells] /\ Len(cols) \in Nat
    BY <1>0, <1>2, <1>3
  <2>3. Len(rows[i]) = Len(cols)
    BY <2>2
  <2>4. QED  BY <2>2, <2>3
<1> DEFINE Row == [1 .. w -> Cells]
<1> HIDE DEF Row
<1>5. rows = [i \in 1 .. Len(rows) |-> rows[i]]
  BY <1>2
<1>6. rows \in Seq(Row)
  <2>1. \A i \in 1 .. Len(rows) : rows[i] \in Row
    BY <1>3, <1>4 DEF Row
  <2>2. rows \in [1 .. Len(rows) -> Row]
    BY <1>5, <2>1
  <2>3. QED  BY <1>3, <2>2
<1>7. QED  BY <1>3, <1>6 DEF Row

LEMMA InsertKeeps ==
  ASSUME Inv, NEW s \in Sessions, NEW n \in Names, NEW cols \in Layouts,
         NEW rows \in RowSeqs(Len(cols), MaxSelected), Insert(s, n, rows)
  PROVE Inv' /\ Pends(s)
<1> DEFINE stmt == [op |-> "insert", name |-> n, rows |-> rows]
           t == [tables[n] EXCEPT !.rows = @ \o rows]
           ts == [tables EXCEPT ![n] = t]
<1>1. /\ Start(s) /\ Lockable /\ tables[n] # NoTable
      /\ \A i \in DOMAIN rows : Len(rows[i]) = Len(tables[n].cols)
      /\ Len(tables[n].rows) + Len(rows) <= MaxRows
      /\ ConstraintsHold(t)
      /\ Apply(s, stmt, {}, {n}, Len(rows), rows # <<>>, ts, views)
  BY DEF Insert
<1>2. /\ Kept(tables) /\ Kinds(tables, views) /\ tables \in [Names -> Table]
      /\ views \in Views
      /\ begun' \in 0 .. MaxStatements
  BY <1>1, LockFinds
<1>3. tables[n] \in Table /\ tables[n].cols \in Layouts
  BY <1>1, <1>2, TableParts
<1>4. Len(tables[n].cols) \in Nat
  BY <1>3, LayoutsAssumption
<1>5. /\ rows \in Seq([1 .. Len(tables[n].cols) -> Cells])
      /\ Len(rows) \in 0 .. MaxRows
  BY <1>1, <1>4, SelectedRows
<1>6. /\ t \in Table /\ Cut(t, Len(rows)) = tables[n] /\ t.cols = tables[n].cols
  BY <1>1, <1>3, <1>5, CutAppended
<1>7. Sound(t)
  BY <1>1 DEF ConstraintsHold, Sound
<1>8. rows = <<>> => Len(rows) = 0
  OBVIOUS
<1> HIDE DEF t
<1>9. /\ ts \in [Names -> Table] /\ ts[n] = t
      /\ \A m \in Names \ {n} : ts[m] = tables[m]
  BY <1>2, <1>6
<1> HIDE DEF ts
<1>10. Kinds(ts, views)
  BY <1>2, <1>6, <1>9 DEF Kinds
<1>11. \A m \in Names : Sound(ts[m]) /\ (Backed(ts[m]) \/ m \in {n})
  BY <1>2, <1>7, <1>9 DEF Kept
<1>12. \A m \in Names : /\ m \notin {n} => ts[m] = tables[m]
                        /\ m \in {n} => Cut(ts[m], Len(rows)) = tables[m]
  BY <1>6, <1>9
<1>13. Reversible({}, {n}, Len(rows), rows # <<>>, ts, views)
  BY <1>2, <1>5, <1>8, <1>9, <1>10, <1>11, <1>12 DEF Reversible
<1>14. stmt \in Statements
  BY StatementsAre DEF Selected
<1> HIDE DEF stmt
<1>15. QED  BY <1>1, <1>2, <1>13, <1>14, ApplyKeeps

(* A statement that rewrites the rows of one table, and restores all of it *)
(* when it fails.                                                          *)
LEMMA RewriteKeeps ==
  ASSUME Inv, NEW s \in Sessions, NEW stmt \in Statements, NEW n \in Names, NEW t \in Table,
         Lockable, begun' \in 0 .. MaxStatements,
         t.cols = tables[n].cols, ConstraintsHold(t),
         Apply(s, stmt, {n}, {n}, 0, TRUE, [tables EXCEPT ![n] = t], views)
  PROVE Inv' /\ Pends(s)
<1> DEFINE ts == [tables EXCEPT ![n] = t]
<1>1. /\ Kept(tables) /\ Kinds(tables, views) /\ tables \in [Names -> Table]
      /\ views \in Views /\ 0 \in 0 .. MaxRows
  BY LockFinds
<1>2. /\ ts \in [Names -> Table] /\ ts[n] = t
      /\ \A m \in Names \ {n} : ts[m] = tables[m]
  BY <1>1
<1>3. Sound(t)
  BY DEF ConstraintsHold, Sound
<1> HIDE DEF ts
<1>4. Kinds(ts, views)
  BY <1>1, <1>2 DEF Kinds
<1>5. \A m \in Names : Sound(ts[m]) /\ (Backed(ts[m]) \/ m \in {n})
  BY <1>1, <1>2, <1>3 DEF Kept
<1>6. Reversible({n}, {n}, 0, TRUE, ts, views)
  BY <1>1, <1>2, <1>4, <1>5 DEF Reversible
<1>7. Apply(s, stmt, {n}, {n}, 0, TRUE, ts, views)
  BY DEF ts
<1>8. QED  BY <1>6, <1>7, ApplyKeeps

LEMMA DeleteKeeps ==
  ASSUME Inv, NEW s \in Sessions, NEW n \in Names,
         NEW hit \in SUBSET Range(tables[n].rows), Delete(s, n, hit)
  PROVE Inv' /\ Pends(s)
<1>1. Start(s) /\ Lockable /\ hit \cap Range(tables[n].rows) # {}
  BY DEF Delete
<1>2. PICK kept \in Contents(tables[n].cols) :
        /\ ConstraintsHold([tables[n] EXCEPT !.rows = kept])
        /\ Apply(s, [op |-> "delete", name |-> n, hit |-> hit], {n}, {n}, 0, TRUE,
             [tables EXCEPT ![n] = [tables[n] EXCEPT !.rows = kept]], views)
  BY DEF Delete
<1>3. tables \in [Names -> Table] /\ begun' \in 0 .. MaxStatements
  BY <1>1, LockFinds
<1>4. tables[n] \in Table /\ tables[n] # NoTable
  BY <1>1, <1>3, NoTableIs DEF Range
<1> DEFINE t == [tables[n] EXCEPT !.rows = kept]
           stmt == [op |-> "delete", name |-> n, hit |-> hit]
<1>5. t \in Table /\ t.cols = tables[n].cols
  BY <1>4, WithRows
<1>6. ConstraintsHold(t)
      /\ Apply(s, stmt, {n}, {n}, 0, TRUE, [tables EXCEPT ![n] = t], views)
  BY <1>2
<1>7. stmt \in Statements
  <2>1. /\ tables[n].cols \in Layouts
        /\ tables[n].rows \in Seq([1 .. Len(tables[n].cols) -> Cells])
    BY <1>4, TableParts, ContentsAre
  <2>2. hit \subseteq [1 .. Len(tables[n].cols) -> Cells]
    BY <2>1 DEF Range
  <2>3. hit \in SUBSET UNION {[1 .. Len(cols) -> Cells] : cols \in Layouts}
    BY <2>1, <2>2
  <2>4. QED  BY <2>3, StatementsAre
<1> HIDE DEF t, stmt
<1>8. QED  BY <1>1, <1>3, <1>5, <1>6, <1>7, RewriteKeeps

LEMMA UpdateApplyKeeps ==
  ASSUME Inv, NEW s \in Sessions, NEW n \in Names, NEW cell \in Cells,
         NEW hit, UpdateApply(s, n, hit, cell)
  PROVE Inv' /\ Pends(s)
<1> DEFINE i == sess[s].stmt.at  old == tables[n].rows
           new == [k \in DOMAIN old |->
                     IF old[k] \in hit THEN [old[k] EXCEPT ![i] = cell] ELSE old[k]]
           t == [tables[n] EXCEPT !.rows = new]
<1>1. /\ Lockable /\ hit \cap Range(old) # {} /\ ConstraintsHold(t)
      /\ Apply(s, sess[s].stmt, {n}, {n}, 0, TRUE, [tables EXCEPT ![n] = t], views)
      /\ begun' = begun
  BY DEF UpdateApply
<1>2. tables \in [Names -> Table] /\ begun' \in 0 .. MaxStatements
  BY <1>1 DEF Inv, TypeOK
<1>3. tables[n] \in Table /\ tables[n] # NoTable
  <2>1. Range(old) # {}
    BY <1>1
  <2>2. old # <<>>
    BY <2>1 DEF Range
  <2>3. QED  BY <1>2, <2>2, NoTableIs
<1> DEFINE Row == [1 .. Len(tables[n].cols) -> Cells]
<1>4. /\ tables[n].cols \in Layouts \cup {<<>>} /\ old \in Contents(tables[n].cols)
  BY <1>3, TableParts
<1>5. old \in Seq(Row) /\ Len(old) <= MaxRows
  BY <1>4, ContentsAre
<1>6. \A r \in Row : [r EXCEPT ![i] = cell] \in Row
  OBVIOUS
<1>7. new \in Seq(Row) /\ Len(new) = Len(old)
  <2> HIDE DEF Row, i
  <2>1. DOMAIN old = 1 .. Len(old) /\ Len(old) \in Nat
          /\ \A k \in DOMAIN old : old[k] \in Row
    BY <1>5
  <2>2. \A k \in 1 .. Len(old) :
          (IF old[k] \in hit THEN [old[k] EXCEPT ![i] = cell] ELSE old[k]) \in Row
    BY <1>6, <2>1
  <2>3. new \in [1 .. Len(old) -> Row]
    BY <2>1, <2>2
  <2> HIDE DEF new
  <2>4. QED  BY <2>1, <2>3
<1> HIDE DEF new
<1>8. new \in Contents(tables[n].cols)
  BY <1>4, <1>5, <1>7, ContentsAre
<1>9. t \in Table /\ t.cols = tables[n].cols
  BY <1>3, <1>8, WithRows
<1> HIDE DEF t
<1>10. sess[s].stmt \in Statements
  BY SessionParts DEF Inv
<1>11. QED  BY <1>1, <1>2, <1>9, <1>10, RewriteKeeps

(* The other sessions while one holds catalog_commit. *)
LEMMA OthersWait ==
  ASSUME Inv, NEW s \in Sessions, Holds(s)
  PROVE \A r \in Sessions \ {s} : sess[r].pc \in {"idle", "updating"}
BY DEF Inv, OneHolder, Holds

(* The invariant, where no flush is pending. *)
LEMMA SettledKeeps ==
  ASSUME TypeOK', OneHolder', Kept(tables)', Kinds(tables, views)',
         FileReadable', FileAgrees', SnapshotKept', WritersNoted',
         \A r \in Sessions : sess'[r].pc \in {"idle", "updating", "published"}
  PROVE Inv'
<1>1. TablesKept' /\ StatementsUndoable' /\ RollbacksRestore'
  BY DEF TablesKept, StatementsUndoable, RollbacksRestore
<1>2. QED  BY <1>1 DEF Inv

(* What a statement undoes does not depend on the other sessions. *)
LEMMA UndoneSame ==
  ASSUME NEW r \in Sessions, sess'[r] = sess[r], tables' = tables, views' = views
  PROVE Undone(r, tables)' = Undone(r, tables) /\ FormerViews(r)' = FormerViews(r)
<1>1. Undone(r, tables)' = Undone(r, tables)
  BY Zenon DEF Undone
<1>2. FormerViews(r)' = FormerViews(r)
  BY Zenon DEF FormerViews
<1>3. QED  BY <1>1, <1>2

(* Session s takes a step of an UPDATE that leaves the catalog alone. *)
Waits(s) ==
  /\ sess[s].pc \in {"idle", "updating"} /\ sess'[s].pc \in {"idle", "updating"}
  /\ \A r \in Sessions \ {s} : sess'[r] = sess[r]
  /\ UNCHANGED <<tables, views, disk, tx, writers>>

LEMMA WaitingKeeps ==
  ASSUME Inv, NEW s \in Sessions, NEW st \in Session,
         st.pc \in {"idle", "updating"}, sess[s].pc \in {"idle", "updating"},
         sess' = [sess EXCEPT ![s] = st],
         UNCHANGED <<tables, views, disk, tx, writers, doubt>>,
         poisoned' \in BOOLEAN, begun' \in 0 .. MaxStatements
  PROVE Inv' /\ Waits(s)
<1>1. TypeOK'
  BY DEF Inv, TypeOK
<1>2. /\ sess'[s] = st
      /\ \A r \in Sessions \ {s} : sess'[r] = sess[r]
  BY DEF Inv, TypeOK
<1>3. OneHolder'
  BY <1>2 DEF Inv, OneHolder, Holds
<1>4. \A r \in Sessions : sess'[r].pc \notin {"idle", "updating"} \/
                           sess[r].pc \notin {"idle", "updating"} =>
                             sess'[r] = sess[r]
  BY <1>2
<1>5. TablesKept' /\ RollbacksRestore' /\ FileAgrees'
  BY <1>4 DEF Inv, TablesKept, RollbacksRestore, FileAgrees, Kept, Kinds, Backed,
              Sound, Image
<1>6. StatementsUndoable'
  <2> SUFFICES ASSUME NEW r \in Sessions, sess'[r].pc = "applied"
               PROVE Undoable(r)'
    BY DEF StatementsUndoable
  <2>1. sess'[r] = sess[r] /\ Undoable(r)
    BY <1>4 DEF Inv, StatementsUndoable
  <2>2. Undone(r, tables)' = Undone(r, tables) /\ FormerViews(r)' = FormerViews(r)
    BY <2>1, UndoneSame
  <2>3. QED  BY <2>1, <2>2 DEF Undoable, Kept, Kinds, Sound, Backed
<1>7. FileReadable' /\ SnapshotKept'
  BY DEF Inv, FileReadable, SnapshotKept, Kept, Kinds, Backed, Sound
<1>8. WritersNoted'
  BY <1>2, <1>4 DEF Inv, WritersNoted, TypeOK
<1>9. QED  BY <1>1, <1>2, <1>3, <1>5, <1>6, <1>7, <1>8 DEF Inv, Waits

LEMMA UpdateResolveKeeps ==
  ASSUME Inv, NEW s \in Sessions, NEW n \in Names, NEW i \in DOMAIN tables[n].cols,
         UpdateResolve(s, n, i)
  PROVE Inv' /\ Waits(s)
<1> DEFINE stmt == [op |-> "update", name |-> n, col |-> tables[n].cols[i], at |-> i]
           st == [Idle EXCEPT !.pc = "updating", !.stmt = stmt]
<1>1. /\ Start(s) /\ sess' = [sess EXCEPT ![s] = st]
      /\ UNCHANGED <<tables, views, disk, tx, poisoned, writers, doubt>>
  BY DEF UpdateResolve
<1>2. tables[n] \in Table
  BY DEF Inv, TypeOK
<1>3. tables[n].cols \in Layouts \cup {<<>>}
  BY <1>2, TableParts
<1>4. tables[n].cols \in Seq(Columns)
  BY <1>3, LayoutsAssumption
<1>5. i \in Nat \ {0} /\ tables[n].cols[i] \in Columns
  BY <1>4
<1>6. st \in Session
  <2>1. stmt \in Statements
    BY <1>5, StatementsAre
  <2> HIDE DEF stmt
  <2>2. QED  BY <2>1, IdleTyped DEF Session
<1>7. st.pc = "updating"
  <2>1. DOMAIN Idle = {"pc", "stmt", "rewrites", "ns", "tables", "views",
                       "count", "changes"}
    BY DEF Idle
  <2>2. QED  BY <2>1
<1>8. begun' \in 0 .. MaxStatements /\ poisoned' \in BOOLEAN
        /\ sess[s].pc \in {"idle", "updating"}
  BY <1>1, BoundsAssumption DEF Start, Inv, TypeOK
<1> HIDE DEF st
<1>9. QED  BY <1>1, <1>6, <1>7, <1>8, WaitingKeeps

LEMMA UpdateEndsKeeps ==
  ASSUME Inv, NEW s \in Sessions, UpdatePanics(s) \/ UpdateRefused(s)
  PROVE Inv' /\ Waits(s)
<1>1. /\ sess[s].pc = "updating" /\ sess' = [sess EXCEPT ![s] = Idle]
      /\ UNCHANGED <<tables, views, disk, tx, writers, doubt>>
      /\ begun' \in 0 .. MaxStatements /\ poisoned' \in BOOLEAN
  BY DEF UpdatePanics, UpdateRefused, Inv, TypeOK
<1>2. Idle \in Session /\ Idle.pc = "idle"
  BY IdleTyped DEF Idle
<1>3. QED  BY <1>1, <1>2, WaitingKeeps

(* A session that ends holding the lock. *)
LEMMA LockReleased ==
  ASSUME Inv, NEW s \in Sessions, Holds(s) \/ Lockable, NEW st \in Session,
         sess' = [sess EXCEPT ![s] = st]
  PROVE /\ sess' \in [Sessions -> Session] /\ sess'[s] = st
        /\ \A r \in Sessions \ {s} :
             sess'[r] = sess[r] /\ sess'[r].pc \in {"idle", "updating"}
        /\ OneHolder'
<1>1. \A r \in Sessions \ {s} : sess[r].pc \in {"idle", "updating"}
  BY OthersWait DEF Lockable
<1>2. /\ sess' \in [Sessions -> Session] /\ sess'[s] = st
      /\ \A r \in Sessions \ {s} : sess'[r] = sess[r]
  BY DEF Inv, TypeOK
<1>3. OneHolder'
  BY <1>1, <1>2 DEF OneHolder, Holds
<1>4. QED  BY <1>1, <1>2, <1>3

(* The file holds the tables that are stored in it. *)
LEMMA ImageReadable ==
  ASSUME NEW ts \in [Names -> Table], Kept(ts),
         NEW vs \in Views, Kinds(ts, vs)
  PROVE /\ \A n \in Names : Readable(Image(ts, vs).tables[n])
        /\ Kinds(Image(ts, vs).tables, Image(ts, vs).views)
<1>1. ASSUME NEW n \in Names
      PROVE /\ Readable(Image(ts, vs).tables[n])
            /\ Image(ts, vs).tables[n].cols = ts[n].cols
  <2>1. ts[n] \in Table /\ Backed(ts[n])
    BY DEF Kept
  <2>2. Image(ts, vs).tables[n] =
          [cols |-> ts[n].cols, num |-> Len(ts[n].rows), chain |-> ts[n].chain]
    BY DEF Image
  <2>3. QED  BY <2>1, <2>2, ImageReads
<1>2. Image(ts, vs).views = vs
  BY DEF Image
<1>3. QED  BY <1>1, <1>2 DEF Kinds

(* What the flush of a statement finds. *)
LEMMA FlushFinds ==
  ASSUME Inv, NEW s \in Sessions, sess[s].pc = "applied"
  PROVE /\ TypeOK /\ Holds(s) /\ Undoable(s)
        /\ Stored(s) \in [Names -> Table] /\ Kept(Stored(s))
        /\ \A n \in Names : /\ Stored(s)[n].cols = tables[n].cols
                             /\ Stored(s)[n].unique = tables[n].unique
                             /\ Stored(s)[n].rows = tables[n].rows
        /\ Kinds(Stored(s), views)
        /\ views \in Views
        /\ FormerViews(s) \in Views
<1>1. TypeOK /\ Holds(s) /\ Undoable(s)
  BY DEF Inv, StatementsUndoable, Holds
<1>2. /\ Stored(s) \in [Names -> Table] /\ Kept(Stored(s))
      /\ \A n \in Names : /\ Stored(s)[n].cols = tables[n].cols
                           /\ Stored(s)[n].unique = tables[n].unique
                           /\ Stored(s)[n].rows = tables[n].rows
  BY <1>1, StoredTables
<1>3. \A r \in Sessions : sess[r].pc # "restoring"
  BY <1>1, OthersWait
<1>4. Kinds(tables, views)
  BY <1>3 DEF Inv, TablesKept
<1>5. Kinds(Stored(s), views)
  BY <1>2, <1>4 DEF Kinds
<1>6. views \in Views
        /\ sess[s].views \in Views
  BY <1>1, SessionParts DEF TypeOK
<1>7. FormerViews(s) \in Views
  BY <1>6 DEF FormerViews
<1>8. QED  BY <1>1, <1>2, <1>5, <1>6, <1>7

LEMMA PublishKeeps ==
  ASSUME Inv, NEW s \in Sessions, Publish(s)
  PROVE Inv'
<1> DEFINE st == [sess[s] EXCEPT !.pc = "published"]
<1>1. /\ sess[s].pc = "applied" /\ tables' = Stored(s)
      /\ disk' = Image(Stored(s), views)
      /\ writers' = IF tx # NoTx /\ sess[s].changes THEN writers \cup {s} ELSE writers
      /\ doubt' = FALSE /\ sess' = [sess EXCEPT ![s] = st]
      /\ UNCHANGED <<views, tx, poisoned, begun>>
  BY DEF Publish
<1>2. /\ TypeOK /\ Holds(s) /\ Kept(Stored(s)) /\ Kinds(Stored(s), views)
      /\ Stored(s) \in [Names -> Table]
      /\ views \in Views
  BY <1>1, FlushFinds
<1>3. st \in Session /\ st.pc = "published" /\ st.changes = sess[s].changes
  <2>1. sess[s] \in Session
    BY <1>2 DEF TypeOK
  <2>2. QED  BY <2>1 DEF Session
<1> HIDE DEF st
<1>4. /\ sess' \in [Sessions -> Session] /\ sess'[s] = st /\ OneHolder'
      /\ \A r \in Sessions \ {s} :
           sess'[r] = sess[r] /\ sess'[r].pc \in {"idle", "updating"}
  BY <1>1, <1>2, <1>3, LockReleased
<1>5. Image(Stored(s), views) \in
        [tables : [Names -> Entry], views : Views]
  BY <1>2, ImageTyped
<1>6. TypeOK'
  <2>1. writers' \subseteq Sessions
    BY <1>1, <1>2 DEF TypeOK
  <2>2. QED  BY <1>1, <1>2, <1>4, <1>5, <2>1 DEF TypeOK
<1>7. FileReadable'
  <2>1. /\ \A n \in Names : Readable(disk'.tables[n])
        /\ Kinds(disk'.tables, disk'.views)
    BY <1>1, <1>2, ImageReadable
  <2>2. QED  BY <2>1 DEF FileReadable, Readable, Kinds, Contents, RowSeqs
<1>8. Kept(tables)' /\ Kinds(tables, views)'
  BY <1>1, <1>2 DEF Kept, Kinds, Sound, Backed
<1>9. FileAgrees'
  BY <1>1 DEF FileAgrees, Image
<1>10. SnapshotKept'
  BY <1>1 DEF Inv, SnapshotKept, Kept, Kinds, Sound, Backed
<1>11. WritersNoted'
  <2> SUFFICES ASSUME tx # NoTx, ~tx.external, NEW w \in writers'
               PROVE w = tx.owner \/ (sess'[w].pc = "published" /\ sess'[w].changes)
    BY <1>1 DEF WritersNoted
  <2>1. CASE w = s /\ w \notin writers
    <3>1. sess[s].changes
      BY <1>1, <2>1
    <3>2. QED  BY <1>3, <1>4, <2>1, <3>1
  <2>2. CASE w \in writers
    <3>1. w = tx.owner \/ (sess[w].pc = "published" /\ sess[w].changes)
      BY <2>2 DEF Inv, WritersNoted
    <3>2. w \in Sessions
      BY <1>2, <2>2 DEF TypeOK
    <3>3. QED  BY <1>1, <1>4, <3>1, <3>2
  <2>3. QED  BY <1>1, <2>1, <2>2
<1>12. \A r \in Sessions : sess'[r].pc \in {"idle", "updating", "published"}
  BY <1>3, <1>4
<1>13. QED
  BY <1>4, <1>6, <1>7, <1>8, <1>9, <1>10, <1>11, <1>12, SettledKeeps

LEMMA FlushFailsKeeps ==
  ASSUME Inv, NEW s \in Sessions, FlushFails(s)
  PROVE Inv'
<1>1. /\ sess[s].pc = "applied"
      /\ tables' \in {Undone(s, tables), Undone(s, Stored(s))}
      /\ disk' \in {disk, Image(Stored(s), views)}
      /\ views' = FormerViews(s) /\ doubt' = TRUE
      /\ sess' = [sess EXCEPT ![s] = Idle]
      /\ UNCHANGED <<tx, poisoned, begun, writers>>
  BY DEF FlushFails, FormerViews
<1>2. /\ TypeOK /\ Holds(s) /\ Undoable(s) /\ Kept(Stored(s))
      /\ Kinds(Stored(s), views) /\ Stored(s) \in [Names -> Table]
      /\ views \in Views
      /\ FormerViews(s) \in Views
  BY <1>1, FlushFinds
<1>3. /\ Undone(s, tables) \in [Names -> Table]
      /\ Undone(s, Stored(s)) \in [Names -> Table]
      /\ Kept(Undone(s, Stored(s)))
      /\ \A n \in Names : Undone(s, Stored(s))[n].cols = Undone(s, tables)[n].cols
  BY <1>2, UndoneStored
<1>4. Kept(Undone(s, tables)) /\ Kinds(Undone(s, tables), FormerViews(s))
  BY <1>2 DEF Undoable
<1>5. /\ tables' \in [Names -> Table] /\ Kept(tables') /\ Kinds(tables', views')
  BY <1>1, <1>3, <1>4 DEF Kinds
<1>6. Idle \in Session /\ Idle.pc = "idle"
  BY IdleTyped DEF Idle
<1>7. /\ sess' \in [Sessions -> Session] /\ sess'[s] = Idle /\ OneHolder'
      /\ \A r \in Sessions \ {s} :
           sess'[r] = sess[r] /\ sess'[r].pc \in {"idle", "updating"}
  BY <1>1, <1>2, <1>6, LockReleased
<1>8. Image(Stored(s), views) \in
        [tables : [Names -> Entry], views : Views]
  BY <1>2, ImageTyped
<1>9. TypeOK'
  BY <1>1, <1>2, <1>5, <1>7, <1>8 DEF TypeOK
<1>10. FileReadable'
  <2>1. /\ \A n \in Names : Readable(disk.tables[n])
        /\ Kinds(disk.tables, disk.views)
    BY DEF Inv, FileReadable
  <2>2. /\ \A n \in Names : Readable(Image(Stored(s), views).tables[n])
        /\ Kinds(Image(Stored(s), views).tables, Image(Stored(s), views).views)
    BY <1>2, ImageReadable
  <2>3. (\A n \in Names : Readable(disk'.tables[n])) /\ Kinds(disk'.tables, disk'.views)
    BY <1>1, <2>1, <2>2
  <2>4. QED  BY <2>3 DEF FileReadable, Readable, Kinds, Contents, RowSeqs
<1>11. FileAgrees' /\ SnapshotKept'
  BY <1>1 DEF Inv, FileAgrees, SnapshotKept, Kept, Kinds, Sound, Backed
<1>12. WritersNoted'
  <2>1. \A w \in writers : tx # NoTx /\ ~tx.external => w = tx.owner
    BY <1>1, <1>2, OthersWait DEF Inv, WritersNoted, TypeOK
  <2>2. QED  BY <1>1, <2>1 DEF WritersNoted
<1>13. QED
  BY <1>5, <1>6, <1>7, <1>9, <1>10, <1>11, <1>12, SettledKeeps
     DEF Kept, Kinds, Sound, Backed

LEMMA AcknowledgeKeeps ==
  ASSUME Inv, NEW s \in Sessions, Acknowledge(s)
  PROVE Inv'
<1>1. /\ sess[s].pc = "published" /\ sess' = [sess EXCEPT ![s] = Idle]
      /\ tx' = IF tx # NoTx /\ sess[s].changes /\ tx.owner # s
               THEN [tx EXCEPT !.external = TRUE] ELSE tx
      /\ UNCHANGED <<tables, views, disk, poisoned, begun, writers, doubt>>
  BY DEF Acknowledge
<1>2. TypeOK /\ Holds(s)
  BY <1>1 DEF Inv, Holds
<1>3. Idle \in Session /\ Idle.pc = "idle"
  BY IdleTyped DEF Idle
<1>4. /\ sess' \in [Sessions -> Session] /\ sess'[s] = Idle /\ OneHolder'
      /\ \A r \in Sessions \ {s} :
           sess'[r] = sess[r] /\ sess'[r].pc \in {"idle", "updating"}
  BY <1>1, <1>2, <1>3, LockReleased
<1> DEFINE noted == [tx EXCEPT !.external = TRUE]
<1>5. tx = NoTx \/ tx \in Snapshots
  BY <1>2 DEF TypeOK
<1>6. tx # NoTx => /\ noted \in Snapshots /\ noted.owner = tx.owner /\ noted.external
                   /\ noted.tables = tx.tables /\ noted.views = tx.views
  BY <1>5
<1> HIDE DEF noted
<1>7. tx' \in {tx, noted} /\ (tx' = NoTx \/ tx' \in Snapshots)
  BY <1>1, <1>5, <1>6 DEF noted
<1>8. TypeOK'
  BY <1>1, <1>2, <1>4, <1>7 DEF TypeOK
<1>9. \A r \in Sessions : sess[r].pc \notin {"applied", "restoring"}
  BY <1>1, <1>2, OthersWait
<1>10. Kept(tables)' /\ Kinds(tables, views)'
  BY <1>1, <1>9 DEF Inv, TablesKept, Kept, Kinds, Sound, Backed
<1>11. FileReadable' /\ FileAgrees'
  BY <1>1, <1>9 DEF Inv, FileReadable, FileAgrees, Kinds, Image
<1>12. SnapshotKept'
  <2>1. tx # NoTx => Kept(tx.tables) /\ Kinds(tx.tables, tx.views)
    BY DEF Inv, SnapshotKept
  <2>2. tx' # NoTx => tx # NoTx
    BY <1>1, <1>5
  <2>3. tx' # NoTx => tx'.tables = tx.tables /\ tx'.views = tx.views
    BY <1>6, <1>7, <2>2
  <2>4. tx' # NoTx => Kept(tx'.tables) /\ Kinds(tx'.tables, tx'.views)
    BY <2>1, <2>2, <2>3
  <2>5. QED  BY <2>4 DEF SnapshotKept, Kept, Kinds, Sound, Backed
<1>13. WritersNoted'
  <2> SUFFICES ASSUME tx' # NoTx, ~tx'.external, NEW w \in writers
               PROVE w = tx'.owner
    BY <1>1 DEF WritersNoted
  <2>1. tx # NoTx /\ tx' = tx /\ ~(sess[s].changes /\ tx.owner # s)
    BY <1>1, <1>5, <1>6, <1>7 DEF noted
  <2>2. w = tx.owner \/ (sess[w].pc = "published" /\ sess[w].changes)
    BY <2>1 DEF Inv, WritersNoted
  <2>3. sess[w].pc = "published" => w = s
    BY <1>1, <1>2, OthersWait DEF TypeOK
  <2>4. QED  BY <2>1, <2>2, <2>3
<1>14. QED
  BY <1>3, <1>4, <1>8, <1>10, <1>11, <1>12, <1>13, SettledKeeps

LEMMA BeginKeeps ==
  ASSUME Inv, NEW s \in Sessions, Begin(s)
  PROVE Inv'
<1> DEFINE t == [owner |-> s, external |-> FALSE, tables |-> tables, views |-> views]
<1>1. /\ Start(s) /\ Lockable /\ tx' = t /\ writers' = {}
      /\ UNCHANGED <<tables, views, disk, poisoned, sess, doubt>>
  BY DEF Begin
<1>2. /\ Kept(tables) /\ Kinds(tables, views) /\ begun' \in 0 .. MaxStatements
      /\ \A r \in Sessions : sess[r].pc \in {"idle", "updating"}
  BY <1>1, LockFinds
<1>3. TypeOK'
  BY <1>1, <1>2 DEF Inv, TypeOK
<1>4. tx'.tables = tables /\ tx'.views = views
  BY <1>1
<1> HIDE DEF t
<1>5. OneHolder' /\ Kept(tables)' /\ Kinds(tables, views)'
  BY <1>1, <1>2 DEF OneHolder, Holds, Kept, Kinds, Sound, Backed
<1>6. FileReadable' /\ FileAgrees'
  BY <1>1, <1>2 DEF Inv, FileReadable, FileAgrees, Kinds, Image
<1>7. SnapshotKept' /\ WritersNoted'
  BY <1>1, <1>2, <1>4 DEF SnapshotKept, WritersNoted, Kept, Kinds, Sound, Backed
<1>8. QED  BY <1>1, <1>2, <1>3, <1>5, <1>6, <1>7, SettledKeeps

(* The transaction ends, and all else stays. *)
LEMMA TransactionEnds ==
  ASSUME Inv, NEW s \in Sessions, Commit(s) \/ RollbackRefused(s)
  PROVE Inv'
<1>1. /\ Start(s) /\ tx' = NoTx
      /\ UNCHANGED <<tables, views, disk, poisoned, sess, writers, doubt>>
  BY DEF Commit, RollbackRefused
<1>2. TypeOK'
  BY <1>1, BoundsAssumption DEF Inv, TypeOK, Start
<1>3. OneHolder' /\ TablesKept' /\ RollbacksRestore'
  BY <1>1 DEF Inv, OneHolder, Holds, TablesKept, RollbacksRestore, Kept, Kinds,
              Sound, Backed
<1>4. StatementsUndoable'
  <2> SUFFICES ASSUME NEW r \in Sessions, sess'[r].pc = "applied"
               PROVE Undoable(r)'
    BY DEF StatementsUndoable
  <2>1. sess'[r] = sess[r] /\ Undoable(r)
    BY <1>1 DEF Inv, StatementsUndoable
  <2>2. Undone(r, tables)' = Undone(r, tables) /\ FormerViews(r)' = FormerViews(r)
    BY <1>1, <2>1, UndoneSame
  <2>3. QED  BY <1>1, <2>1, <2>2 DEF Undoable, Kept, Kinds, Sound, Backed
<1>5. FileReadable' /\ FileAgrees' /\ SnapshotKept' /\ WritersNoted'
  BY <1>1 DEF Inv, FileReadable, FileAgrees, SnapshotKept, WritersNoted, Kinds, Image
<1>6. QED  BY <1>2, <1>3, <1>4, <1>5 DEF Inv

LEMMA RollbackKeeps ==
  ASSUME Inv, NEW s \in Sessions, Rollback(s)
  PROVE /\ Inv'
        /\ sess'[s].pc = "restoring" /\ sess'[s].views = tx.views
        /\ tables' = tx.tables /\ tx.tables \in [Names -> Table]
        /\ tx.views \in Views
<1> DEFINE st == [Idle EXCEPT !.pc = "restoring", !.views = tx.views]
<1>1. /\ Start(s) /\ Lockable /\ tx # NoTx /\ ~tx.external
      /\ tx' = NoTx /\ tables' = tx.tables /\ sess' = [sess EXCEPT ![s] = st]
      /\ UNCHANGED <<views, disk, poisoned, writers, doubt>>
  BY DEF Rollback
<1>2. /\ tx.tables \in [Names -> Table] /\ Kept(tx.tables)
      /\ tx.views \in Views
      /\ Kinds(tx.tables, tx.views)
  BY <1>1 DEF Inv, TypeOK, SnapshotKept
<1>3. /\ Idle = [pc |-> Idle.pc, stmt |-> Idle.stmt,
                 rewrites |-> Idle.rewrites, ns |-> Idle.ns,
                 tables |-> Idle.tables, views |-> Idle.views,
                 count |-> Idle.count, changes |-> Idle.changes]
      /\ Idle.ns = {} /\ Idle.rewrites = {} /\ Idle.count = 0
      /\ Idle.changes = FALSE
  BY DEF Idle
<1>4. /\ st \in Session /\ st.pc = "restoring" /\ st.views = tx.views
      /\ st.ns = {} /\ st.rewrites = {} /\ st.count = 0 /\ ~st.changes
  <2>1. st \in Session
    BY <1>2, IdleTyped DEF Session
  <2>2. /\ st.pc = "restoring" /\ st.views = tx.views
        /\ st.ns = {} /\ st.rewrites = {} /\ st.count = 0
    BY <1>3
  <2>3. st.changes = FALSE
    BY <1>3
  <2>4. QED  BY <2>1, <2>2, <2>3
<1> HIDE DEF st
<1>5. /\ sess' \in [Sessions -> Session] /\ sess'[s] = st /\ OneHolder'
      /\ \A r \in Sessions \ {s} :
           sess'[r] = sess[r] /\ sess'[r].pc \in {"idle", "updating"}
  BY <1>1, <1>4, LockReleased
<1>6. TypeOK'
  <2>1. begun' \in 0 .. MaxStatements
    BY <1>1, LockFinds
  <2>2. QED  BY <1>1, <1>2, <1>5, <2>1 DEF Inv, TypeOK
<1>7. Kept(tables') /\ Kinds(tables', sess'[s].views)
  BY <1>1, <1>2, <1>4, <1>5
<1>8. TablesKept' /\ StatementsUndoable' /\ FileAgrees'
  BY <1>4, <1>5, <1>7 DEF TablesKept, StatementsUndoable, FileAgrees, Kept, Sound,
                          Backed
<1>9. RollbacksRestore'
  BY <1>4, <1>5, <1>7 DEF RollbacksRestore, Kinds
<1>10. FileReadable' /\ SnapshotKept' /\ WritersNoted'
  BY <1>1 DEF Inv, FileReadable, SnapshotKept, WritersNoted, Kinds
<1>11. Inv'
  BY <1>5, <1>6, <1>8, <1>9, <1>10 DEF Inv
<1>12. QED  BY <1>1, <1>2, <1>4, <1>5, <1>11

LEMMA RestoreViewsKeeps ==
  ASSUME Inv, NEW s \in Sessions, RestoreViews(s)
  PROVE /\ Inv' /\ Undone(s, tables)' = tables
        /\ FormerViews(s)' = sess[s].views /\ sess'[s].pc = "applied"
<1> DEFINE st == [sess[s] EXCEPT !.pc = "applied"]
<1>1. /\ sess[s].pc = "restoring" /\ views' = sess[s].views
      /\ sess' = [sess EXCEPT ![s] = st]
      /\ UNCHANGED <<tables, disk, tx, poisoned, begun, writers, doubt>>
  BY DEF RestoreViews
<1>2. TypeOK /\ Holds(s) /\ sess[s] \in Session
  BY <1>1 DEF Inv, Holds, TypeOK
<1>3. /\ sess[s].ns = {} /\ sess[s].rewrites = {} /\ sess[s].count = 0
      /\ ~sess[s].changes /\ Kinds(tables, sess[s].views)
  BY <1>1 DEF Inv, RollbacksRestore
<1>4. /\ st \in Session /\ st.pc = "applied" /\ st.views = sess[s].views
      /\ st.ns = {} /\ st.rewrites = {} /\ st.count = 0
  BY <1>2, <1>3 DEF Session
<1>5. sess[s].views \in Views
  BY <1>2 DEF Session
<1> HIDE DEF st
<1>6. /\ sess' \in [Sessions -> Session] /\ sess'[s] = st /\ OneHolder'
      /\ \A r \in Sessions \ {s} :
           sess'[r] = sess[r] /\ sess'[r].pc \in {"idle", "updating"}
  BY <1>1, <1>2, <1>4, LockReleased
<1>7. TypeOK'
  BY <1>1, <1>2, <1>5, <1>6 DEF TypeOK
<1>8. \A r \in Sessions : sess[r].pc # "applied"
  BY <1>1, <1>2, OthersWait
<1>9. Kept(tables)
  BY <1>8 DEF Inv, TablesKept
<1>10. Undone(s, tables)' = tables /\ FormerViews(s)' = views'
  <2>1. /\ tables = [n \in Names |-> tables[n]]
        /\ sess[s].views = [n \in Names |-> sess[s].views[n]]
    BY <1>2, <1>5 DEF TypeOK
  <2>2. Undone(s, tables)' = [n \in Names |-> tables[n]]
    BY <1>1, <1>4, <1>6 DEF Undone
  <2>3. FormerViews(s)' = [n \in Names |-> sess[s].views[n]]
    BY <1>1, <1>4, <1>6 DEF FormerViews
  <2>4. QED  BY <1>1, <2>1, <2>2, <2>3
<1>11. Undoable(s)'
  <2>1. Kept(Undone(s, tables)') /\ Kinds(Undone(s, tables)', FormerViews(s)')
    BY <1>1, <1>3, <1>9, <1>10
  <2>2. sess'[s].ns = {} /\ sess'[s].count = 0
    BY <1>4, <1>6
  <2>3. \A n \in Names : Sound(tables[n]) /\ Backed(tables[n])
    BY <1>9 DEF Kept
  <2>4. QED  BY <1>1, <2>1, <2>2, <2>3 DEF Undoable, Kept, Kinds, Sound, Backed
<1>12. TablesKept' /\ StatementsUndoable' /\ RollbacksRestore' /\ FileAgrees'
  <2>1. Kinds(tables', views')
    BY <1>1, <1>3
  <2>2. TablesKept'
    BY <1>4, <1>6, <2>1 DEF TablesKept, Kinds
  <2>3. StatementsUndoable'
    BY <1>6, <1>11 DEF StatementsUndoable
  <2>4. RollbacksRestore' /\ FileAgrees'
    BY <1>4, <1>6 DEF RollbacksRestore, FileAgrees
  <2>5. QED  BY <2>2, <2>3, <2>4
<1>13. FileReadable' /\ SnapshotKept'
  BY <1>1 DEF Inv, FileReadable, SnapshotKept, Kept, Kinds, Sound, Backed
<1>14. WritersNoted'
  <2>1. \A w \in writers : tx # NoTx /\ ~tx.external => w = tx.owner
    BY <1>1, <1>2, OthersWait DEF Inv, WritersNoted, TypeOK
  <2>2. QED  BY <1>1, <2>1 DEF WritersNoted
<1>15. Inv'
  BY <1>6, <1>7, <1>12, <1>13, <1>14 DEF Inv
<1>16. QED  BY <1>1, <1>4, <1>6, <1>10, <1>15

LEMMA ReopenKeeps == ASSUME Inv, Reopen  PROVE Inv'
<1>1. /\ tables' = [n \in Names |-> Loaded(disk.tables[n])]
      /\ views' = disk.views /\ tx' = NoTx /\ poisoned' = FALSE
      /\ sess' = [s \in Sessions |-> Idle] /\ doubt' = FALSE
      /\ UNCHANGED <<disk, begun, writers>>
  BY DEF Reopen
<1>2. TypeOK /\ (\A n \in Names : Readable(disk.tables[n]))
        /\ Kinds(disk.tables, disk.views)
  BY DEF Inv, FileReadable
<1>3. ASSUME NEW n \in Names
      PROVE /\ tables'[n] \in Table /\ Backed(tables'[n]) /\ Sound(tables'[n])
            /\ tables'[n].cols = disk.tables[n].cols
            /\ disk.tables[n] = [cols |-> tables'[n].cols,
                                 num |-> Len(tables'[n].rows),
                                 chain |-> tables'[n].chain]
  <2>1. tables'[n] = Loaded(disk.tables[n]) /\ Readable(disk.tables[n])
    BY <1>1, <1>2
  <2>2. QED  BY <2>1, LoadedTable
<1>4. tables' \in [Names -> Table] /\ Kept(tables') /\ Kinds(tables', views')
  <2>1. tables' = [n \in Names |-> tables'[n]]
    BY <1>1
  <2>2. tables' \in [Names -> Table]
    BY <1>3, <2>1
  <2>3. QED  BY <1>1, <1>2, <1>3, <2>2 DEF Kept, Kinds
<1>5. disk = Image(tables', views')
  <2>1. disk = [tables |-> disk.tables, views |-> disk.views]
          /\ disk.tables = [n \in Names |-> disk.tables[n]]
    BY <1>2 DEF TypeOK
  <2>2. Image(tables', views') =
          [tables |-> [n \in Names |-> [cols |-> tables'[n].cols,
                                       num |-> Len(tables'[n].rows),
                                       chain |-> tables'[n].chain]],
           views |-> disk.views]
    BY <1>1 DEF Image
  <2>3. [n \in Names |-> disk.tables[n]] =
          [n \in Names |-> [cols |-> tables'[n].cols, num |-> Len(tables'[n].rows),
                           chain |-> tables'[n].chain]]
    BY <1>3
  <2>4. QED  BY <2>1, <2>2, <2>3
<1>6. Idle \in Session /\ Idle.pc = "idle"
  BY IdleTyped DEF Idle
<1>7. TypeOK'
  <2>1. disk.views \in Views
    BY <1>2 DEF TypeOK
  <2>2. QED  BY <1>1, <1>2, <1>4, <1>6, <2>1 DEF TypeOK
<1>8. \A r \in Sessions : sess'[r].pc = "idle"
  BY <1>1, <1>6
<1>9. OneHolder' /\ SnapshotKept' /\ WritersNoted'
  BY <1>1, <1>8 DEF OneHolder, Holds, SnapshotKept, WritersNoted
<1>10. FileReadable'
  BY <1>1, <1>2 DEF FileReadable, Kinds
<1>11. FileAgrees'
  BY <1>1, <1>5 DEF FileAgrees, Image
<1>12. Kept(tables)' /\ Kinds(tables, views)'
  BY <1>4 DEF Kept, Kinds, Sound, Backed
<1>13. QED
  BY <1>7, <1>8, <1>9, <1>10, <1>11, <1>12, SettledKeeps

(* Statements change the catalog so that it can be undone, or not yet. *)
LEMMA StatementKeeps ==
  ASSUME Inv, NEW s \in Sessions, Define(s) \/ Drop(s) \/ Rewrite(s)
  PROVE Inv' /\ (Pends(s) \/ Waits(s))
<1>1. CASE Define(s)
  BY <1>1, CreateTableKeeps, CreateTableAsKeeps, CreateViewKeeps DEF Define
<1>2. CASE Drop(s)
  BY <1>2, DropTablesKeeps, DropViewsKeeps DEF Drop
<1>3. CASE Rewrite(s)
  <2>1. CASE \E n \in Names, cols \in Layouts :
               \E rows \in RowSeqs(Len(cols), MaxSelected) : Insert(s, n, rows)
    BY <2>1, InsertKeeps
  <2>2. CASE \E n \in Names : \E hit \in SUBSET Range(tables[n].rows) : Delete(s, n, hit)
    BY <2>2, DeleteKeeps
  <2>3. CASE \E n \in Names : \E i \in DOMAIN tables[n].cols : UpdateResolve(s, n, i)
    BY <2>3, UpdateResolveKeeps
  <2>4. CASE \E n \in Names, cell \in Cells :
               \E hit \in SUBSET Range(tables[n].rows) : UpdateApply(s, n, hit, cell)
    BY <2>4, UpdateApplyKeeps
  <2>5. CASE UpdatePanics(s) \/ UpdateRefused(s)
    BY <2>5, UpdateEndsKeeps
  <2>6. QED  BY <1>3, <2>1, <2>2, <2>3, <2>4, <2>5 DEF Rewrite
<1>4. QED  BY <1>1, <1>2, <1>3

LEMMA NextKeeps == Inv /\ [Next]_vars => Inv'
<1> SUFFICES ASSUME Inv, [Next]_vars PROVE Inv'
  OBVIOUS
<1>1. ASSUME NEW s \in Sessions, Define(s) \/ Drop(s) \/ Rewrite(s)  PROVE Inv'
  BY <1>1, StatementKeeps
<1>2. ASSUME NEW s \in Sessions, Flush(s)  PROVE Inv'
  BY <1>2, PublishKeeps, FlushFailsKeeps, AcknowledgeKeeps DEF Flush
<1>3. ASSUME NEW s \in Sessions, Transaction(s)  PROVE Inv'
  BY <1>3, BeginKeeps, TransactionEnds, RollbackKeeps, RestoreViewsKeeps
     DEF Transaction
<1>4. CASE Reopen
  BY <1>4, ReopenKeeps
<1>5. CASE UNCHANGED vars
  <2>1. UNCHANGED <<tables, views, disk, tx, poisoned, sess, begun, writers, doubt>>
    BY <1>5 DEF vars
  <2>2. TypeOK' /\ OneHolder' /\ TablesKept' /\ RollbacksRestore'
    BY <2>1 DEF Inv, TypeOK, OneHolder, Holds, TablesKept, RollbacksRestore, Kept,
                Kinds, Sound, Backed
  <2>3. StatementsUndoable'
    <3> SUFFICES ASSUME NEW r \in Sessions, sess'[r].pc = "applied"
                 PROVE Undoable(r)'
      BY DEF StatementsUndoable
    <3>1. sess'[r] = sess[r] /\ Undoable(r)
      BY <2>1 DEF Inv, StatementsUndoable
    <3>2. Undone(r, tables)' = Undone(r, tables) /\ FormerViews(r)' = FormerViews(r)
      BY <2>1, <3>1, UndoneSame
    <3>3. QED  BY <2>1, <3>1, <3>2 DEF Undoable, Kept, Kinds, Sound, Backed
  <2>4. FileReadable' /\ FileAgrees' /\ SnapshotKept' /\ WritersNoted'
    BY <2>1 DEF Inv, FileReadable, FileAgrees, SnapshotKept, WritersNoted, Kept,
                Kinds, Sound, Backed, Image
  <2>5. QED  BY <2>2, <2>3, <2>4 DEF Inv
<1>6. QED  BY <1>1, <1>2, <1>3, <1>4, <1>5 DEF Next

-----------------------------------------------------------------------------
(* What follows. *)

(* In every reachable state the invariant holds: a statement in progress   *)
(* can be undone, the tables a session sees are stored, the file can be    *)
(* opened, and a transaction can be rolled back.                           *)
THEOREM Invariance == Spec => []Inv
<1>1. QED  BY InitKeeps, NextKeeps, PTL DEF Spec

(* Every variable has its declared range, in particular no table outgrows  *)
(* its bound and no statement restores what is not a table.                *)
THEOREM TypeCorrect == Spec => []TypeOK
<1>1. Inv => TypeOK
  BY DEF Inv
<1>2. QED  BY <1>1, Invariance, PTL

(* The published catalog always opens, after failed statements, rollbacks  *)
(* and restarts in any order (append_table_rows_to_storage).               *)
THEOREM FilesLoad == Spec => []DiskLoads
<1>1. Inv => DiskLoads
  BY DEF Inv, FileReadable, Readable, DiskLoads, Loads
<1>2. QED  BY <1>1, Invariance, PTL

(* Once the flush of a statement has succeeded, a process that opens the   *)
(* file sees what the sessions see.                                        *)
THEOREM FilesAreMemory == Spec => []DiskIsMemory
<1>1. ASSUME Inv, ~doubt, \A s \in Sessions : sess[s].pc \in {"idle", "updating"}
      PROVE /\ views = disk.views
            /\ \A n \in Names : /\ tables[n].cols = disk.tables[n].cols
                                 /\ tables[n].rows = Loaded(disk.tables[n]).rows
  <2>1. Kept(tables)
    BY <1>1 DEF Inv, TablesKept
  <2>2. disk = Image(tables, views)
    BY <1>1 DEF Inv, FileAgrees
  <2>3. views = disk.views
    BY <2>2 DEF Image
  <2>4. ASSUME NEW n \in Names
        PROVE /\ tables[n].cols = disk.tables[n].cols
              /\ tables[n].rows = Loaded(disk.tables[n]).rows
    <3>1. tables[n] \in Table /\ Backed(tables[n])
      BY <2>1 DEF Kept
    <3>2. disk.tables[n] = [cols |-> tables[n].cols, num |-> Len(tables[n].rows),
                            chain |-> tables[n].chain]
      BY <2>2 DEF Image
    <3>3. QED  BY <3>1, <3>2, LoadedIsTable
  <2>5. QED  BY <2>3, <2>4
<1>2. Inv => DiskIsMemory
  BY <1>1 DEF DiskIsMemory
<1>3. QED  BY <1>2, Invariance, PTL

(* Whoever holds the lock, and whatever it has done, UNIQUE holds. *)
LEMMA TablesSound == Inv => \A n \in Names : Sound(tables[n])
<1>1. CASE \E s \in Sessions : sess[s].pc = "applied"
  BY <1>1 DEF Inv, StatementsUndoable, Undoable
<1>2. CASE \A s \in Sessions : sess[s].pc # "applied"
  BY <1>2 DEF Inv, TablesKept, Kept
<1>3. QED  BY <1>1, <1>2

(* No session ever sees a UNIQUE column with a value twice (exec_insert,   *)
(* check_constraints).                                                     *)
THEOREM ConstraintsAreKept == Spec => []UniqueHolds
<1>1. Inv => UniqueHolds
  BY TablesSound DEF UniqueHolds, Sound
<1>2. QED  BY <1>1, Invariance, PTL

(* A rollback takes back only what the owner of the transaction has        *)
(* changed (note_catalog_mutation, rollback_transaction_tables_only).      *)
THEOREM ForeignChangesAreKept == Spec => ForeignChangesSurvive
<1>1. ASSUME Inv, [Next]_vars, NEW s \in Sessions, Reverts(s)
      PROVE writers \subseteq {tx.owner}
  <2>1. sess[s].pc # "restoring" /\ sess'[s].pc = "restoring"
    BY <1>1 DEF Reverts
  <2>2. ASSUME NEW r \in Sessions, Define(r) \/ Drop(r) \/ Rewrite(r)  PROVE FALSE
    BY <1>1, <2>1, <2>2, StatementKeeps DEF Pends, Waits
  <2>3. ASSUME NEW r \in Sessions, Flush(r)  PROVE FALSE
    <3>1. PICK pc \in {"idle", "published"} :
            sess' = [sess EXCEPT ![r] = Idle] \/ sess' = [sess EXCEPT ![r].pc = pc]
      BY <2>3 DEF Flush, Publish, FlushFails, Acknowledge
    <3>2. Idle.pc = "idle"
      BY DEF Idle
    <3>3. sess \in [Sessions -> Session]
      BY <1>1 DEF Inv, TypeOK
    <3>4. QED  BY <2>1, <3>1, <3>2, <3>3 DEF Session
  <2>4. ASSUME NEW r \in Sessions, Rollback(r)  PROVE writers \subseteq {tx.owner}
    <3>1. tx # NoTx /\ ~tx.external /\ Lockable
      BY <2>4 DEF Rollback
    <3>2. QED  BY <1>1, <3>1, LockFinds DEF Inv, WritersNoted, TypeOK
  <2>5. ASSUME NEW r \in Sessions, Begin(r) \/ Commit(r) \/ RollbackRefused(r)
        PROVE FALSE
    BY <2>1, <2>5 DEF Begin, Commit, RollbackRefused
  <2>6. ASSUME NEW r \in Sessions, RestoreViews(r)  PROVE FALSE
    <3>1. sess \in [Sessions -> Session]
            /\ sess' = [sess EXCEPT ![r].pc = "applied"]
      BY <1>1, <2>6 DEF Inv, TypeOK, RestoreViews
    <3>2. QED  BY <2>1, <3>1 DEF Session
  <2>7. CASE Reopen
    BY <2>1, <2>7 DEF Reopen, Idle
  <2>8. CASE UNCHANGED vars
    BY <2>1, <2>8 DEF vars
  <2>9. QED
    BY <1>1, <2>2, <2>3, <2>4, <2>5, <2>6, <2>7, <2>8 DEF Next, Transaction
<1>2. Inv /\ [Next]_vars =>
        [\A s \in Sessions : Reverts(s) => writers \subseteq {tx.owner}]_vars
  BY <1>1
<1>3. QED  BY <1>2, Invariance, PTL DEF Spec, ForeignChangesSurvive

-----------------------------------------------------------------------------
(* The serial catalog is implemented. *)

(* The catalog that a restart brings back, the statements that sessions    *)
(* wait for and the abstract transaction: what stands for durable, asked   *)
(* and tx in Serial.                                                       *)
Durable == CatalogOf([n \in Names |-> Loaded(disk.tables[n])], disk.views)
SerialAsked == [s \in Sessions |-> Asked(s)]
SerialTx ==
  IF tx = NoTx THEN NoTx
  ELSE [owner |-> tx.owner, base |-> CatalogOf(tx.tables, tx.views),
        writers |-> writers]

(* The catalog of tables is part of a transaction. *)
LEMMA CatalogTyped ==
  ASSUME NEW ts \in [Names -> Table], NEW vs \in Views
  PROVE CatalogOf(ts, vs) \in Catalogs
<1>1. ASSUME NEW n \in Names
      PROVE [cols |-> ts[n].cols, unique |-> ts[n].unique, rows |-> ts[n].rows]
              \in [cols : Layouts \cup {<<>>}, unique : BOOLEAN,
                   rows : UNION {Contents(cols) : cols \in Layouts \cup {<<>>}}]
  <2>1. ts[n] \in Table
    OBVIOUS
  <2>2. /\ ts[n].cols \in Layouts \cup {<<>>} /\ ts[n].unique \in BOOLEAN
        /\ ts[n].rows \in Contents(ts[n].cols)
    BY <2>1, TableParts
  <2>3. ts[n].rows \in UNION {Contents(cols) : cols \in Layouts \cup {<<>>}}
    BY <2>2
  <2>4. QED  BY <2>2, <2>3
<1>2. QED  BY <1>1 DEF CatalogOf, Catalogs

(* Tables with the same columns, constraint and rows are one catalog. *)
LEMMA SameCatalog ==
  ASSUME NEW ts, NEW us, NEW vs,
         \A n \in Names : /\ us[n].cols = ts[n].cols /\ us[n].unique = ts[n].unique
                          /\ us[n].rows = ts[n].rows
  PROVE CatalogOf(us, vs) = CatalogOf(ts, vs)
BY Zenon DEF CatalogOf

(* Catalogs that the store may hold. *)
LEMMA CatalogValid ==
  ASSUME NEW ts, NEW vs, Kinds(ts, vs), \A n \in Names : Sound(ts[n])
  PROVE ValidCatalog(CatalogOf(ts, vs))
BY DEF ValidCatalog, CatalogOf, Kinds, Sound

LEMMA ConstraintSet ==
  ASSUME NEW e, NEW unique,
         e = [cols |-> e.cols, unique |-> e.unique, rows |-> e.rows]
  PROVE [e EXCEPT !.unique = unique]
          = [cols |-> e.cols, unique |-> unique, rows |-> e.rows]
OBVIOUS

(* A restart brings back the catalog that was stored, unconstrained. *)
LEMMA RestartFinds ==
  ASSUME NEW ts \in [Names -> Table], Kept(ts), NEW vs \in Views
  PROVE LET d == Image(ts, vs)
        IN  CatalogOf([n \in Names |-> Loaded(d.tables[n])], d.views)
              = Unconstrained(CatalogOf(ts, vs))
<1> DEFINE d == Image(ts, vs)
           c == CatalogOf(ts, vs)
           ls == [n \in Names |-> Loaded(d.tables[n])]
<1>1. d.views = vs
  BY DEF Image
<1>2. ASSUME NEW n \in Names
      PROVE /\ ls[n].cols = ts[n].cols /\ ls[n].unique = FALSE
            /\ ls[n].rows = ts[n].rows
  <2>1. d.tables[n] =
          [cols |-> ts[n].cols, num |-> Len(ts[n].rows), chain |-> ts[n].chain]
    BY DEF Image
  <2>2. ts[n] \in Table /\ Backed(ts[n])
    BY DEF Kept
  <2>3. /\ Loaded(d.tables[n]).cols = ts[n].cols
        /\ Loaded(d.tables[n]).rows = ts[n].rows
    BY <2>1, <2>2, LoadedIsTable
  <2>4. Loaded(d.tables[n]).unique = FALSE
    BY DEF Loaded
  <2> HIDE DEF d
  <2>5. QED  BY <2>3, <2>4
<1> HIDE DEF d, ls
<1>3. CatalogOf(ls, vs) =
        [tables |-> [n \in Names |-> [cols |-> ts[n].cols, unique |-> FALSE,
                                     rows |-> ts[n].rows]],
         views |-> vs]
  BY <1>2 DEF CatalogOf
<1>4. /\ c = [tables |-> c.tables, views |-> c.views]
      /\ c.views = vs
      /\ c.tables = [n \in Names |-> [cols |-> ts[n].cols,
                                     unique |-> ts[n].unique,
                                     rows |-> ts[n].rows]]
  BY DEF CatalogOf
<1> HIDE DEF c
<1>5. ASSUME NEW n \in Names
      PROVE [c.tables[n] EXCEPT !.unique = FALSE]
              = [cols |-> ts[n].cols, unique |-> FALSE, rows |-> ts[n].rows]
  <2> DEFINE e == c.tables[n]
  <2>1. e = [cols |-> ts[n].cols, unique |-> ts[n].unique, rows |-> ts[n].rows]
    BY <1>4
  <2> HIDE DEF e
  <2>2. e.cols = ts[n].cols /\ e.rows = ts[n].rows
    BY <2>1
  <2>3. e = [cols |-> e.cols, unique |-> e.unique, rows |-> e.rows]
    BY <2>1
  <2>4. [e EXCEPT !.unique = FALSE]
          = [cols |-> e.cols, unique |-> FALSE, rows |-> e.rows]
    BY ONLY <2>3, ConstraintSet, Zenon
  <2>5. QED  BY <2>2, <2>4 DEF e
<1> DEFINE us == [n \in Names |-> [c.tables[n] EXCEPT !.unique = FALSE]]
<1>6. us = [n \in Names |-> [cols |-> ts[n].cols, unique |-> FALSE,
                             rows |-> ts[n].rows]]
  BY <1>5
<1>7. Unconstrained(c) = [c EXCEPT !.tables = us]
  BY DEF Unconstrained
<1> HIDE DEF us
<1>8. [c EXCEPT !.tables = us] = [tables |-> us, views |-> c.views]
  BY <1>4
<1>9. Unconstrained(c) = CatalogOf(ls, vs)
  BY <1>3, <1>4, <1>6, <1>7, <1>8
<1>10. QED  BY <1>1, <1>9 DEF d, ls, c

(* The parts of a catalog. *)
LEMMA CatalogParts ==
  ASSUME NEW ts, NEW vs
  PROVE /\ CatalogOf(ts, vs) = [tables |-> CatalogOf(ts, vs).tables, views |-> vs]
        /\ CatalogOf(ts, vs).views = vs
        /\ CatalogOf(ts, vs).tables = [n \in Names |-> CatalogOf(ts, vs).tables[n]]
        /\ DOMAIN CatalogOf(ts, vs).tables = Names
        /\ \A n \in Names : CatalogOf(ts, vs).tables[n] =
             [cols |-> ts[n].cols, unique |-> ts[n].unique, rows |-> ts[n].rows]
BY DEF CatalogOf

(* Another table in a catalog. *)
LEMMA WithTableIs ==
  ASSUME NEW ts \in [Names -> Table], NEW vs, NEW n \in Names, NEW t
  PROVE Serial!WithTable(CatalogOf(ts, vs), n, Serial!Table(t.cols, t.unique, t.rows))
        = CatalogOf([ts EXCEPT ![n] = t], vs)
<1> DEFINE c == CatalogOf(ts, vs)  us == [ts EXCEPT ![n] = t]
           e == [cols |-> t.cols, unique |-> t.unique, rows |-> t.rows]
<1>1. /\ c = [tables |-> c.tables, views |-> vs]
      /\ DOMAIN c.tables = Names
      /\ c.tables = [m \in Names |-> c.tables[m]]
      /\ \A m \in Names : c.tables[m] =
           [cols |-> ts[m].cols, unique |-> ts[m].unique, rows |-> ts[m].rows]
  BY CatalogParts
<1>2. us[n] = t /\ \A m \in Names \ {n} : us[m] = ts[m]
  OBVIOUS
<1> HIDE DEF c, us
<1>3. \A m \in Names : [cols |-> us[m].cols, unique |-> us[m].unique,
                        rows |-> us[m].rows] = IF m = n THEN e ELSE c.tables[m]
  BY <1>1, <1>2
<1> HIDE DEF e
<1>4. CatalogOf(us, vs) = [tables |-> [m \in Names |-> IF m = n THEN e ELSE c.tables[m]],
                           views |-> vs]
  BY <1>3 DEF CatalogOf
<1>5. [c.tables EXCEPT ![n] = e] = [m \in Names |-> IF m = n THEN e ELSE c.tables[m]]
  BY <1>1
<1>6. [c EXCEPT !.tables[n] = e] = [tables |-> [c.tables EXCEPT ![n] = e], views |-> vs]
  BY <1>1
<1>7. CatalogOf(us, vs) = [c EXCEPT !.tables[n] = e]
  BY <1>4, <1>5, <1>6
<1>8. QED  BY <1>7, Zenon DEF c, us, e, Serial!WithTable, Serial!Table

(* Other rows in a table. *)
LEMMA WithRowsIs ==
  ASSUME NEW ts \in [Names -> Table], NEW vs, NEW n \in Names, NEW t,
         t.cols = ts[n].cols, t.unique = ts[n].unique
  PROVE Serial!WithRows(CatalogOf(ts, vs), n, t.rows)
        = CatalogOf([ts EXCEPT ![n] = t], vs)
<1> DEFINE e == CatalogOf(ts, vs).tables[n]
<1>1. e = [cols |-> ts[n].cols, unique |-> ts[n].unique, rows |-> ts[n].rows]
  BY DEF CatalogOf
<1> HIDE DEF e
<1>2. [e EXCEPT !.rows = t.rows] =
        [cols |-> t.cols, unique |-> t.unique, rows |-> t.rows]
  BY <1>1
<1> DEFINE r == Serial!Table(t.cols, t.unique, t.rows)
<1>3. Serial!WithTable(CatalogOf(ts, vs), n, r) = CatalogOf([ts EXCEPT ![n] = t], vs)
  BY WithTableIs, Zenon
<1>4. [e EXCEPT !.rows = t.rows] = r
  BY <1>2 DEF Serial!Table
<1>5. QED  BY <1>3, <1>4, Zenon DEF e, Serial!WithRows

(* What each kind of statement may make of a catalog. *)
LEMMA ResultsAre ==
  ASSUME NEW stmt, NEW c
  PROVE /\ stmt.op = "create table" => Serial!Results(stmt, c) =
             {Serial!WithTable(c, stmt.name,
                Serial!Table(stmt.cols, stmt.unique, <<>>))}
        /\ stmt.op = "create table as" => Serial!Results(stmt, c) =
             {Serial!WithTable(c, stmt.name,
                Serial!Table(stmt.cols, FALSE, stmt.rows))}
        /\ stmt.op = "create view" => Serial!Results(stmt, c) =
             {Serial!WithView(c, stmt.name, stmt.query)}
        /\ stmt.op = "drop tables" => Serial!Results(stmt, c) =
             {Serial!WithoutTables(c, stmt.names)}
        /\ stmt.op = "drop views" => Serial!Results(stmt, c) =
             {Serial!WithoutViews(c, stmt.names)}
        /\ stmt.op = "insert" => Serial!Results(stmt, c) =
             {Serial!WithRows(c, stmt.name,
                c.tables[stmt.name].rows \o stmt.rows)}
        /\ stmt.op = "delete" => Serial!Results(stmt, c) =
             {Serial!WithRows(c, stmt.name,
                Serial!Without(c.tables[stmt.name].rows, stmt.hit))}
<1>1. ASSUME stmt.op = "create table"
      PROVE  Serial!Results(stmt, c) =
               {Serial!WithTable(c, stmt.name,
                  Serial!Table(stmt.cols, stmt.unique, <<>>))}
  BY <1>1 DEF Serial!Results
<1>2. ASSUME stmt.op = "create table as"
      PROVE  Serial!Results(stmt, c) =
               {Serial!WithTable(c, stmt.name,
                  Serial!Table(stmt.cols, FALSE, stmt.rows))}
  BY <1>2 DEF Serial!Results
<1>3. ASSUME stmt.op = "create view"
      PROVE  Serial!Results(stmt, c) =
               {Serial!WithView(c, stmt.name, stmt.query)}
  BY <1>3 DEF Serial!Results
<1>4. ASSUME stmt.op = "drop tables"
      PROVE  Serial!Results(stmt, c) =
               {Serial!WithoutTables(c, stmt.names)}
  BY <1>4 DEF Serial!Results
<1>5. ASSUME stmt.op = "drop views"
      PROVE  Serial!Results(stmt, c) =
               {Serial!WithoutViews(c, stmt.names)}
  BY <1>5 DEF Serial!Results
<1>6. ASSUME stmt.op = "insert"
      PROVE  Serial!Results(stmt, c) =
               {Serial!WithRows(c, stmt.name,
                  c.tables[stmt.name].rows \o stmt.rows)}
  BY <1>6 DEF Serial!Results
<1>7. ASSUME stmt.op = "delete"
      PROVE  Serial!Results(stmt, c) =
               {Serial!WithRows(c, stmt.name,
                  Serial!Without(c.tables[stmt.name].rows, stmt.hit))}
  BY <1>7 DEF Serial!Results
<1>8. QED  BY ONLY <1>1, <1>2, <1>3, <1>4, <1>5, <1>6, <1>7, Zenon

LEMMA ResultsOfUpdate ==
  ASSUME NEW stmt, NEW c, stmt.op = "update"
  PROVE Serial!Results(stmt, c) = Serial!Updates(c, stmt.name, stmt.at)
BY DEF Serial!Results

(* Views in a catalog, and tables and views that are gone. *)
ViewsWith(vs, n, q) == [vs EXCEPT ![n] = q]

LEMMA WithViewIs ==
  ASSUME NEW ts, NEW vs \in Views, NEW n \in Names, NEW q
  PROVE Serial!WithView(CatalogOf(ts, vs), n, q) = CatalogOf(ts, ViewsWith(vs, n, q))
<1> DEFINE t == [m \in Names |-> [cols |-> ts[m].cols, unique |-> ts[m].unique,
                                 rows |-> ts[m].rows]]
           us == [vs EXCEPT ![n] = q]
<1>1. CatalogOf(ts, vs) = [tables |-> t, views |-> vs]
      /\ CatalogOf(ts, us) = [tables |-> t, views |-> us]
  BY DEF CatalogOf
<1> HIDE DEF t
<1>2. [[tables |-> t, views |-> vs] EXCEPT !.views[n] = q] =
        [tables |-> t, views |-> us]
  OBVIOUS
<1>3. QED  BY <1>1, <1>2, Zenon DEF Serial!WithView, ViewsWith

LEMMA WithoutTablesIs ==
  ASSUME NEW ts, NEW vs, NEW ns \in SUBSET Names
  PROVE Serial!WithoutTables(CatalogOf(ts, vs), ns) =
          CatalogOf([n \in Names |-> IF n \in ns THEN NoTable ELSE ts[n]], vs)
<1> DEFINE c == CatalogOf(ts, vs)
<1>1. /\ c = [tables |-> c.tables, views |-> vs]
      /\ c.views = vs
      /\ c.tables = [n \in Names |-> c.tables[n]]
      /\ DOMAIN c.tables = Names
      /\ \A n \in Names : c.tables[n] =
           [cols |-> ts[n].cols, unique |-> ts[n].unique, rows |-> ts[n].rows]
  BY CatalogParts
<1> DEFINE us == [n \in Names |-> IF n \in ns THEN NoTable ELSE ts[n]]
           without == [n \in Names |-> IF n \in ns THEN Serial!NoTable ELSE c.tables[n]]
<1>2. Serial!NoTable = [cols |-> NoTable.cols, unique |-> NoTable.unique,
                        rows |-> NoTable.rows]
  BY DEF Serial!NoTable, Serial!Table, NoTable
<1> HIDE DEF c
<1>3. \A n \in Names :
        [cols |-> us[n].cols, unique |-> us[n].unique, rows |-> us[n].rows]
          = IF n \in ns THEN Serial!NoTable ELSE c.tables[n]
  BY <1>1, <1>2
<1>4. CatalogOf(us, vs) = [tables |-> without, views |-> vs]
  BY <1>3, Zenon DEF CatalogOf
<1>5. without = [n \in DOMAIN c.tables |->
                   IF n \in ns THEN Serial!NoTable ELSE c.tables[n]]
  BY <1>1, Zenon
<1> HIDE DEF without, us
<1>6. [c EXCEPT !.tables = without] = [tables |-> without, views |-> vs]
  BY <1>1
<1>7. Serial!WithoutTables(c, ns) = [c EXCEPT !.tables = without]
  BY <1>5, Zenon DEF Serial!WithoutTables
<1>8. Serial!WithoutTables(c, ns) = CatalogOf(us, vs)
  BY ONLY <1>4, <1>6, <1>7, Zenon
<1>9. QED  BY <1>8, Zenon DEF c, us

LEMMA WithoutViewsIs ==
  ASSUME NEW ts, NEW vs \in Views, NEW ns \in SUBSET Names
  PROVE Serial!WithoutViews(CatalogOf(ts, vs), ns) =
          CatalogOf(ts, [n \in Names |-> IF n \in ns THEN NoView ELSE vs[n]])
<1> DEFINE t == [m \in Names |-> [cols |-> ts[m].cols, unique |-> ts[m].unique,
                                 rows |-> ts[m].rows]]
           without == [n \in Names |-> IF n \in ns THEN NoView ELSE vs[n]]
           c == [tables |-> t, views |-> vs]
<1>1. CatalogOf(ts, vs) = c /\ CatalogOf(ts, without) = [tables |-> t, views |-> without]
  BY DEF CatalogOf
<1> HIDE DEF t
<1>2. c.views = vs /\ DOMAIN vs = Names
  OBVIOUS
<1>3. [n \in DOMAIN c.views |-> IF n \in ns THEN NoView ELSE c.views[n]] = without
  BY <1>2
<1>4. [c EXCEPT !.views = without] = [tables |-> t, views |-> without]
  OBVIOUS
<1> HIDE DEF c, without
<1>5. Serial!WithoutViews(c, ns) = [c EXCEPT !.views = without]
  BY <1>3, Zenon DEF Serial!WithoutViews
<1>6. Serial!WithoutViews(c, ns) = CatalogOf(ts, without)
  BY ONLY <1>1, <1>4, <1>5, Zenon
<1>7. QED  BY <1>1, <1>6, Zenon DEF without

(* A table exists in the catalog when it exists in the store. *)
LEMMA ExistsIs ==
  ASSUME NEW ts \in [Names -> Table], NEW vs, NEW n \in Names
  PROVE Serial!Exists(CatalogOf(ts, vs), n) <=> ts[n] # NoTable
<1>1. CatalogOf(ts, vs).tables[n].cols = ts[n].cols
  BY DEF CatalogOf
<1>2. ts[n] \in Table
  OBVIOUS
<1>3. ts[n].cols = <<>> <=> ts[n] = NoTable
  BY <1>2, TableParts, NoTableIs DEF NoTable
<1>4. QED  BY <1>1, <1>3 DEF Serial!Exists

(* The statement of s is as it was asked for, and has made of the catalog  *)
(* what the serial catalog allows.                                         *)
Does(s, stmt) ==
  /\ sess'[s].stmt = stmt
  /\ stmt # NoStatement
  /\ CatalogOf(tables', views') \in
       Serial!Executions(stmt, CatalogOf(tables, views))

LEMMA AppliesStatement ==
  ASSUME TypeOK, NEW s \in Sessions, NEW stmt, NEW ns, NEW rewrites, NEW count,
         NEW changes, NEW ts, NEW vs,
         Apply(s, stmt, ns, rewrites, count, changes, ts, vs)
  PROVE tables' = ts /\ views' = vs /\ sess'[s].stmt = stmt
<1> DEFINE st == Pending(stmt, ns, rewrites, tables, views, count, changes)
<1>1. /\ tables' = ts /\ views' = vs /\ sess' = [sess EXCEPT ![s] = st]
  BY DEF Apply, Pending
<1>2. DOMAIN Idle = {"pc", "stmt", "rewrites", "ns", "tables", "views",
                     "count", "changes"}
  BY DEF Idle
<1>3. st.stmt = stmt
  BY <1>2 DEF Pending
<1> HIDE DEF st
<1>4. QED  BY <1>1, <1>3 DEF TypeOK

(* What a statement in progress has made is a catalog that the store may   *)
(* hold.                                                                   *)
LEMMA PendsValid ==
  ASSUME Inv', NEW s \in Sessions, Pends(s)
  PROVE ValidCatalog(CatalogOf(tables', views'))
<1>1. /\ sess'[s].pc = "applied"
      /\ \A r \in Sessions : r # s => sess'[r].pc \in {"idle", "updating"}
  BY DEF Pends
<1>2. Kinds(tables', views')
  BY <1>1 DEF Inv, TablesKept, Kinds
<1>3. \A n \in Names : Sound(tables'[n])
  BY <1>1 DEF Inv, StatementsUndoable, Undoable, Sound
<1>4. QED  BY <1>2, <1>3, CatalogValid

LEMMA DoesFrom ==
  ASSUME NEW s \in Sessions, NEW stmt, stmt # NoStatement, sess'[s].stmt = stmt,
         Inv', Pends(s),
         Serial!Allowed(stmt, CatalogOf(tables, views)),
         CatalogOf(tables', views') \in
           Serial!Results(stmt, CatalogOf(tables, views))
  PROVE Does(s, stmt)
<1>1. ValidCatalog(CatalogOf(tables', views'))
  BY PendsValid
<1>2. QED  BY <1>1, Zenon DEF Does, Serial!Executions

LEMMA CreateTableDoes ==
  ASSUME Inv, Inv', NEW s \in Sessions, NEW n \in Names, NEW cols \in Layouts,
         NEW unique \in BOOLEAN, CreateTable(s, n, cols, unique), Pends(s)
  PROVE sess[s].pc = "idle" /\ \E stmt : Does(s, stmt)
<1> DEFINE stmt == [op |-> "create table", name |-> n, cols |-> cols, unique |-> unique]
           t == [NoTable EXCEPT !.cols = cols, !.unique = unique]
           c == CatalogOf(tables, views)
<1>1. /\ sess[s].pc = "idle" /\ tables[n] = NoTable
      /\ Apply(s, stmt, {n}, {}, 0, TRUE, [tables EXCEPT ![n] = t], views)
  BY DEF CreateTable, Start
<1>2. TypeOK /\ tables \in [Names -> Table]
  BY DEF Inv, TypeOK
<1>3. t.cols = cols /\ t.unique = unique /\ t.rows = <<>>
  BY DEF NoTable
<1>4. /\ stmt.op = "create table" /\ stmt.name = n /\ stmt.cols = cols
      /\ stmt.unique = unique /\ stmt # NoStatement
  BY DEF NoStatement
<1> HIDE DEF t, stmt
<1>5. /\ tables' = [tables EXCEPT ![n] = t] /\ views' = views
      /\ sess'[s].stmt = stmt
  BY <1>1, <1>2, AppliesStatement
<1>6. Serial!WithTable(c, n, Serial!Table(t.cols, t.unique, t.rows))
        = CatalogOf([tables EXCEPT ![n] = t], views)
  BY <1>2, WithTableIs
<1>7. Serial!Results(stmt, c) =
        {Serial!WithTable(c, n, Serial!Table(cols, unique, <<>>))}
  BY <1>4, ResultsAre
<1>8. CatalogOf(tables', views') \in Serial!Results(stmt, c)
  BY <1>3, <1>5, <1>6, <1>7
<1>9. ~Serial!Exists(c, n)
  BY <1>1, <1>2, ExistsIs
<1>10. Serial!Allowed(stmt, c)
  BY <1>4, <1>9 DEF Serial!Allowed
<1>11. Does(s, stmt)
  BY <1>4, <1>5, <1>8, <1>10, DoesFrom
<1>12. QED  BY <1>1, <1>11

LEMMA CreateTableAsDoes ==
  ASSUME Inv, Inv', NEW s \in Sessions, NEW n \in Names, NEW cols \in Layouts,
         NEW rows \in RowSeqs(Len(cols), MaxSelected),
         CreateTableAs(s, n, cols, rows), Pends(s)
  PROVE sess[s].pc = "idle" /\ \E stmt : Does(s, stmt)
<1> DEFINE stmt == [op |-> "create table as", name |-> n, cols |-> cols, rows |-> rows]
           t == [NoTable EXCEPT !.cols = cols, !.rows = rows]
           c == CatalogOf(tables, views)
<1>1. /\ sess[s].pc = "idle"
      /\ Apply(s, stmt, {n}, {}, 0, TRUE, [tables EXCEPT ![n] = t], views)
  BY DEF CreateTableAs, Start
<1>2. TypeOK /\ tables \in [Names -> Table]
  BY DEF Inv, TypeOK
<1>3. t.cols = cols /\ t.unique = FALSE /\ t.rows = rows
  BY DEF NoTable
<1>4. /\ stmt.op = "create table as" /\ stmt.name = n /\ stmt.cols = cols
      /\ stmt.rows = rows /\ stmt # NoStatement
  BY DEF NoStatement
<1> HIDE DEF t, stmt
<1>5. /\ tables' = [tables EXCEPT ![n] = t] /\ views' = views
      /\ sess'[s].stmt = stmt
  BY <1>1, <1>2, AppliesStatement
<1>6. Serial!WithTable(c, n, Serial!Table(t.cols, t.unique, t.rows))
        = CatalogOf([tables EXCEPT ![n] = t], views)
  BY <1>2, WithTableIs
<1>7. Serial!Results(stmt, c) =
        {Serial!WithTable(c, n, Serial!Table(cols, FALSE, rows))}
  BY <1>4, ResultsAre
<1>8. CatalogOf(tables', views') \in Serial!Results(stmt, c)
  BY <1>3, <1>5, <1>6, <1>7
<1>9. Serial!Allowed(stmt, c)
  BY <1>4 DEF Serial!Allowed
<1>10. Does(s, stmt)
  BY <1>4, <1>5, <1>8, <1>9, DoesFrom
<1>11. QED  BY <1>1, <1>10

LEMMA CreateViewDoes ==
  ASSUME Inv, Inv', NEW s \in Sessions, NEW n \in Names, NEW q \in ViewDefs,
         CreateView(s, n, q), Pends(s)
  PROVE sess[s].pc = "idle" /\ \E stmt : Does(s, stmt)
<1> DEFINE stmt == [op |-> "create view", name |-> n, query |-> q]
           c == CatalogOf(tables, views)
<1>1. /\ sess[s].pc = "idle"
      /\ Apply(s, stmt, {n}, {}, 0, TRUE, tables, [views EXCEPT ![n] = q])
  BY DEF CreateView, Start
<1>2. TypeOK /\ views \in Views
  BY DEF Inv, TypeOK
<1>3. /\ stmt.op = "create view" /\ stmt.name = n /\ stmt.query = q
      /\ stmt # NoStatement
  BY DEF NoStatement
<1> HIDE DEF stmt
<1>4. /\ tables' = tables /\ views' = [views EXCEPT ![n] = q]
      /\ sess'[s].stmt = stmt
  BY <1>1, <1>2, AppliesStatement
<1>5. Serial!Results(stmt, c) = {Serial!WithView(c, n, q)}
  BY <1>3, ResultsAre
<1>6. CatalogOf(tables', views') \in Serial!Results(stmt, c)
  <2>1. Serial!WithView(c, n, q) = CatalogOf(tables, ViewsWith(views, n, q))
    BY ONLY <1>2, n \in Names, WithViewIs
  <2>2. CatalogOf(tables', views') = Serial!WithView(c, n, q)
    BY ONLY <1>4, <2>1, Zenon DEF ViewsWith
  <2>3. QED  BY ONLY <1>5, <2>2, Zenon
<1>7. Serial!Allowed(stmt, c)
  BY <1>3 DEF Serial!Allowed
<1>8. Does(s, stmt)
  BY <1>3, <1>4, <1>6, <1>7, DoesFrom
<1>9. QED  BY <1>1, <1>8

LEMMA DropTablesDoes ==
  ASSUME Inv, Inv', NEW s \in Sessions, NEW ns \in SUBSET Names,
         NEW ifExists \in BOOLEAN, DropTables(s, ns, ifExists), Pends(s)
  PROVE sess[s].pc = "idle" /\ \E stmt : Does(s, stmt)
<1> DEFINE stmt == [op |-> "drop tables", names |-> ns, ifExists |-> ifExists]
           dropped == {n \in ns : tables[n] # NoTable}
           ts == [n \in Names |-> IF n \in ns THEN NoTable ELSE tables[n]]
           c == CatalogOf(tables, views)
<1>1. /\ sess[s].pc = "idle"
      /\ ifExists \/ \A n \in ns : tables[n] # NoTable
      /\ Apply(s, stmt, dropped, {}, 0, dropped # {}, ts, views)
  BY DEF DropTables, Start
<1>2. TypeOK /\ tables \in [Names -> Table]
  BY DEF Inv, TypeOK
<1>3. /\ stmt.op = "drop tables" /\ stmt.names = ns /\ stmt.ifExists = ifExists
      /\ stmt # NoStatement
  BY DEF NoStatement
<1> HIDE DEF stmt, dropped
<1>4. /\ tables' = ts /\ views' = views /\ sess'[s].stmt = stmt
  BY <1>1, <1>2, AppliesStatement
<1>5. Serial!Results(stmt, c) = {Serial!WithoutTables(c, ns)}
  BY <1>3, ResultsAre
<1>6. CatalogOf(tables', views') \in Serial!Results(stmt, c)
  BY <1>4, <1>5, WithoutTablesIs
<1>7. ifExists \/ \A n \in ns : Serial!Exists(c, n)
  BY <1>1, <1>2, ExistsIs
<1>8. Serial!Allowed(stmt, c)
  BY <1>3, <1>7 DEF Serial!Allowed
<1>9. Does(s, stmt)
  BY <1>3, <1>4, <1>6, <1>8, DoesFrom
<1>10. QED  BY <1>1, <1>9

LEMMA DropViewsDoes ==
  ASSUME Inv, Inv', NEW s \in Sessions, NEW ns \in SUBSET Names,
         NEW ifExists \in BOOLEAN, DropViews(s, ns, ifExists), Pends(s)
  PROVE sess[s].pc = "idle" /\ \E stmt : Does(s, stmt)
<1> DEFINE stmt == [op |-> "drop views", names |-> ns, ifExists |-> ifExists]
           dropped == {n \in ns : views[n] # NoView}
           vs == [n \in Names |-> IF n \in ns THEN NoView ELSE views[n]]
           c == CatalogOf(tables, views)
<1>1. /\ sess[s].pc = "idle"
      /\ ifExists \/ \A n \in ns : views[n] # NoView
      /\ Apply(s, stmt, dropped, {}, 0, dropped # {}, tables, vs)
  BY DEF DropViews, Start
<1>2. TypeOK /\ views \in Views
  BY DEF Inv, TypeOK
<1>3. /\ stmt.op = "drop views" /\ stmt.names = ns /\ stmt.ifExists = ifExists
      /\ stmt # NoStatement
  BY DEF NoStatement
<1> HIDE DEF stmt, dropped
<1>4. /\ tables' = tables /\ views' = vs /\ sess'[s].stmt = stmt
  BY <1>1, <1>2, AppliesStatement
<1>5. Serial!Results(stmt, c) = {Serial!WithoutViews(c, ns)}
  BY <1>3, ResultsAre
<1>6. CatalogOf(tables', views') \in Serial!Results(stmt, c)
  BY <1>2, <1>4, <1>5, WithoutViewsIs
<1>7. c.views = views
  BY DEF CatalogOf
<1>8. Serial!Allowed(stmt, c)
  BY <1>1, <1>3, <1>7 DEF Serial!Allowed
<1>9. Does(s, stmt)
  BY <1>3, <1>4, <1>6, <1>8, DoesFrom
<1>10. QED  BY <1>1, <1>9

LEMMA InsertDoes ==
  ASSUME Inv, Inv', NEW s \in Sessions, NEW n \in Names, NEW rows,
         Insert(s, n, rows), Pends(s)
  PROVE sess[s].pc = "idle" /\ \E stmt : Does(s, stmt)
<1> DEFINE stmt == [op |-> "insert", name |-> n, rows |-> rows]
           t == [tables[n] EXCEPT !.rows = @ \o rows]
           c == CatalogOf(tables, views)
<1>1. /\ sess[s].pc = "idle" /\ tables[n] # NoTable
      /\ Apply(s, stmt, {}, {n}, Len(rows), rows # <<>>, [tables EXCEPT ![n] = t], views)
  BY DEF Insert, Start
<1>2. TypeOK /\ tables \in [Names -> Table] /\ tables[n] \in Table
  BY DEF Inv, TypeOK
<1>3. tables[n] = [cols |-> tables[n].cols, unique |-> tables[n].unique,
                   rows |-> tables[n].rows, chain |-> tables[n].chain]
  BY <1>2, TableParts
<1>4. /\ t.cols = tables[n].cols /\ t.unique = tables[n].unique
      /\ t.rows = tables[n].rows \o rows
  BY <1>3
<1>5. /\ stmt.op = "insert" /\ stmt.name = n /\ stmt.rows = rows
      /\ stmt # NoStatement
  BY DEF NoStatement
<1> HIDE DEF t, stmt
<1>6. /\ tables' = [tables EXCEPT ![n] = t] /\ views' = views
      /\ sess'[s].stmt = stmt
  BY <1>1, <1>2, AppliesStatement
<1>7. Serial!WithRows(c, n, t.rows) = CatalogOf([tables EXCEPT ![n] = t], views)
  BY <1>2, <1>4, WithRowsIs
<1>8. Serial!Results(stmt, c) =
        {Serial!WithRows(c, n, c.tables[n].rows \o rows)}
  BY <1>5, ResultsAre
<1>9. c.tables[n].rows = tables[n].rows
  BY DEF CatalogOf
<1> HIDE DEF c
<1>10. CatalogOf(tables', views') \in Serial!Results(stmt, c)
  BY <1>4, <1>6, <1>7, <1>8, <1>9
<1>11. Serial!Exists(c, n)
  BY <1>1, <1>2, ExistsIs DEF c
<1>12. Serial!Allowed(stmt, c)
  BY <1>5, <1>11 DEF Serial!Allowed
<1>13. Does(s, stmt)
  BY <1>5, <1>6, <1>10, <1>12, DoesFrom DEF c
<1>14. QED  BY <1>1, <1>13

LEMMA DeleteDoes ==
  ASSUME Inv, Inv', NEW s \in Sessions, NEW n \in Names, NEW hit,
         Delete(s, n, hit), Pends(s)
  PROVE sess[s].pc = "idle" /\ \E stmt : Does(s, stmt)
<1> DEFINE stmt == [op |-> "delete", name |-> n, hit |-> hit]
           left == SelectSeq(tables[n].rows, LAMBDA r : r \notin hit)
           t == [tables[n] EXCEPT !.rows = left]
           c == CatalogOf(tables, views)
<1>1. /\ sess[s].pc = "idle" /\ hit \cap Range(tables[n].rows) # {}
      /\ Apply(s, stmt, {n}, {n}, 0, TRUE, [tables EXCEPT ![n] = t], views)
  BY DEF Delete, Start
<1>2. TypeOK /\ tables \in [Names -> Table] /\ tables[n] \in Table
  BY DEF Inv, TypeOK
<1>3. tables[n] # NoTable
  BY <1>1, NoTableIs DEF Range
<1>4. tables[n] = [cols |-> tables[n].cols, unique |-> tables[n].unique,
                   rows |-> tables[n].rows, chain |-> tables[n].chain]
  BY <1>2, TableParts
<1>5. Serial!Without(tables[n].rows, hit) = left
  BY Zenon DEF Serial!Without
<1> HIDE DEF left
<1>6. /\ t.cols = tables[n].cols /\ t.unique = tables[n].unique
      /\ t.rows = left
  BY <1>4
<1>7. /\ stmt.op = "delete" /\ stmt.name = n /\ stmt.hit = hit
      /\ stmt # NoStatement
  BY DEF NoStatement
<1> HIDE DEF t, stmt
<1>8. /\ tables' = [tables EXCEPT ![n] = t] /\ views' = views
      /\ sess'[s].stmt = stmt
  BY <1>1, <1>2, AppliesStatement
<1>9. Serial!WithRows(c, n, t.rows) = CatalogOf([tables EXCEPT ![n] = t], views)
  BY <1>2, <1>6, WithRowsIs
<1>10. Serial!Results(stmt, c) =
         {Serial!WithRows(c, n, Serial!Without(c.tables[n].rows, hit))}
  BY <1>7, ResultsAre
<1>11. c.tables[n].rows = tables[n].rows
  BY DEF CatalogOf
<1> HIDE DEF c
<1>12. CatalogOf(tables', views') \in Serial!Results(stmt, c)
  BY <1>5, <1>6, <1>8, <1>9, <1>10, <1>11
<1>13. Serial!Exists(c, n)
  BY <1>2, <1>3, ExistsIs DEF c
<1>14. Serial!Allowed(stmt, c)
  BY <1>7, <1>13 DEF Serial!Allowed
<1>15. Does(s, stmt)
  BY <1>7, <1>8, <1>12, <1>14, DoesFrom DEF c
<1>16. QED  BY <1>1, <1>15

(* An UPDATE names a table and a position. *)
LEMMA UpdateParts ==
  ASSUME NEW stmt \in Statements, stmt.op = "update"
  PROVE stmt.name \in Names /\ stmt.at \in Nat \ {0} /\ stmt # NoStatement
<1>1. stmt # NoStatement
  BY DEF NoStatement
<1>2. /\ stmt \notin [op : {"create table"}, name : Names, cols : Layouts,
                      unique : BOOLEAN]
      /\ stmt \notin [op : {"create table as"}, name : Names, cols : Layouts,
                      rows : Selected]
      /\ stmt \notin [op : {"create view"}, name : Names, query : ViewDefs]
      /\ stmt \notin [op : {"drop tables", "drop views"}, names : SUBSET Names,
                      ifExists : BOOLEAN]
      /\ stmt \notin [op : {"insert"}, name : Names, rows : Selected]
      /\ stmt \notin [op : {"delete"}, name : Names,
                      hit : SUBSET UNION {[1 .. Len(cols) -> Cells] : cols \in Layouts}]
  OBVIOUS
<1>3. stmt \in [op : {"update"}, name : Names, col : Columns, at : Nat \ {0}]
  BY ONLY <1>1, <1>2, stmt \in Statements, Zenon DEF Statements
<1>4. QED  BY <1>1, <1>3

(* The columns of a table. *)
LEMMA ColsAreSeq ==
  ASSUME NEW t \in Table
  PROVE t.cols \in Seq(Columns)
<1>1. t.cols \in Layouts \cup {<<>>}
  BY TableParts, Zenon
<1>2. CASE t.cols \in Layouts
  BY ONLY <1>2, LayoutsAssumption, Zenon
<1>3. CASE t.cols = <<>>
  <2>1. <<>> \in Seq(Columns)
    OBVIOUS
  <2>2. QED  BY ONLY <1>3, <2>1, Zenon
<1>4. QED  BY ONLY <1>1, <1>2, <1>3, Zenon

(* One of the catalogs that an UPDATE may make. *)
LEMMA UpdatesAre ==
  ASSUME NEW c, NEW n, NEW i, NEW rows, c.tables[n].rows = rows,
         NEW hit \in SUBSET {rows[k] : k \in DOMAIN rows}, NEW cell \in Cells
  PROVE Serial!WithRows(c, n, Serial!Assigned(rows, hit, i, cell))
          \in Serial!Updates(c, n, i)
<1> DEFINE old == c.tables[n].rows
           W(h, x) == Serial!WithRows(c, n, Serial!Assigned(old, h, i, x))
           H == SUBSET {old[k] : k \in DOMAIN old}
<1>1. Serial!Updates(c, n, i) = {W(h, x) : h \in H, x \in Cells}
  BY DEF Serial!Updates
<1>2. W(hit, cell) = Serial!WithRows(c, n, Serial!Assigned(rows, hit, i, cell))
  OBVIOUS
<1>3. hit \in H
  OBVIOUS
<1> HIDE DEF W, H
<1>4. W(hit, cell) \in {W(h, x) : h \in H, x \in Cells}
  BY <1>3
<1>5. QED  BY <1>1, <1>2, <1>4

LEMMA UpdateApplyDoes ==
  ASSUME Inv, Inv', NEW s \in Sessions, NEW n \in Names, NEW cell \in Cells,
         NEW hit \in SUBSET Range(tables[n].rows),
         sess[s].stmt.op = "update", UpdateApply(s, n, hit, cell), Pends(s)
  PROVE sess[s].pc = "updating" /\ Does(s, sess[s].stmt)
<1> DEFINE stmt == sess[s].stmt
           i == stmt.at
           old == tables[n].rows
           new == [k \in DOMAIN old |->
                     IF old[k] \in hit THEN [old[k] EXCEPT ![i] = cell] ELSE old[k]]
           t == [tables[n] EXCEPT !.rows = new]
           c == CatalogOf(tables, views)
<1>1. /\ sess[s].pc = "updating" /\ stmt.name = n /\ i <= Len(tables[n].cols)
      /\ hit \cap Range(old) # {}
      /\ Apply(s, stmt, {n}, {n}, 0, TRUE, [tables EXCEPT ![n] = t], views)
  BY DEF UpdateApply
<1>2. TypeOK /\ tables \in [Names -> Table] /\ tables[n] \in Table
      /\ stmt \in Statements
  BY SessionParts DEF Inv, TypeOK
<1>3. i \in Nat \ {0} /\ stmt # NoStatement /\ stmt.op = "update"
  BY <1>2, UpdateParts
<1>4. /\ tables[n] = [cols |-> tables[n].cols, unique |-> tables[n].unique,
                      rows |-> tables[n].rows, chain |-> tables[n].chain]
      /\ tables[n].cols \in Layouts \cup {<<>>}
  BY <1>2, TableParts
<1>5. tables[n].cols \in Seq(Columns)
  BY <1>2, ColsAreSeq, Zenon
<1>6. i \in DOMAIN tables[n].cols
  BY <1>1, <1>3, <1>5
<1> HIDE DEF stmt
<1>7. new = Serial!Assigned(old, hit, i, cell)
  BY Zenon DEF Serial!Assigned
<1>8. hit \in SUBSET {old[k] : k \in DOMAIN old}
  BY DEF Range
<1> HIDE DEF new, i
<1>9. t.cols = tables[n].cols /\ t.unique = tables[n].unique /\ t.rows = new
  BY <1>4
<1> HIDE DEF t
<1>10. /\ tables' = [tables EXCEPT ![n] = t] /\ views' = views
       /\ sess'[s].stmt = stmt
  BY <1>1, <1>2, AppliesStatement
<1>11. Serial!WithRows(c, n, t.rows) = CatalogOf([tables EXCEPT ![n] = t], views)
  BY <1>2, <1>9, WithRowsIs
<1>12. Serial!Results(stmt, c) = Serial!Updates(c, n, i)
  BY <1>1, <1>3, ResultsOfUpdate DEF i
<1>13. c.tables[n].rows = old /\ c.tables[n].cols = tables[n].cols
  BY DEF CatalogOf
<1> HIDE DEF c, old
<1>14. Serial!WithRows(c, n, Serial!Assigned(old, hit, i, cell))
         \in Serial!Updates(c, n, i)
  BY ONLY <1>8, <1>13, cell \in Cells, UpdatesAre, Zenon
<1>15. Serial!WithRows(c, n, new) \in Serial!Updates(c, n, i)
  BY ONLY <1>7, <1>14, Zenon
<1>16. CatalogOf(tables', views') \in Serial!Results(stmt, c)
  BY ONLY <1>9, <1>10, <1>11, <1>12, <1>15, Zenon
<1>17. Serial!Allowed(stmt, c)
  BY <1>1, <1>3, <1>6, <1>13 DEF Serial!Allowed, i
<1>18. Does(s, stmt)
  BY <1>3, <1>10, <1>16, <1>17, DoesFrom DEF c
<1>19. QED  BY <1>1, <1>18 DEF stmt

-----------------------------------------------------------------------------
(* Statements do what they were asked to. *)

(* The statement of s has made of the catalog that s is undone to what the *)
(* serial catalog allows.                                                  *)
Executed(s) ==
  CatalogOf(tables, views) \in
    Serial!Executions(sess[s].stmt, CatalogOf(Undone(s, tables), FormerViews(s)))

(* While the lock is not held a session may have resolved an UPDATE; the   *)
(* statement whose flush is pending has been executed, and the flush of a  *)
(* rollback is that of no statement.                                       *)
StatementDoes(s) ==
  /\ sess[s].pc = "updating" => sess[s].stmt.op = "update"
  /\ sess[s].pc = "restoring" => sess[s].stmt = NoStatement
  /\ sess[s].pc = "applied" =>
       \/ sess[s].stmt = NoStatement /\ ~sess[s].changes
       \/ sess[s].stmt # NoStatement /\ Executed(s)

StatementsDo == \A s \in Sessions : StatementDoes(s)

(* An UPDATE finds its column, or ends without having changed anything. *)
Resolves(s) ==
  \/ /\ sess[s].pc = "idle" /\ sess'[s].pc = "updating"
     /\ sess'[s].stmt.op = "update"
  \/ sess[s].pc = "updating" /\ sess'[s].pc = "idle"

LEMMA UpdateResolves ==
  ASSUME TypeOK, NEW s \in Sessions, NEW n \in Names, NEW i,
         UpdateResolve(s, n, i)
  PROVE Resolves(s)
<1> DEFINE stmt == [op |-> "update", name |-> n, col |-> tables[n].cols[i], at |-> i]
           st == [Idle EXCEPT !.pc = "updating", !.stmt = stmt]
<1>1. sess[s].pc = "idle" /\ sess' = [sess EXCEPT ![s] = st]
  BY DEF UpdateResolve, Start
<1>2. DOMAIN Idle = {"pc", "stmt", "rewrites", "ns", "tables", "views",
                     "count", "changes"}
  BY DEF Idle
<1>3. stmt.op = "update"
  OBVIOUS
<1> HIDE DEF stmt
<1>4. st.pc = "updating" /\ st.stmt = stmt
  BY <1>2
<1> HIDE DEF st
<1>5. sess'[s] = st
  BY <1>1 DEF TypeOK
<1>6. QED  BY <1>1, <1>3, <1>4, <1>5 DEF Resolves

LEMMA UpdateEnds ==
  ASSUME TypeOK, NEW s \in Sessions, UpdatePanics(s) \/ UpdateRefused(s)
  PROVE Resolves(s)
<1>1. sess[s].pc = "updating" /\ sess' = [sess EXCEPT ![s] = Idle]
  BY DEF UpdatePanics, UpdateRefused
<1>2. QED  BY <1>1 DEF TypeOK, Resolves, Idle

(* Statements that define, drop or rewrite are asked for when they begin;  *)
(* an UPDATE is asked for before it takes the lock.                        *)
LEMMA StatementDone ==
  ASSUME Inv, Inv', StatementsDo, NEW s \in Sessions,
         Define(s) \/ Drop(s) \/ Rewrite(s)
  PROVE \/ Waits(s) /\ Resolves(s)
        \/ /\ Pends(s)
           /\ \E stmt : /\ Does(s, stmt)
                        /\ \/ sess[s].pc = "idle"
                           \/ sess[s].pc = "updating" /\ sess[s].stmt = stmt
<1>1. CASE Define(s)
  <2>1. CASE \E n \in Names, cols \in Layouts, unique \in BOOLEAN :
               CreateTable(s, n, cols, unique)
    BY <2>1, CreateTableKeeps, CreateTableDoes
  <2>2. CASE \E n \in Names, cols \in Layouts :
               \E rows \in RowSeqs(Len(cols), MaxSelected) :
                 CreateTableAs(s, n, cols, rows)
    BY <2>2, CreateTableAsKeeps, CreateTableAsDoes
  <2>3. CASE \E n \in Names, q \in ViewDefs : CreateView(s, n, q)
    BY <2>3, CreateViewKeeps, CreateViewDoes
  <2>4. QED  BY <1>1, <2>1, <2>2, <2>3 DEF Define
<1>2. CASE Drop(s)
  <2>1. PICK ns \in SUBSET Names, ifExists \in BOOLEAN :
          DropTables(s, ns, ifExists) \/ DropViews(s, ns, ifExists)
    BY <1>2 DEF Drop
  <2>2. QED  BY <2>1, DropTablesKeeps, DropTablesDoes, DropViewsKeeps, DropViewsDoes
<1>3. CASE Rewrite(s)
  <2>1. CASE \E n \in Names, cols \in Layouts :
               \E rows \in RowSeqs(Len(cols), MaxSelected) : Insert(s, n, rows)
    BY <2>1, InsertKeeps, InsertDoes
  <2>2. CASE \E n \in Names : \E hit \in SUBSET Range(tables[n].rows) : Delete(s, n, hit)
    BY <2>2, DeleteKeeps, DeleteDoes
  <2>3. CASE \E n \in Names : \E i \in DOMAIN tables[n].cols : UpdateResolve(s, n, i)
    BY <2>3, UpdateResolveKeeps, UpdateResolves DEF Inv
  <2>4. CASE \E n \in Names, cell \in Cells :
               \E hit \in SUBSET Range(tables[n].rows) : UpdateApply(s, n, hit, cell)
    <3>0. PICK n \in Names, cell \in Cells :
            \E hit \in SUBSET Range(tables[n].rows) : UpdateApply(s, n, hit, cell)
      BY <2>4
    <3>1. PICK hit \in SUBSET Range(tables[n].rows) : UpdateApply(s, n, hit, cell)
      BY <3>0
    <3>2. sess[s].stmt.op = "update"
      BY <3>1 DEF StatementsDo, StatementDoes, UpdateApply
    <3>3. Pends(s)
      BY <3>1, UpdateApplyKeeps
    <3>4. sess[s].pc = "updating" /\ Does(s, sess[s].stmt)
      BY <3>1, <3>2, <3>3, UpdateApplyDoes
    <3>5. QED  BY <3>3, <3>4
  <2>5. CASE UpdatePanics(s) \/ UpdateRefused(s)
    BY <2>5, UpdateEndsKeeps, UpdateEnds DEF Inv
  <2>6. QED  BY <1>3, <2>1, <2>2, <2>3, <2>4, <2>5 DEF Rewrite
<1>4. QED  BY <1>1, <1>2, <1>3

(* What a session has done does not depend on the others. *)
LEMMA StatementSame ==
  ASSUME StatementsDo, NEW r \in Sessions, sess'[r] = sess[r],
         sess[r].pc # "applied" \/ UNCHANGED <<tables, views>>
  PROVE StatementDoes(r)'
<1>1. StatementDoes(r)
  BY DEF StatementsDo
<1>2. CASE sess[r].pc # "applied"
  BY <1>1, <1>2 DEF StatementDoes
<1>3. CASE sess[r].pc = "applied" /\ UNCHANGED <<tables, views>>
  <2>1. Undone(r, tables)' = Undone(r, tables) /\ FormerViews(r)' = FormerViews(r)
    BY <1>3, UndoneSame
  <2>2. CatalogOf(tables, views)' = CatalogOf(tables, views)
    BY <1>3 DEF CatalogOf
  <2>3. CatalogOf(Undone(r, tables), FormerViews(r))'
          = CatalogOf(Undone(r, tables)', FormerViews(r)')
    BY DEF CatalogOf
  <2>4. Executed(r) => Executed(r)'
    BY <2>1, <2>2, <2>3, Zenon DEF Executed
  <2>5. QED  BY <1>1, <1>3, <2>4 DEF StatementDoes
<1>4. QED  BY <1>2, <1>3

(* A session that is idle, or has published, has nothing more to do. *)
LEMMA SettledDoes ==
  ASSUME NEW r \in Sessions, sess'[r].pc \in {"idle", "published"}
  PROVE StatementDoes(r)'
BY DEF StatementDoes

LEMMA PendsDoes ==
  ASSUME NEW s \in Sessions, NEW stmt, Pends(s), Does(s, stmt)
  PROVE StatementDoes(s)'
<1>1. /\ sess'[s].pc = "applied" /\ Undone(s, tables)' = tables
      /\ FormerViews(s)' = views /\ sess'[s].stmt = stmt /\ stmt # NoStatement
      /\ CatalogOf(tables', views') \in
           Serial!Executions(stmt, CatalogOf(tables, views))
  BY DEF Pends, Does
<1>2. /\ CatalogOf(tables, views)' = CatalogOf(tables', views')
      /\ CatalogOf(Undone(s, tables), FormerViews(s))' = CatalogOf(tables, views)
  BY <1>1 DEF CatalogOf
<1>3. Executed(s)'
  BY <1>1, <1>2, Zenon DEF Executed
<1>4. QED  BY <1>1, <1>3 DEF StatementDoes

LEMMA StatementsDoKeeps ==
  Inv /\ Inv' /\ StatementsDo /\ [Next]_vars => StatementsDo'
<1> SUFFICES ASSUME Inv, Inv', StatementsDo, [Next]_vars, NEW r \in Sessions
             PROVE StatementDoes(r)'
  BY DEF StatementsDo
<1>0. TypeOK /\ sess \in [Sessions -> Session] /\ Idle.pc = "idle"
  BY DEF Inv, TypeOK, Idle
<1>1. ASSUME NEW s \in Sessions, Define(s) \/ Drop(s) \/ Rewrite(s)
      PROVE  StatementDoes(r)'
  <2>1. CASE Waits(s) /\ Resolves(s)
    <3>1. CASE r = s
      BY <2>1, <3>1 DEF Waits, Resolves, StatementDoes
    <3>2. CASE r # s
      BY <2>1, <3>2, StatementSame DEF Waits
    <3>3. QED  BY <3>1, <3>2
  <2>2. CASE Pends(s) /\ \E stmt : Does(s, stmt)
    <3>1. CASE r = s
      BY <2>2, <3>1, PendsDoes
    <3>2. CASE r # s
      <4>1. sess'[r] = sess[r] /\ sess[r].pc # "applied"
        BY <2>2, <3>2 DEF Pends
      <4>2. QED  BY <4>1, StatementSame
    <3>3. QED  BY <3>1, <3>2
  <2>3. QED  BY <1>1, <2>1, <2>2, StatementDone
<1>2. ASSUME NEW s \in Sessions, Flush(s)
      PROVE  StatementDoes(r)'
  <2>1. Holds(s)
    BY <1>2 DEF Flush, Publish, FlushFails, Acknowledge, Holds
  <2>2. \A x \in Sessions \ {s} : sess[x].pc \in {"idle", "updating"}
    BY <2>1, OthersWait
  <2>3. PICK st \in {Idle, [sess[s] EXCEPT !.pc = "published"]} :
          sess' = [sess EXCEPT ![s] = st]
    BY <1>2 DEF Flush, Publish, FlushFails, Acknowledge
  <2>4. sess[s] \in Session
    BY <1>0
  <2>5. [sess[s] EXCEPT !.pc = "published"].pc = "published"
    BY <2>4 DEF Session
  <2>6. st.pc \in {"idle", "published"}
    BY <1>0, <2>3, <2>5
  <2>7. CASE r = s
    BY <1>0, <2>3, <2>6, <2>7, SettledDoes
  <2>8. CASE r # s
    BY <1>0, <2>2, <2>3, <2>8, StatementSame
  <2>9. QED  BY <2>7, <2>8
<1>3. ASSUME NEW s \in Sessions, Transaction(s)
      PROVE  StatementDoes(r)'
  <2>1. CASE Begin(s) \/ Commit(s) \/ RollbackRefused(s)
    BY <2>1, StatementSame DEF Begin, Commit, RollbackRefused
  <2>2. CASE Rollback(s)
    <3> DEFINE st == [Idle EXCEPT !.pc = "restoring", !.views = tx.views]
    <3>1. sess' = [sess EXCEPT ![s] = st] /\ Lockable
      BY <2>2 DEF Rollback
    <3>2. st.pc = "restoring" /\ st.stmt = NoStatement
      BY DEF Idle
    <3> HIDE DEF st
    <3>3. sess'[s] = st /\ \A x \in Sessions \ {s} : sess'[x] = sess[x]
      BY <1>0, <3>1
    <3>4. CASE r = s
      BY <3>2, <3>3, <3>4 DEF StatementDoes
    <3>5. CASE r # s
      <4>1. sess[r].pc # "applied" /\ sess'[r] = sess[r]
        BY <3>1, <3>3, <3>5 DEF Lockable
      <4>2. QED  BY <4>1, StatementSame
    <3>6. QED  BY <3>4, <3>5
  <2>3. CASE RestoreViews(s)
    <3> DEFINE st == [sess[s] EXCEPT !.pc = "applied"]
    <3>1. sess' = [sess EXCEPT ![s] = st] /\ sess[s].pc = "restoring"
      BY <2>3 DEF RestoreViews
    <3>2. sess[s].stmt = NoStatement /\ ~sess[s].changes
      BY <3>1 DEF StatementsDo, StatementDoes, Inv, RollbacksRestore
    <3>3. sess[s] \in Session
      BY <1>0
    <3>4. st.pc = "applied" /\ st.stmt = NoStatement /\ ~st.changes
      BY <3>2, <3>3 DEF Session
    <3> HIDE DEF st
    <3>5. sess'[s] = st /\ \A x \in Sessions \ {s} : sess'[x] = sess[x]
      BY <1>0, <3>1
    <3>6. CASE r = s
      BY <3>4, <3>5, <3>6 DEF StatementDoes
    <3>7. CASE r # s
      <4>1. sess[r].pc # "applied" /\ sess'[r] = sess[r]
        BY <3>1, <3>5, <3>7, OthersWait DEF Holds
      <4>2. QED  BY <4>1, StatementSame
    <3>8. QED  BY <3>6, <3>7
  <2>4. QED  BY <1>3, <2>1, <2>2, <2>3 DEF Transaction
<1>4. CASE Reopen
  <2>1. sess'[r] = Idle
    BY <1>4 DEF Reopen
  <2>2. QED  BY <1>0, <2>1, SettledDoes
<1>5. CASE UNCHANGED vars
  BY <1>5, StatementSame DEF vars
<1>6. QED  BY <1>1, <1>2, <1>3, <1>4, <1>5 DEF Next

(* In every reachable state the statement in progress has done to the      *)
(* catalog what it was asked to.                                           *)
LEMMA StatementsAreDone == Spec => []StatementsDo
<1>1. Init => StatementsDo
  BY DEF Init, Idle, StatementsDo, StatementDoes
<1>2. Inv /\ Inv' /\ StatementsDo /\ [Next]_vars => StatementsDo'
  BY StatementsDoKeeps
<1>3. QED  BY <1>1, <1>2, Invariance, PTL DEF Spec

-----------------------------------------------------------------------------
(* Every step is one of the serial catalog, or none. *)

(* What the sessions have been told, in each phase of a statement. *)
LEMMA ToldIs ==
  Inv => /\ \A s \in Sessions : sess[s].pc = "applied" =>
              Told = CatalogOf(Undone(s, tables), FormerViews(s))
         /\ \A s \in Sessions : sess[s].pc = "restoring" =>
              Told = CatalogOf(tables, sess[s].views)
         /\ (\A s \in Sessions : sess[s].pc \notin {"applied", "restoring"}) =>
              Told = CatalogOf(tables, views)
<1> SUFFICES ASSUME Inv
             PROVE /\ \A s \in Sessions : sess[s].pc = "applied" =>
                        Told = CatalogOf(Undone(s, tables), FormerViews(s))
                   /\ \A s \in Sessions : sess[s].pc = "restoring" =>
                        Told = CatalogOf(tables, sess[s].views)
                   /\ (\A s \in Sessions : sess[s].pc \notin {"applied", "restoring"})
                        => Told = CatalogOf(tables, views)
  OBVIOUS
<1>1. ASSUME NEW s \in Sessions, sess[s].pc \in {"applied", "restoring"}
      PROVE Told = CatalogOf(Undone(s, tables),
              [n \in Names |-> IF n \in sess[s].ns \/ sess[s].pc = "restoring"
                              THEN sess[s].views[n] ELSE views[n]])
  <2> DEFINE P(x) == sess[x].pc \in {"applied", "restoring"}
             h == CHOOSE x \in Sessions : P(x)
  <2>1. \A x \in Sessions : P(x) => x = s
    BY <1>1, OthersWait DEF Holds
  <2>2. h = s
    BY <1>1, <2>1
  <2> DEFINE At(x) == CatalogOf(Undone(x, tables),
               [n \in Names |-> IF n \in sess[x].ns \/ sess[x].pc = "restoring"
                               THEN sess[x].views[n] ELSE views[n]])
  <2>3. Told = At(h)
    BY <1>1 DEF Told
  <2> HIDE DEF h, At
  <2>4. Told = At(s)
    BY <2>2, <2>3
  <2>5. QED  BY <2>4 DEF At
<1>2. ASSUME NEW s \in Sessions, sess[s].pc = "applied"
      PROVE Told = CatalogOf(Undone(s, tables), FormerViews(s))
  <2>1. [n \in Names |-> IF n \in sess[s].ns \/ sess[s].pc = "restoring"
                         THEN sess[s].views[n] ELSE views[n]] = FormerViews(s)
    BY <1>2 DEF FormerViews
  <2>2. QED  BY <1>1, <1>2, <2>1
<1>3. ASSUME NEW s \in Sessions, sess[s].pc = "restoring"
      PROVE Told = CatalogOf(tables, sess[s].views)
  <2>1. sess[s].ns = {} /\ sess[s].rewrites = {}
    BY <1>3 DEF Inv, RollbacksRestore
  <2>2. tables \in [Names -> Table] /\ sess[s].views \in Views
    BY SessionParts DEF Inv, TypeOK
  <2>3. Undone(s, tables) = tables
    BY <2>1, <2>2 DEF Undone
  <2>4. [n \in Names |-> IF n \in sess[s].ns \/ sess[s].pc = "restoring"
                         THEN sess[s].views[n] ELSE views[n]] = sess[s].views
    BY <1>3, <2>2
  <2>5. QED  BY <1>1, <1>3, <2>3, <2>4
<1>4. ASSUME \A s \in Sessions : sess[s].pc \notin {"applied", "restoring"}
      PROVE Told = CatalogOf(tables, views)
  BY <1>4 DEF Told
<1>5. QED  BY <1>2, <1>3, <1>4

(* The same after a step. *)
LEMMA ToldWillBe ==
  Inv' => /\ \A s \in Sessions : sess'[s].pc = "applied" =>
               Told' = CatalogOf(Undone(s, tables)', FormerViews(s)')
          /\ \A s \in Sessions : sess'[s].pc = "restoring" =>
               Told' = CatalogOf(tables', sess'[s].views)
          /\ (\A s \in Sessions : sess'[s].pc \notin {"applied", "restoring"}) =>
               Told' = CatalogOf(tables', views')
<1> DEFINE Says ==
      /\ \A s \in Sessions : sess[s].pc = "applied" =>
           Told = CatalogOf(Undone(s, tables), FormerViews(s))
      /\ \A s \in Sessions : sess[s].pc = "restoring" =>
           Told = CatalogOf(tables, sess[s].views)
      /\ (\A s \in Sessions : sess[s].pc \notin {"applied", "restoring"}) =>
           Told = CatalogOf(tables, views)
<1>1. Inv => Says
  BY ToldIs
<1> HIDE DEF Says
<1>2. Inv' => Says'
  BY <1>1, PTL
<1>3. QED  BY <1>2 DEF Says, CatalogOf

(* What the serial catalog knows of the statements. *)
LEMMA AskedIs ==
  ASSUME NEW r \in Sessions
  PROVE /\ SerialAsked[r] = Asked(r) /\ SerialAsked'[r] = Asked(r)'
        /\ sess'[r] = sess[r] => Asked(r)' = Asked(r)
        /\ sess[r].pc \in {"idle", "published", "restoring"}
             => Asked(r) = NoStatement
        /\ sess'[r].pc \in {"idle", "published", "restoring"}
             => Asked(r)' = NoStatement
        /\ sess[r].pc \in {"updating", "applied"} => Asked(r) = sess[r].stmt
        /\ sess'[r].pc \in {"updating", "applied"} => Asked(r)' = sess'[r].stmt
BY DEF SerialAsked, Asked

LEMMA AskedSame ==
  ASSUME \A r \in Sessions : Asked(r)' = Asked(r)
  PROVE SerialAsked' = SerialAsked
BY Zenon DEF SerialAsked

LEMMA AskedChanges ==
  ASSUME NEW s \in Sessions, \A r \in Sessions \ {s} : sess'[r] = sess[r],
         NEW stmt, Asked(s)' = stmt
  PROVE /\ SerialAsked' = [SerialAsked EXCEPT ![s] = stmt]
        /\ Asked(s) = stmt => SerialAsked' = SerialAsked
<1>1. \A r \in Sessions \ {s} : SerialAsked'[r] = SerialAsked[r]
  BY AskedIs
<1>2. SerialAsked'[s] = stmt
  BY AskedIs
<1>3. /\ SerialAsked = [r \in Sessions |-> SerialAsked[r]]
      /\ SerialAsked' = [r \in Sessions |-> SerialAsked'[r]]
  BY DEF SerialAsked
<1>4. SerialAsked' = [SerialAsked EXCEPT ![s] = stmt]
  BY <1>1, <1>2, <1>3
<1>5. Asked(s) = stmt => SerialAsked' = SerialAsked
  BY <1>1, <1>2, <1>3, AskedIs
<1>6. QED  BY <1>4, <1>5

(* The initial state, and the steps of a session that nobody is told of. *)
LEMMA InitMaps == Init => Serial!Init
<1> SUFFICES ASSUME Init PROVE Serial!Init
  OBVIOUS
<1>1. Inv
  BY InitKeeps
<1>2. tables = NoTables /\ views = NoViews /\ disk = Image(tables, views)
        /\ tx = NoTx /\ \A s \in Sessions : sess[s].pc = "idle"
  BY DEF Init, Idle
<1>3. /\ Kept(tables) /\ Kinds(tables, views) /\ tables \in [Names -> Table]
      /\ views \in Views
  BY <1>1, <1>2 DEF Inv, TablesKept, TypeOK
<1>4. Told = CatalogOf(tables, views)
  BY <1>1, <1>2, ToldIs
<1>5. ValidCatalog(Told)
  BY <1>3, <1>4, CatalogValid DEF Kept
<1>6. Durable = Unconstrained(Told)
  BY <1>2, <1>3, <1>4, RestartFinds DEF Durable
<1>7. SerialAsked = [s \in Sessions |-> NoStatement]
  BY <1>2 DEF SerialAsked, Asked
<1>8. QED  BY <1>2, <1>5, <1>6, <1>7
           DEF Serial!Init, Durable, SerialAsked, NoStatement, Serial!NoStatement

LEMMA PendingMaps ==
  ASSUME Inv, Inv', NEW s \in Sessions, Pends(s)
  PROVE UNCHANGED <<Told, Durable, SerialTx>>
<1>1. /\ \A r \in Sessions : sess[r].pc \in {"idle", "updating"}
      /\ Undone(s, tables)' = tables /\ FormerViews(s)' = views
      /\ sess'[s].pc = "applied" /\ UNCHANGED <<disk, tx, writers>>
  BY DEF Pends
<1>2. Told = CatalogOf(tables, views)
  BY <1>1, ToldIs
<1>3. Told' = CatalogOf(Undone(s, tables)', FormerViews(s)')
  BY <1>1, ToldWillBe
<1>4. Told' = Told
  BY <1>1, <1>2, <1>3
<1>5. UNCHANGED <<Durable, SerialTx>>
  BY <1>1 DEF Durable, SerialTx, Loaded, Restrict, CatalogOf
<1>6. QED  BY <1>4, <1>5

(* Nobody is told of what leaves the tables, the views and the statements  *)
(* that have changed them as they were.                                    *)
LEMMA ToldSame ==
  ASSUME Inv, Inv', UNCHANGED <<tables, views>>,
         \A r \in Sessions : \/ sess'[r] = sess[r]
                              \/ /\ sess[r].pc \notin {"applied", "restoring"}
                                 /\ sess'[r].pc \notin {"applied", "restoring"}
  PROVE Told' = Told
<1>1. CASE \E r \in Sessions : sess[r].pc = "applied"
  <2>1. PICK r \in Sessions : sess[r].pc = "applied"
    BY <1>1
  <2>2. sess'[r] = sess[r]
    BY <2>1
  <2>3. Undone(r, tables)' = Undone(r, tables) /\ FormerViews(r)' = FormerViews(r)
    BY <2>2, UndoneSame
  <2>4. Told = CatalogOf(Undone(r, tables), FormerViews(r))
    BY <2>1, ToldIs
  <2>5. Told' = CatalogOf(Undone(r, tables)', FormerViews(r)')
    BY <2>1, <2>2, ToldWillBe
  <2>6. QED  BY <2>3, <2>4, <2>5
<1>2. CASE \E r \in Sessions : sess[r].pc = "restoring"
  <2>1. PICK r \in Sessions : sess[r].pc = "restoring"
    BY <1>2
  <2>2. sess'[r] = sess[r]
    BY <2>1
  <2>3. Told = CatalogOf(tables, sess[r].views)
    BY <2>1, ToldIs
  <2>4. Told' = CatalogOf(tables', sess'[r].views)
    BY <2>1, <2>2, ToldWillBe
  <2>5. QED  BY <2>2, <2>3, <2>4
<1>3. CASE \A r \in Sessions : sess[r].pc \notin {"applied", "restoring"}
  <2>1. Told = CatalogOf(tables, views)
    BY <1>3, ToldIs
  <2>2. \A r \in Sessions : sess'[r].pc \notin {"applied", "restoring"}
    BY <1>3
  <2>3. Told' = CatalogOf(tables', views')
    BY <2>2, ToldWillBe
  <2>4. QED  BY <2>1, <2>3
<1>4. QED  BY <1>1, <1>2, <1>3

LEMMA DurableSame ==
  /\ disk' = disk => Durable' = Durable
  /\ UNCHANGED <<tx, writers>> => SerialTx' = SerialTx
BY DEF Durable, SerialTx, Loaded, Restrict, CatalogOf

LEMMA WaitingMaps ==
  ASSUME Inv, Inv', NEW s \in Sessions, Waits(s)
  PROVE UNCHANGED <<Told, Durable, SerialTx>>
<1>1. Told' = Told
  BY ToldSame DEF Waits
<1>2. QED  BY <1>1, DurableSame DEF Waits

LEMMA RestoreViewsMaps ==
  ASSUME Inv, Inv', NEW s \in Sessions, RestoreViews(s)
  PROVE UNCHANGED <<Told, Durable, SerialTx>>
<1>1. sess[s].pc = "restoring" /\ UNCHANGED <<tables, disk, tx, writers>>
  BY DEF RestoreViews
<1>2. /\ Undone(s, tables)' = tables /\ FormerViews(s)' = sess[s].views
      /\ sess'[s].pc = "applied"
  BY RestoreViewsKeeps
<1>3. Told = CatalogOf(tables, sess[s].views)
  BY <1>1, ToldIs
<1>4. Told' = CatalogOf(Undone(s, tables)', FormerViews(s)')
  BY <1>2, ToldWillBe
<1>5. QED  BY <1>1, <1>2, <1>3, <1>4, DurableSame

(* An open transaction is an open transaction of the serial catalog. *)
LEMMA OpenTx ==
  ASSUME Inv, tx # NoTx
  PROVE /\ SerialTx = [owner |-> tx.owner, base |-> CatalogOf(tx.tables, tx.views),
                       writers |-> writers]
        /\ SerialTx # NoTx
<1>1. SerialTx = [owner |-> tx.owner, base |-> CatalogOf(tx.tables, tx.views),
                  writers |-> writers]
  BY DEF SerialTx
<1>2. /\ tx.owner \in Sessions /\ tx.tables \in [Names -> Table]
      /\ tx.views \in Views /\ writers \in SUBSET Sessions
  BY DEF Inv, TypeOK
<1>3. CatalogOf(tx.tables, tx.views) \in Catalogs
  BY <1>2, CatalogTyped
<1>4. SerialTx \in [owner : Sessions, base : Catalogs, writers : SUBSET Sessions]
  BY <1>1, <1>2, <1>3
<1>5. QED  BY <1>1, <1>4, NoTxAssumption

LEMMA AcknowledgeMaps ==
  ASSUME Inv, Inv', NEW s \in Sessions, Acknowledge(s)
  PROVE UNCHANGED <<Told, Durable, SerialTx>>
<1>1. /\ sess[s].pc = "published" /\ sess' = [sess EXCEPT ![s] = Idle]
      /\ tx' \in {tx, [tx EXCEPT !.external = TRUE]}
      /\ tx = NoTx => tx' = NoTx
      /\ UNCHANGED <<tables, views, disk, writers>>
  BY DEF Acknowledge
<1>2. sess'[s] = Idle /\ \A r \in Sessions \ {s} : sess'[r] = sess[r]
  BY <1>1 DEF Inv, TypeOK
<1>3. Told' = Told
  <2>1. Idle.pc = "idle"
    BY DEF Idle
  <2>2. \A r \in Sessions : \/ sess'[r] = sess[r]
                             \/ /\ sess[r].pc \notin {"applied", "restoring"}
                                /\ sess'[r].pc \notin {"applied", "restoring"}
    BY <1>1, <1>2, <2>1
  <2>3. QED  BY <1>1, <2>2, ToldSame
<1>4. SerialTx' = SerialTx
  <2>1. CASE tx' = tx
    BY <1>1, <2>1, DurableSame
  <2>2. CASE tx' # tx
    <3>1. tx # NoTx /\ tx \in Snapshots /\ tx' = [tx EXCEPT !.external = TRUE]
      BY <1>1, <2>2 DEF Inv, TypeOK
    <3>2. /\ tx' \in Snapshots /\ tx'.owner = tx.owner /\ tx'.tables = tx.tables
          /\ tx'.views = tx.views
      BY <3>1
    <3>3. tx' # NoTx
      BY <3>2, NoTxAssumption
    <3>4. QED  BY <1>1, <3>1, <3>2, <3>3 DEF SerialTx, CatalogOf
  <2>3. QED  BY <2>1, <2>2
<1>5. QED  BY <1>1, <1>3, <1>4, DurableSame

LEMMA BeginMaps ==
  ASSUME Inv, Inv', NEW s \in Sessions, Begin(s)
  PROVE Serial!Begin(s)
<1> DEFINE t == [owner |-> s, external |-> FALSE, tables |-> tables, views |-> views]
<1>1. /\ Lockable /\ tx = NoTx /\ tx' = t /\ writers' = {}
      /\ UNCHANGED <<tables, views, disk, sess>>
  BY DEF Begin
<1>2. t \in Snapshots /\ t.owner = s /\ t.tables = tables /\ t.views = views
  BY DEF Inv, TypeOK
<1> HIDE DEF t
<1>3. Told' = Told
  BY <1>1, ToldSame
<1>4. Told = CatalogOf(tables, views)
  BY <1>1, ToldIs DEF Lockable
<1>5. t # NoTx
  BY <1>2, NoTxAssumption
<1>6. SerialTx' = [owner |-> s, base |-> Told, writers |-> {}]
  BY <1>1, <1>2, <1>4, <1>5 DEF SerialTx, CatalogOf
<1>7. SerialTx = NoTx /\ Durable' = Durable
  BY <1>1, DurableSame DEF SerialTx
<1>8. SerialAsked' = SerialAsked
  BY <1>1, AskedIs, AskedSame
<1>9. QED  BY <1>3, <1>6, <1>7, <1>8 DEF Serial!Begin, SerialTx, Durable, SerialAsked

(* The steps that the sessions are told of, and those of the file. *)
LEMMA CommitMaps ==
  ASSUME Inv, Inv', NEW s \in Sessions, Commit(s) \/ RollbackRefused(s)
  PROVE Serial!Commit
<1>1. tx' = NoTx /\ UNCHANGED <<tables, views, disk, sess>>
  BY DEF Commit, RollbackRefused
<1>2. Told' = Told
  BY <1>1, ToldSame
<1>3. SerialTx' = NoTx /\ Durable' = Durable
  BY <1>1, DurableSame DEF SerialTx
<1>4. SerialAsked' = SerialAsked
  BY <1>1, AskedIs, AskedSame
<1>5. QED  BY <1>2, <1>3, <1>4 DEF Serial!Commit, SerialTx, Durable, SerialAsked

LEMMA RollbackMaps ==
  ASSUME Inv, Inv', NEW s \in Sessions, Rollback(s)
  PROVE Serial!Rollback
<1>1. Lockable /\ tx # NoTx /\ ~tx.external /\ tx' = NoTx /\ disk' = disk
  BY DEF Rollback
<1>2. /\ sess'[s].pc = "restoring" /\ sess'[s].views = tx.views
      /\ tables' = tx.tables
  BY RollbackKeeps
<1>3. Told' = CatalogOf(tx.tables, tx.views)
  BY <1>2, ToldWillBe
<1>4. /\ SerialTx = [owner |-> tx.owner, base |-> CatalogOf(tx.tables, tx.views),
                     writers |-> writers]
      /\ SerialTx # NoTx
  BY <1>1, OpenTx
<1>5. writers \subseteq {tx.owner}
  BY <1>1 DEF Inv, TypeOK, WritersNoted, Lockable
<1>6. SerialTx.base = Told' /\ SerialTx.writers \subseteq {SerialTx.owner}
  BY <1>3, <1>4, <1>5
<1>7. SerialTx' = NoTx /\ Durable' = Durable
  BY <1>1, DurableSame DEF SerialTx
<1>8. SerialAsked' = SerialAsked
  <2>1. /\ sess' = [sess EXCEPT ![s] = [Idle EXCEPT !.pc = "restoring",
                                          !.views = tx.views]]
        /\ sess[s].pc = "idle" /\ sess \in [Sessions -> Session]
    BY DEF Rollback, Start, Inv, TypeOK
  <2>2. \A r \in Sessions \ {s} : sess'[r] = sess[r]
    BY <2>1
  <2>3. Asked(s) = NoStatement /\ Asked(s)' = NoStatement
    BY <1>2, <2>1, AskedIs
  <2>4. QED  BY <2>2, <2>3, AskedChanges
<1>9. QED  BY <1>4, <1>6, <1>7, <1>8
           DEF Serial!Rollback, SerialTx, Durable, SerialAsked

LEMMA ReopenMaps ==
  ASSUME Inv, Inv', Reopen
  PROVE Serial!Restart
<1>1. /\ tables' = [n \in Names |-> Loaded(disk.tables[n])]
      /\ views' = disk.views /\ tx' = NoTx
      /\ sess' = [s \in Sessions |-> Idle] /\ disk' = disk
  BY DEF Reopen
<1>2. \A s \in Sessions : sess'[s].pc \notin {"applied", "restoring"}
  BY <1>1 DEF Idle
<1>3. Told' = CatalogOf(tables', views')
  BY <1>2, ToldWillBe
<1>4. Told' = Durable
  BY <1>1, <1>3 DEF Durable
<1>5. SerialTx' = NoTx /\ Durable' = Durable
  BY <1>1, DurableSame DEF SerialTx
<1>6. SerialAsked' = [s \in Sessions |-> NoStatement]
  BY <1>1 DEF SerialAsked, Asked, Idle
<1>7. QED  BY <1>4, <1>5, <1>6
           DEF Serial!Restart, SerialTx, Durable, SerialAsked, NoStatement,
               Serial!NoStatement


(* A session asks for a statement. *)
LEMMA AskMaps ==
  ASSUME NEW s \in Sessions, NEW stmt, stmt # NoStatement,
         \A r \in Sessions \ {s} : sess'[r] = sess[r],
         Asked(s) = NoStatement, Asked(s)' = stmt,
         UNCHANGED <<Told, Durable, SerialTx>>
  PROVE Serial!Ask(s)
<1>1. /\ SerialAsked[s] = NoStatement /\ SerialAsked'[s] = stmt
      /\ SerialAsked' = [SerialAsked EXCEPT ![s] = stmt]
  BY AskedIs, AskedChanges
<1>2. /\ SerialAsked[s] = Serial!NoStatement /\ SerialAsked'[s] # Serial!NoStatement
      /\ SerialAsked' = [SerialAsked EXCEPT ![s] = SerialAsked'[s]]
  BY <1>1 DEF NoStatement, Serial!NoStatement
<1>3. QED  BY <1>2 DEF Serial!Ask, SerialTx, Durable, SerialAsked

(* A statement fails without a trace. *)
LEMMA FailMaps ==
  ASSUME NEW s \in Sessions, NEW stmt, stmt # NoStatement,
         \A r \in Sessions \ {s} : sess'[r] = sess[r],
         Asked(s) = stmt, Asked(s)' = NoStatement,
         Durable' = Durable \/ \E d \in Serial!Executions(stmt, Told) :
                                 Durable' = Unconstrained(d),
         UNCHANGED <<Told, SerialTx>>
  PROVE Serial!Fail(s)
<1>1. /\ SerialAsked[s] = stmt
      /\ SerialAsked' = [SerialAsked EXCEPT ![s] = NoStatement]
  BY AskedIs, AskedChanges
<1>2. /\ SerialAsked[s] # Serial!NoStatement
      /\ SerialAsked' = [SerialAsked EXCEPT ![s] = Serial!NoStatement]
  BY <1>1 DEF NoStatement, Serial!NoStatement
<1>3. Durable' \in {Durable} \cup
        {Unconstrained(d) : d \in Serial!Executions(SerialAsked[s], Told)}
  BY <1>1
<1>4. QED  BY <1>2, <1>3 DEF Serial!Fail, SerialTx, Durable, SerialAsked

(* Whether a statement defines, drops or rewrites. *)
LEMMA StatementMaps ==
  ASSUME Inv, Inv', StatementsDo, NEW s \in Sessions,
         Define(s) \/ Drop(s) \/ Rewrite(s)
  PROVE \/ Serial!Ask(s) \/ Serial!Fail(s)
        \/ UNCHANGED <<Told, Durable, SerialTx, SerialAsked>>
<1>1. CASE Waits(s) /\ Resolves(s)
  <2>1. UNCHANGED <<Told, Durable, SerialTx>>
    BY <1>1, WaitingMaps
  <2>2. \A r \in Sessions \ {s} : sess'[r] = sess[r]
    BY <1>1 DEF Waits
  <2>3. CASE /\ sess[s].pc = "idle" /\ sess'[s].pc = "updating"
             /\ sess'[s].stmt.op = "update"
    <3>1. Asked(s) = NoStatement /\ Asked(s)' = sess'[s].stmt
      BY <2>3, AskedIs
    <3>2. sess'[s].stmt # NoStatement
      BY <2>3 DEF NoStatement
    <3>3. QED  BY <2>1, <2>2, <3>1, <3>2, AskMaps
  <2>4. CASE sess[s].pc = "updating" /\ sess'[s].pc = "idle"
    <3>1. Asked(s) = sess[s].stmt /\ Asked(s)' = NoStatement
      BY <2>4, AskedIs
    <3>2. sess[s].stmt # NoStatement
      BY <2>4 DEF StatementsDo, StatementDoes, NoStatement
    <3>3. QED  BY <2>1, <2>2, <3>1, <3>2, FailMaps
  <2>5. QED  BY <1>1, <2>3, <2>4 DEF Resolves
<1>2. ASSUME Pends(s), NEW stmt, Does(s, stmt),
             sess[s].pc = "idle" \/ (sess[s].pc = "updating" /\ sess[s].stmt = stmt)
      PROVE  Serial!Ask(s) \/ UNCHANGED <<Told, Durable, SerialTx, SerialAsked>>
  <2>1. UNCHANGED <<Told, Durable, SerialTx>>
    BY <1>2, PendingMaps
  <2>2. \A r \in Sessions \ {s} : sess'[r] = sess[r]
    BY <1>2 DEF Pends
  <2>3. Asked(s)' = stmt /\ stmt # NoStatement
    BY <1>2, AskedIs DEF Pends, Does
  <2>4. CASE sess[s].pc = "idle"
    BY <2>1, <2>2, <2>3, <2>4, AskedIs, AskMaps
  <2>5. CASE sess[s].pc = "updating" /\ sess[s].stmt = stmt
    BY <2>1, <2>2, <2>3, <2>5, AskedIs, AskedChanges
  <2>6. QED  BY <1>2, <2>4, <2>5
<1>3. QED  BY <1>1, <1>2, StatementDone

(* What a flush is about to publish, and what it publishes when nothing    *)
(* has changed.                                                            *)
LEMMA FlushPublishes ==
  ASSUME Inv, StatementsDo, NEW s \in Sessions, sess[s].pc = "applied"
  PROVE /\ Asked(s) = sess[s].stmt
        /\ Told = CatalogOf(Undone(s, tables), FormerViews(s))
        /\ CatalogOf(Stored(s), views) = CatalogOf(tables, views)
        /\ Asked(s) # NoStatement =>
             CatalogOf(tables, views) \in Serial!Executions(Asked(s), Told)
        /\ Asked(s) = NoStatement => ~sess[s].changes
<1>1. Told = CatalogOf(Undone(s, tables), FormerViews(s)) /\ Asked(s) = sess[s].stmt
  BY ToldIs, AskedIs
<1>2. CatalogOf(Stored(s), views) = CatalogOf(tables, views)
  BY FlushFinds, SameCatalog
<1>3. \/ sess[s].stmt = NoStatement /\ ~sess[s].changes
      \/ sess[s].stmt # NoStatement /\ Executed(s)
  BY DEF StatementsDo, StatementDoes
<1>4. QED  BY <1>1, <1>2, <1>3 DEF Executed

LEMMA UnchangedTold ==
  ASSUME Inv, NEW s \in Sessions, sess[s].pc = "applied", ~sess[s].changes
  PROVE Told = CatalogOf(Stored(s), views)
<1>0. /\ TypeOK /\ Undoable(s) /\ views \in Views
      /\ \A n \in Names : /\ Stored(s)[n].cols = tables[n].cols
                           /\ Stored(s)[n].unique = tables[n].unique
                           /\ Stored(s)[n].rows = tables[n].rows
  BY FlushFinds
<1>1. sess[s].ns = {} /\ sess[s].count = 0
  BY <1>0 DEF Undoable
<1>2. Told = CatalogOf(Undone(s, tables), FormerViews(s))
  BY ToldIs
<1>3. FormerViews(s) = views
  BY <1>0, <1>1 DEF FormerViews
<1>4. ASSUME NEW n \in Names
      PROVE /\ Undone(s, tables)[n].cols = tables[n].cols
            /\ Undone(s, tables)[n].unique = tables[n].unique
            /\ Undone(s, tables)[n].rows = tables[n].rows
  <2>1. tables[n] \in Table
    BY <1>0 DEF TypeOK
  <2>2. Undone(s, tables)[n] = IF n \in sess[s].rewrites THEN Cut(tables[n], 0)
                               ELSE tables[n]
    BY <1>1 DEF Undone, Cut
  <2>3. /\ Cut(tables[n], 0).cols = tables[n].cols
        /\ Cut(tables[n], 0).unique = tables[n].unique
        /\ Cut(tables[n], 0).rows = SubSeq(tables[n].rows, 1, Len(tables[n].rows) - 0)
    BY <2>1, CutTable
  <2>4. SubSeq(tables[n].rows, 1, Len(tables[n].rows) - 0) = tables[n].rows
    <3>1. /\ tables[n].cols \in Layouts \cup {<<>>}
          /\ tables[n].rows \in Contents(tables[n].cols)
      BY <2>1, TableParts
    <3>2. tables[n].rows \in Seq([1 .. Len(tables[n].cols) -> Cells])
      BY <3>1, ContentsAre
    <3>3. QED  BY <3>2
  <2>5. QED  BY <2>2, <2>3, <2>4
<1>5. CatalogOf(Undone(s, tables), views) = CatalogOf(Stored(s), views)
  BY <1>0, <1>4, SameCatalog
<1>6. QED  BY <1>2, <1>3, <1>5

LEMMA ImageDurable ==
  ASSUME Inv, NEW s \in Sessions, sess[s].pc = "applied",
         disk' = Image(Stored(s), views)
  PROVE Durable' = Unconstrained(CatalogOf(Stored(s), views))
<1>1. CatalogOf([n \in Names |-> Loaded(Image(Stored(s), views).tables[n])],
                Image(Stored(s), views).views)
        = Unconstrained(CatalogOf(Stored(s), views))
  BY FlushFinds, RestartFinds
<1>2. Durable' = CatalogOf([n \in Names |-> Loaded(disk'.tables[n])], disk'.views)
  BY DEF Durable, CatalogOf, Loaded, Restrict
<1>3. QED  BY <1>1, <1>2

(* The catalog is written once more. *)
LEMMA ResaveMaps ==
  ASSUME UNCHANGED <<Told, SerialTx, SerialAsked>>, Durable' = Unconstrained(Told)
  PROVE Serial!Resave
BY DEF Serial!Resave, SerialTx, Durable, SerialAsked

LEMMA FlushFailsMaps ==
  ASSUME Inv, Inv', StatementsDo, NEW s \in Sessions, FlushFails(s)
  PROVE \/ Serial!Fail(s) \/ Serial!Resave
        \/ UNCHANGED <<Told, Durable, SerialTx, SerialAsked>>
<1>1. /\ sess[s].pc = "applied" /\ views' = FormerViews(s)
      /\ tables' \in {Undone(s, tables), Undone(s, Stored(s))}
      /\ disk' \in {disk, Image(Stored(s), views)}
      /\ sess' = [sess EXCEPT ![s] = Idle]
      /\ UNCHANGED <<tx, writers>>
  BY DEF FlushFails, FormerViews
<1>2. /\ Asked(s) = sess[s].stmt
      /\ Told = CatalogOf(Undone(s, tables), FormerViews(s))
      /\ CatalogOf(Stored(s), views) = CatalogOf(tables, views)
      /\ Asked(s) # NoStatement =>
           CatalogOf(tables, views) \in Serial!Executions(Asked(s), Told)
      /\ Asked(s) = NoStatement => ~sess[s].changes
  BY <1>1, FlushPublishes
<1>3. TypeOK /\ Holds(s) /\ Undoable(s)
  BY <1>1, FlushFinds
<1>4. /\ \A r \in Sessions : sess'[r].pc \notin {"applied", "restoring"}
      /\ \A r \in Sessions \ {s} : sess'[r] = sess[r]
      /\ sess'[s].pc = "idle"
  <2>1. Idle \in Session /\ Idle.pc = "idle"
    BY IdleTyped DEF Idle
  <2>2. QED  BY <1>1, <1>3, <2>1, LockReleased
<1>5. Told' = CatalogOf(tables', views')
  BY <1>4, ToldWillBe
<1>6. CatalogOf(tables', FormerViews(s)) = Told
  <2>1. CASE tables' = Undone(s, tables)
    BY <1>2, <2>1
  <2>2. CASE tables' = Undone(s, Stored(s))
    <3>1. CatalogOf(Undone(s, Stored(s)), FormerViews(s))
            = CatalogOf(Undone(s, tables), FormerViews(s))
      BY <1>3, UndoneStored, SameCatalog
    <3>2. QED  BY <1>2, <2>2, <3>1
  <2>3. QED  BY <1>1, <2>1, <2>2
<1>7. Told' = Told /\ SerialTx' = SerialTx
  BY <1>1, <1>5, <1>6, DurableSame
<1>8. Durable' = Durable \/ Durable' = Unconstrained(CatalogOf(tables, views))
  BY <1>1, <1>2, DurableSame, ImageDurable
<1>9. Asked(s)' = NoStatement
  BY <1>4, AskedIs
<1>10. CASE Asked(s) # NoStatement
  BY <1>2, <1>4, <1>7, <1>8, <1>9, <1>10, FailMaps
<1>11. CASE Asked(s) = NoStatement
  <2>1. SerialAsked' = SerialAsked
    BY <1>4, <1>9, <1>11, AskedChanges
  <2>2. Told = CatalogOf(tables, views)
    BY <1>1, <1>2, <1>11, UnchangedTold
  <2>3. QED  BY <1>7, <1>8, <2>1, <2>2, ResaveMaps
<1>12. QED  BY <1>10, <1>11

(* A successful flush: the statement is executed, or a rollback is saved. *)
LEMMA PublishMaps ==
  ASSUME Inv, Inv', StatementsDo, NEW s \in Sessions, Publish(s)
  PROVE Serial!Execute(s) \/ Serial!Resave
<1> DEFINE st == [sess[s] EXCEPT !.pc = "published"]
<1>1. /\ sess[s].pc = "applied" /\ tables' = Stored(s)
      /\ disk' = Image(Stored(s), views)
      /\ writers' = IF tx # NoTx /\ sess[s].changes THEN writers \cup {s} ELSE writers
      /\ sess' = [sess EXCEPT ![s] = st]
      /\ UNCHANGED <<views, tx>>
  BY DEF Publish
<1>2. TypeOK /\ Holds(s)
  BY <1>1, FlushFinds
<1>3. /\ Asked(s) = sess[s].stmt
      /\ CatalogOf(Stored(s), views) = CatalogOf(tables, views)
      /\ Asked(s) # NoStatement =>
           CatalogOf(tables, views) \in Serial!Executions(Asked(s), Told)
      /\ Asked(s) = NoStatement => ~sess[s].changes
  BY <1>1, FlushPublishes
<1>4. /\ \A r \in Sessions : sess'[r].pc \notin {"applied", "restoring"}
      /\ \A r \in Sessions \ {s} : sess'[r] = sess[r]
      /\ sess'[s].pc = "published"
  <2>1. sess[s] \in Session
    BY <1>2 DEF TypeOK
  <2>2. st \in Session /\ st.pc = "published"
    BY <2>1 DEF Session
  <2> HIDE DEF st
  <2>3. /\ sess'[s] = st
        /\ \A r \in Sessions \ {s} :
             sess'[r] = sess[r] /\ sess'[r].pc \in {"idle", "updating"}
    BY <1>1, <1>2, <2>2, LockReleased
  <2>4. QED  BY <2>2, <2>3
<1>5. Told' = CatalogOf(tables, views)
  <2>1. Told' = CatalogOf(tables', views')
    BY <1>4, ToldWillBe
  <2>2. QED  BY <1>1, <1>3, <2>1
<1>6. Durable' = Unconstrained(Told')
  BY <1>1, <1>3, <1>5, ImageDurable
<1>7. Asked(s)' = NoStatement
  BY <1>4, AskedIs
<1>8. \/ SerialTx' = IF SerialTx = NoTx THEN NoTx
                     ELSE [SerialTx EXCEPT !.writers = @ \cup {s}]
      \/ Told' = Told /\ SerialTx' = SerialTx
  <2>1. CASE sess[s].changes /\ tx = NoTx
    BY <1>1, <2>1 DEF SerialTx
  <2>2. CASE sess[s].changes /\ tx # NoTx
    <3>1. /\ SerialTx = [owner |-> SerialTx.owner, base |-> SerialTx.base,
                         writers |-> SerialTx.writers]
          /\ SerialTx.owner = tx.owner /\ SerialTx.writers = writers
          /\ SerialTx.base = CatalogOf(tx.tables, tx.views)
          /\ SerialTx # NoTx
      BY <2>2, OpenTx
    <3>2. SerialTx' = [owner |-> tx.owner, base |-> CatalogOf(tx.tables, tx.views),
                       writers |-> writers \cup {s}]
      BY <1>1, <2>2 DEF SerialTx, CatalogOf
    <3> HIDE DEF SerialTx
    <3>3. QED  BY <3>1, <3>2
  <2>3. CASE ~sess[s].changes
    <3>1. Told = CatalogOf(tables, views)
      BY <1>1, <1>3, <2>3, UnchangedTold
    <3>2. QED  BY <1>1, <1>5, <2>3, <3>1, DurableSame
  <2>4. QED  BY <1>2, <2>1, <2>2, <2>3, SessionParts
<1>9. CASE Asked(s) # NoStatement
  <2>1. /\ SerialAsked[s] = Asked(s)
        /\ SerialAsked' = [SerialAsked EXCEPT ![s] = NoStatement]
    BY <1>4, <1>7, AskedIs, AskedChanges
  <2>2. /\ SerialAsked[s] # Serial!NoStatement
        /\ Told' \in Serial!Executions(SerialAsked[s], Told)
        /\ SerialAsked' = [SerialAsked EXCEPT ![s] = Serial!NoStatement]
    BY <1>3, <1>5, <1>9, <2>1 DEF NoStatement, Serial!NoStatement
  <2>3. QED  BY <1>6, <1>8, <2>2 DEF Serial!Execute, SerialTx, Durable, SerialAsked
<1>10. CASE Asked(s) = NoStatement
  <2>1. ~sess[s].changes
    BY <1>3, <1>10
  <2>2. Told = CatalogOf(tables, views)
    BY <1>1, <1>3, <2>1, UnchangedTold
  <2>3. SerialTx' = SerialTx
    BY <1>1, <2>1, DurableSame
  <2>4. SerialAsked' = SerialAsked
    BY <1>4, <1>7, <1>10, AskedChanges
  <2>5. QED  BY <1>5, <1>6, <2>2, <2>3, <2>4, ResaveMaps
<1>11. QED  BY <1>9, <1>10

(* Steps that leave the statements asked for as they are. *)
LEMMA AcknowledgeAsks ==
  ASSUME TypeOK, NEW s \in Sessions, Acknowledge(s) \/ RestoreViews(s),
         StatementsDo
  PROVE SerialAsked' = SerialAsked
<1>1. PICK st \in {Idle, [sess[s] EXCEPT !.pc = "applied"]} :
        /\ sess' = [sess EXCEPT ![s] = st]
        /\ \/ sess[s].pc = "published" /\ st = Idle
           \/ sess[s].pc = "restoring" /\ st = [sess[s] EXCEPT !.pc = "applied"]
  BY DEF Acknowledge, RestoreViews
<1>2. sess'[s] = st /\ \A r \in Sessions \ {s} : sess'[r] = sess[r]
  BY <1>1 DEF TypeOK
<1>3. Asked(s) = NoStatement
  BY <1>1, AskedIs
<1>4. Asked(s)' = NoStatement
  <2>1. CASE st = Idle
    BY <1>2, <2>1, AskedIs DEF Idle
  <2>2. CASE sess[s].pc = "restoring" /\ st = [sess[s] EXCEPT !.pc = "applied"]
    <3>1. sess[s].stmt = NoStatement /\ sess[s] \in Session
      BY <2>2 DEF StatementsDo, StatementDoes, TypeOK
    <3>2. st.stmt = NoStatement /\ st.pc = "applied"
      BY <2>2, <3>1 DEF Session
    <3>3. QED  BY <1>2, <3>2, AskedIs
  <2>3. QED  BY <1>1, <2>1, <2>2
<1>5. QED  BY <1>2, <1>3, <1>4, AskedChanges

LEMMA NextMaps ==
  Inv /\ Inv' /\ StatementsDo /\ [Next]_vars => [Serial!Next]_(Serial!vars)
<1> DEFINE Stutters == UNCHANGED <<Told, Durable, SerialTx, SerialAsked>>
<1> SUFFICES ASSUME Inv, Inv', StatementsDo, [Next]_vars
             PROVE Serial!Next \/ Stutters
  BY DEF Serial!vars, Durable, SerialTx, SerialAsked
<1>1. ASSUME NEW s \in Sessions, Define(s) \/ Drop(s) \/ Rewrite(s)
      PROVE  Serial!Next \/ Stutters
  BY <1>1, StatementMaps DEF Serial!Next
<1>2. ASSUME NEW s \in Sessions, Flush(s)
      PROVE  Serial!Next \/ Stutters
  <2>1. CASE Acknowledge(s)
    BY <2>1, AcknowledgeMaps, AcknowledgeAsks DEF Inv
  <2>2. CASE Publish(s) \/ FlushFails(s)
    BY <2>2, PublishMaps, FlushFailsMaps DEF Serial!Next
  <2>3. QED  BY <1>2, <2>1, <2>2 DEF Flush
<1>3. ASSUME NEW s \in Sessions, Transaction(s)
      PROVE  Serial!Next \/ Stutters
  <2>1. CASE RestoreViews(s)
    BY <2>1, RestoreViewsMaps, AcknowledgeAsks DEF Inv
  <2>2. CASE Begin(s) \/ Commit(s) \/ Rollback(s) \/ RollbackRefused(s)
    BY <2>2, BeginMaps, CommitMaps, RollbackMaps DEF Serial!Next
  <2>3. QED  BY <1>3, <2>1, <2>2 DEF Transaction
<1>4. CASE Reopen
  BY <1>4, ReopenMaps DEF Serial!Next
<1>5. CASE UNCHANGED vars
  <2>1. UNCHANGED <<tables, views, disk, tx, sess, writers>>
    BY <1>5 DEF vars
  <2>2. Told' = Told
    BY <2>1, ToldSame
  <2>3. SerialAsked' = SerialAsked
    BY <2>1, AskedIs, AskedSame
  <2>4. QED  BY <2>1, <2>2, <2>3, DurableSame
<1>6. QED  BY <1>1, <1>2, <1>3, <1>4, <1>5 DEF Next

(* The sessions, the lock and the flushes implement the serial catalog: a  *)
(* statement does what it was asked to, to the catalog of the instant of   *)
(* its flush, completely and durably, or nothing that a session is told    *)
(* of, whatever fails and whoever interferes; a rollback brings back the   *)
(* catalog of BEGIN or, when another session has changed it, nothing.  The *)
(* position an UPDATE assigns is the one it resolved, and reads are not    *)
(* part of the claim.                                                      *)
THEOREM SerialCatalogIsImplemented == Spec => ImplementsSerial
<1>1. Inv /\ Inv' /\ StatementsDo /\ [Next]_vars => [Serial!Next]_(Serial!vars)
  BY NextMaps
<1>2. Init => Serial!Init
  BY InitMaps
<1>3. QED  BY <1>1, <1>2, Invariance, StatementsAreDone, PTL
           DEF Spec, ImplementsSerial, Serial!Spec
=============================================================================
