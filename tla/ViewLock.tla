------------------------------ MODULE ViewLock ------------------------------
(***************************************************************************)
(* The read-write lock around DocumentStore.views: a SELECT resolves the   *)
(* relations it reads one after the other, among them views, while         *)
(* statements of other sessions create, replace and drop views             *)
(* (src/sql/scan.rs, src/sql/ddl.rs).  A SELECT holds the read guard of    *)
(* every view it is resolving until that view's own query has been         *)
(* executed, and no guard between two relations of its own.                *)
(***************************************************************************)
EXTENDS Naturals, Sequences, Functions

CONSTANTS
  Sessions,
  Names,   \* names of views and custom tables
  Builtin, \* blocks, documents and links, which need no lock
  Queries, \* the relations a SELECT reads, in the order in which it does
  NoView

Sources == Names \cup {Builtin}

ASSUME NamesAssumption ==
  Builtin \notin Names /\ Queries \subseteq Seq(Sources) /\ NoView \notin Queries

VARIABLES
  views, \* DocumentStore.views
  sess   \* sess[s]: the statement session s is executing

vars == <<views, sess>>

(* Views being resolved, one in the query of the other, none of them twice. *)
Paths == {p \in Seq(Names) : IsInjective(p)}

Session ==
  [pc : {"idle", "select", "change", "flush", "undo"},
   path : Paths, \* SELECT: view_stack, with one read guard for each view
   todo : Seq(Seq(Sources)), \* what the SELECT has yet to read, and then
                             \* what the query of each view on path has
   name : Sources, \* the view to change
   def : Queries \cup {NoView}] \* the definition it is to get, later the
                                \* one it had
Idle == [pc |-> "idle", path |-> <<>>, todo |-> <<>>, name |-> Builtin,
         def |-> NoView]

(* Mutated form: a waiting writer does not hold up new readers. *)
ReadLockableReaderFirst == TRUE

(* RwLock::read does not block.  It does while a writer waits, even when   *)
(* the calling thread already holds a read guard.                          *)
ReadLockable == \A s \in Sessions : sess[s].pc \notin {"change", "undo"}

(* Mutated form: the read guard of a view is released before its query is  *)
(* executed, so that nothing holds up a writer.                            *)
WriteLockableUnguarded == TRUE

(* RwLock::write does not block. *)
WriteLockable == \A s \in Sessions : sess[s].path = <<>>

(* A SELECT begins: materialise_from_with_hint. *)
Select(s, q) ==
  /\ sess[s].pc = "idle"
  /\ sess' = [sess EXCEPT ![s] = [Idle EXCEPT !.pc = "select", !.todo = <<q>>]]
  /\ UNCHANGED views

(* What the innermost query of the SELECT has yet to read, the relation it *)
(* reads next, and what is then left.                                      *)
Reading(s) == sess[s].todo[Len(sess[s].todo)]
Reads(s, n) == sess[s].pc = "select" /\ Reading(s) # <<>> /\ n = Head(Reading(s))
Remaining(s) == [sess[s].todo EXCEPT ![Len(sess[s].todo)] = Tail(@)]

(* It is a view: the view's query is executed under the guard. *)
ResolveView(s, n) ==
  /\ Reads(s, n) /\ n # Builtin
  /\ ReadLockable
  /\ views[n] # NoView
  /\ n \notin Range(sess[s].path)
  /\ sess' = [sess EXCEPT ![s].path = Append(@, n),
                          ![s].todo = Append(Remaining(s), views[n])]
  /\ UNCHANGED views

(* It is a custom table or built in: its rows are read. *)
ReadRows(s, n) ==
  /\ Reads(s, n)
  /\ n # Builtin => ReadLockable /\ views[n] = NoView
  /\ sess' = [sess EXCEPT ![s].todo = Remaining(s)]
  /\ UNCHANGED views

(* The query of a view has been executed: its guard is released. *)
LeaveView(s) ==
  /\ sess[s].pc = "select" /\ Reading(s) = <<>>
  /\ sess[s].path # <<>>
  /\ LET k == Len(sess[s].path)
     IN sess' = [sess EXCEPT ![s].path = SubSeq(@, 1, k - 1),
                             ![s].todo = SubSeq(@, 1, k)]
  /\ UNCHANGED views

(* The SELECT returns, at its end or with an error, which an unknown name, *)
(* a circular reference and the evaluation of a query can raise.  It drops *)
(* all its guards.                                                         *)
EndSelect(s) ==
  /\ sess[s].pc = "select"
  /\ \/ Reading(s) = <<>>
     \/ \E n \in Names : /\ Reads(s, n)
                         /\ ReadLockable
                         /\ views[n] = NoView \/ n \in Range(sess[s].path)
  /\ sess' = [sess EXCEPT ![s] = Idle]
  /\ UNCHANGED views

(* exec_create_view or exec_drop_views has taken catalog_commit and asks   *)
(* for the write guard.                                                    *)
ChangeView(s, n, d) ==
  /\ sess[s].pc = "idle"
  /\ \A x \in Sessions : sess[x].pc \in {"idle", "select"}
  /\ sess' = [sess EXCEPT ![s] = [Idle EXCEPT !.pc = "change", !.name = n,
                                              !.def = d]]
  /\ UNCHANGED views

(* It gets the guard, changes the map and releases the guard. *)
Write(s) ==
  /\ sess[s].pc = "change" /\ WriteLockable
  /\ views' = [views EXCEPT ![sess[s].name] = sess[s].def]
  /\ sess' = [sess EXCEPT ![s].pc = "flush", ![s].def = views[sess[s].name]]

(* The catalog is flushed, or that fails and the view is to be restored. *)
Flush(s) ==
  /\ sess[s].pc = "flush"
  /\ sess' \in {[sess EXCEPT ![s] = Idle], [sess EXCEPT ![s].pc = "undo"]}
  /\ UNCHANGED views

Undo(s) ==
  /\ sess[s].pc = "undo" /\ WriteLockable
  /\ views' = [views EXCEPT ![sess[s].name] = sess[s].def]
  /\ sess' = [sess EXCEPT ![s] = Idle]

Init ==
  /\ views = [n \in Names |-> NoView]
  /\ sess = [s \in Sessions |-> Idle]

Read(s) ==
  \/ \E n \in Sources : ResolveView(s, n) \/ ReadRows(s, n)
  \/ LeaveView(s) \/ EndSelect(s)
Change(s) == Write(s) \/ Flush(s) \/ Undo(s)

Next == \E s \in Sessions :
  \/ \E q \in Queries : Select(s, q)
  \/ \E n \in Names, d \in Queries \cup {NoView} : ChangeView(s, n, d)
  \/ Read(s)
  \/ Change(s)

(* A thread that can proceed does.  A reader is woken whenever a writer    *)
(* releases the lock, and is not overtaken by the next writer each time:   *)
(* that one has to take catalog_commit and check its statement first.      *)
Fairness == \A s \in Sessions : SF_vars(Read(s)) /\ WF_vars(Change(s))

Spec == Init /\ [][Next]_vars /\ Fairness
-----------------------------------------------------------------------------
(* Properties *)

(* Every variable holds a value of its declared range; in particular no    *)
(* SELECT is resolving a view within itself, whoever redefines it          *)
(* meanwhile (exec_view_query).                                            *)
TypeOK ==
  /\ views \in [Names -> Queries \cup {NoView}]
  /\ sess \in [Sessions -> Session]
  /\ \A s \in Sessions :
       /\ sess[s].pc \in {"change", "flush", "undo"} => sess[s].name \in Names
       /\ IF sess[s].pc = "select"
          THEN Len(sess[s].todo) = Len(sess[s].path) + 1
          ELSE sess[s].path = <<>>

(* While a SELECT resolves one of the relations it names, the definitions  *)
(* it has followed from that one through nested views are those in force:  *)
(* the query of each view on its path is reading what the definition of    *)
(* now says, and is at the reference to the next one                       *)
(* (table_rows_unqualified).  Nothing is claimed about two relations of    *)
(* the SELECT itself, FROM v JOIN w: the guard is released between them    *)
(* (materialise_from_with_hint), and w may be redefined after v was read.  *)
PathInForce == \A s \in Sessions : \A i \in DOMAIN sess[s].path :
  LET p == sess[s].path
      q == views[p[i]]
  IN /\ q \in Queries
     /\ \E k \in 0 .. Len(q) :
          /\ sess[s].todo[i + 1] = SubSeq(q, k + 1, Len(q))
          /\ i < Len(p) => k > 0 /\ p[i + 1] = q[k]

Ends(s) == sess[s].pc # "idle" ~> sess[s].pc = "idle"

(* While views select from blocks, documents and links only, every         *)
(* statement ends: readers cannot keep a CREATE VIEW waiting forever.      *)
FlatViewsEnd ==
  [](\A n \in Names : views[n] = NoView \/ Range(views[n]) \subseteq {Builtin})
    => \A s \in Sessions : Ends(s)

(* "A view is not materialized: its SELECT re-runs on every reference"     *)
(* (docs, sql-ddl), and then returns.                                      *)
StatementsEnd == \A s \in Sessions : Ends(s)
=============================================================================
