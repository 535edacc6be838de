---------------------------- MODULE SelectQuery ----------------------------
(***************************************************************************)
(* A SELECT statement with its WITH clause (exec_query, exec_cte_body and  *)
(* exec_recursive_cte of src/sql/query.rs): the CTEs are materialised one  *)
(* after the other, a recursive one by rounds that read only the rows the  *)
(* round before added, and the body runs with all of them in scope.        *)
(***************************************************************************)
EXTENDS SqlSelect

CONSTANTS
  Cases,      \* families of statements, with the tables each is run on
  MaxRounds   \* MAX_RECURSIVE_CTE_ITERATIONS

ASSUME RoundsArePositive == MaxRounds \in Nat \ {0}

VARIABLES
  tables,  \* the tables, by name
  stmt,    \* the statement: a query, with "recursive" for its WITH
  at,      \* the CTE that comes next
  ctes,    \* the outputs of the CTEs in scope
  loop,    \* the recursive CTE under way, or Idle
  phase,   \* "with", "done" or "refused"
  result   \* the statement's output

vars == <<tables, stmt, at, ctes, loop, phase, result>>

Env == [tables |-> tables, ctes |-> ctes]
Idle == [cols |-> <<>>, rows |-> <<>>, working |-> <<>>, rounds |-> -1]

References(s, name) ==
  \E i \in DOMAIN s.from :
    \/ s.from[i].item.table = name
    \/ \E j \in DOMAIN s.from[i].joins : s.from[i].joins[j].item.table = name

\* <anchor> UNION [ALL] <term that reads the CTE> under WITH RECURSIVE.
IsRecursive(cte) ==
  LET b == cte.q.body
  IN  /\ stmt.recursive
      /\ b.kind = "set" /\ b.op = "union"
      /\ b.left.kind = "select" /\ b.right.kind = "select"
      /\ References(b.right, cte.name)

Cte == stmt.with[at]

\* Mutated form: the rounds are only compared with the round before.
FreshOfRound(rows, l, all) ==
  KeptAt(rows, LAMBDA i :
    all \/ (/\ rows[i] \notin Range(l.working)
            /\ \A j \in 1..(i - 1) : rows[j] # rows[i]))

\* The rows of a round that are new: all of them under UNION ALL.
Fresh(rows, l, all) ==
  KeptAt(rows, LAMBDA i :
    all \/ (/\ rows[i] \notin Range(l.rows)
            /\ \A j \in 1..(i - 1) : rows[j] # rows[i]))

Refuse ==
  /\ phase' = "refused"
  /\ UNCHANGED <<tables, stmt, at, ctes, loop, result>>

-----------------------------------------------------------------------------
TakeCte ==
  /\ phase = "with" /\ loop = Idle /\ at <= Len(stmt.with)
  /\ ~IsRecursive(Cte)
  /\ \E out \in {RunQuery(Cte.q, Env)} :
       IF ~out.ok THEN Refuse
       ELSE /\ ctes' = Bind(Env, Cte.name, out).ctes
            /\ at' = at + 1
            /\ UNCHANGED <<tables, stmt, loop, phase, result>>

\* The anchor runs once; it must not read the CTE itself.
Anchor ==
  /\ phase = "with" /\ loop = Idle /\ at <= Len(stmt.with)
  /\ IsRecursive(Cte)
  /\ IF References(Cte.q.body.left, Cte.name) THEN Refuse
     ELSE \E out \in {RunBody(Cte.q.body.left, Env)} :
       IF ~out.ok THEN Refuse
       ELSE /\ loop' = [cols |-> out.cols, rows |-> out.rows,
                        working |-> out.rows, rounds |-> 0]
            /\ UNCHANGED <<tables, stmt, at, ctes, phase, result>>

\* One round: the term reads only the rows that the last round added.
Iterate ==
  /\ phase = "with" /\ loop # Idle /\ loop.working # <<>>
  /\ loop.rounds < MaxRounds
  /\ \E out \in {RunBody(Cte.q.body.right,
                      Bind(Env, Cte.name, Output(loop.cols, loop.working)))} :
       IF ~out.ok \/ Len(out.cols) # Len(loop.cols) THEN Refuse
       ELSE LET fresh == Fresh(out.rows, loop, Cte.q.body.all)
            IN  /\ loop' = [loop EXCEPT !.rows = @ \o fresh,
                                        !.working = fresh, !.rounds = @ + 1]
                /\ UNCHANGED <<tables, stmt, at, ctes, phase, result>>

Overrun ==
  /\ phase = "with" /\ loop # Idle /\ loop.working # <<>>
  /\ loop.rounds = MaxRounds
  /\ Refuse

EndLoop ==
  /\ phase = "with" /\ loop # Idle /\ loop.working = <<>>
  /\ ctes' = Bind(Env, Cte.name, Output(loop.cols, loop.rows)).ctes
  /\ at' = at + 1
  /\ loop' = Idle
  /\ UNCHANGED <<tables, stmt, phase, result>>

Body ==
  /\ phase = "with" /\ at > Len(stmt.with)
  /\ result' = RunQueryBody(stmt, Env)
  /\ phase' = IF result'.ok THEN "done" ELSE "refused"
  /\ UNCHANGED <<tables, stmt, at, ctes, loop>>

Init ==
  /\ \E i \in DOMAIN Cases :
       tables \in Cases[i].tables /\ stmt \in Cases[i].stmts
  /\ at = 1
  /\ ctes = <<>>
  /\ loop = Idle
  /\ phase = "with"
  /\ result = Output(<<>>, <<>>)

Next == TakeCte \/ Anchor \/ Iterate \/ Overrun \/ EndLoop \/ Body

Spec == Init /\ [][Next]_vars

-----------------------------------------------------------------------------
(* What a statement means, without hash tables, folding, texts and sorts.  *)

\* The rows of a table, or of a CTE that is a copy of it: a cell of a CTE
\* is what its text is read back as.
SourceRows(item) ==
  LET copies == {i \in DOMAIN stmt.with : stmt.with[i].name = item.table}
      Back(vals) == Each(Texts(vals), ParseDisplayValue)
      t == tables[IF copies = {} THEN item.table
                  ELSE stmt.with[Min(copies)].q.body.from[1].item.table]
  IN  [i \in DOMAIN t.rows |->
         Row(Qualified(t.cols, item.alias),
             IF copies = {} THEN t.rows[i] ELSE Back(t.rows[i]))]

First == SourceRows(stmt.body.from[1].item)

\* Reads one table, without joins.
ReadsOne(s) == s.kind = "select" /\ Len(s.from) = 1 /\ s.from[1].joins = <<>>

\* The rows a subquery reads that satisfy its WHERE, its own names before
\* those of the row around it.
RECURSIVE Meaning(_, _)
Matching(q, row) ==
  {r \in Range(SourceRows(q.body.from[1].item)) :
     IsTruthy(Meaning(q.body.where, CombineRows(r, row)))}
Meaning(e, row) ==
  CASE e.op = "exists" -> BoolV(Matching(e.q, row) # {})
    [] e.op = "inquery" ->
         BoolV(\E r \in Matching(e.q, row) :
           SqlEq(Meaning(e.e, row),
                 Eval(e.q.body.items[1].e, CombineRows(r, row))))
    [] e.op = "not" -> BoolV(~IsTruthy(Meaning(e.e, row)))
    [] e.op \in BinOps ->
         EvalBinary(e.op, Meaning(e.l, row), Meaning(e.r, row))
    [] OTHER -> Eval(e, row)

Satisfying == SelectSeq(First, LAMBDA row :
                IsTruthy(Meaning(stmt.body.where, row)))

\* A value that its text gives back, and that a query can be given as a
\* literal.
Survives(v) == ParseDisplayValue(Display(v)) = v /\ ValueToExpr(v) = Lit(v)
AllSurvive ==
  \A t \in DOMAIN tables : \A i \in DOMAIN tables[t].rows :
    \A v \in Range(tables[t].rows[i]) : Survives(v)
FoldsToFloat(e) ==
  \E p \in Within(e) :
    p.op # "lit" /\ IsConstant(p) /\ ~Survives(Eval(p, NoRow))

\* The order that sort_cmp is documented to be, as a number: NULL, then
\* booleans, then numbers with NaN last, then the other texts.
Class == 1000
OrderKey(v) ==
  CASE v.t = "null" -> 0
    [] v.t = "bool" -> Class + (IF v.b THEN 1 ELSE 0)
    [] v.t \in {"int", "float"} -> 3 * Class + Halves(v)
    [] v.t = "nan" -> 4 * Class - 1
    [] v.t = "str" -> IF v.s.is = "int" THEN 3 * Class + 2 * v.s.n
                      ELSE 5 * Class + TextPlace(v.s)

\* A text that another kind of value is shown as.
SpellsValue(v) ==
  v.t = "str" /\ v.s \in {Word("NULL"), Word("true"), Word("NaN")}

-----------------------------------------------------------------------------
(* Properties.                                                             *)

\* The rows of a joined with the rows of b: the pairs that satisfy the
\* condition, and for a LEFT JOIN the rows of a that are in none.
JoinMeaning ==
  LET join == stmt.body.from[1].joins[1]
      right == SourceRows(join.item)
      cols == Qualified(tables[join.item.table].cols, join.item.alias)
      Pairs(l) == SelectSeq(Each(right, LAMBDA r : CombineRows(l, r)),
                            LAMBDA row : Truthy(join.on, row))
      Joined(l) == IF join.kind = "left" /\ Pairs(l) = <<>>
                   THEN <<NullExtended(l, cols)>> ELSE Pairs(l)
  IN  Each(FlattenSeq(Each(First, Joined)), LAMBDA row : Texts(row.vals))

IsJoin ==
  /\ stmt.body.kind = "select" /\ IsStar(stmt.body.items)
  /\ stmt.body.where = Always /\ Len(stmt.body.from) = 1
  /\ Len(stmt.body.from[1].joins) = 1
  /\ stmt.body.from[1].joins[1].kind \in {"inner", "left"}

\* The condition compares columns of two names that both sides have, the
\* right side's first: find_equi_join_exprs takes them the other way round.
KeysSwapped ==
  LET join == stmt.body.from[1].joins[1]
      names == Range(tables[join.item.table].cols)
                 \cap Range(tables[stmt.body.from[1].item.table].cols)
  IN  \E c \in Range(Conjuncts(join.on)) :
        /\ c.op = "eq" /\ c.l.op = "col" /\ c.r.op = "col"
        /\ c.l.col[1] # stmt.body.from[1].item.alias
        /\ c.l.col[2] # c.r.col[2] /\ {c.l.col[2], c.r.col[2]} \subseteq names

\* The right side of a LEFT JOIN has no row to take its columns from.
NoRightColumns ==
  LET join == stmt.body.from[1].joins[1]
  IN  join.kind = "left" /\ SourceRows(join.item) = <<>>

\* A join by hashed keys gives the rows of the product that satisfy its
\* condition, in their order, and a LEFT JOIN every left row at least once,
\* whatever kinds of value meet in the keys (join.rs, hash_equi_join).  Not
\* where the keys are taken from the wrong sides, nor where an empty right
\* side leaves no columns to fill with NULL.
JoinsAreFilteredProducts ==
  phase = "done" /\ IsJoin /\ ~KeysSwapped /\ ~NoRightColumns
    => result.rows = JoinMeaning

\* join.rs says of the hash join that "results match `cross_join` +
\* `.retain(full_predicate)` exactly": without the exception for swapped
\* keys they do not.
HashJoinsMatchProducts ==
  phase = "done" /\ IsJoin /\ ~NoRightColumns => result.rows = JoinMeaning

\* WHERE keeps the rows that satisfy the predicate as written: neither
\* folding its constants, nor running its subqueries on the row's values
\* written out as literals, nor reading their output back from text changes
\* the answer, as long as the values survive being written and read
\* (resolve_subqueries and fold_constants).
WhereKeepsTruth ==
  (/\ phase = "done" /\ stmt.with = <<>>
   /\ ReadsOne(stmt.body) /\ ~IsAggregate(stmt.body)
   /\ stmt.order = <<>> /\ stmt.limit = Unlimited /\ stmt.offset = 0
   /\ ~stmt.body.distinct
   /\ HasSubquery(stmt.body.where) => AllSurvive
   /\ ~FoldsToFloat(stmt.body.where))
  => result.rows = Each(Satisfying, LAMBDA row :
                          ProjectRow(stmt.body.items, row))

KeysOf(row) ==
  [i \in DOMAIN stmt.order |->
     OrderKey(Eval(ResolveAlias(stmt.order[i].e, stmt.body.items), row))]

Before(x, y) ==
  \E i \in DOMAIN stmt.order :
    /\ \A j \in 1..(i - 1) : x[j] = y[j]
    /\ IF stmt.order[i].desc THEN x[i] > y[i] ELSE x[i] < y[i]

\* Where the row at i comes in the order of the keys.
Place(keys, i) ==
  Cardinality({j \in DOMAIN keys :
    Before(keys[j], keys[i]) \/ (keys[j] = keys[i] /\ j <= i)})

IsCut(rows, places) ==
  LET wanted == {i \in DOMAIN rows :
        /\ places[i] > stmt.offset
        /\ stmt.limit # Unlimited => places[i] <= stmt.offset + stmt.limit}
  IN  /\ Len(result.rows) = Cardinality(wanted)
      /\ \A i \in wanted :
           result.rows[places[i] - stmt.offset]
             = ProjectRow(stmt.body.items, rows[i])

IsSortedCut(rows, keys) == IsCut(rows, [i \in DOMAIN rows |-> Place(keys, i)])

\* ORDER BY gives the rows in the documented order of values, rows that are
\* equal in all terms in the order they were in, also under DESC; LIMIT and
\* OFFSET cut a piece out of that (apply_order_by_exprs, sort_cmp).
RowsAreSorted ==
  (/\ phase = "done" /\ ReadsOne(stmt.body) /\ ~IsAggregate(stmt.body)
   /\ stmt.order # <<>> /\ ~stmt.body.distinct)
  => IsSortedCut(Satisfying, Each(Satisfying, KeysOf))

\* GROUP BY puts two rows into a group exactly if ORDER BY holds their keys
\* equal, counts each row once, takes the least of the numbers, and leaves
\* out the groups of one row if HAVING says so.  Not for texts that spell
\* NULL or a boolean, which group with the value (aggregate.rs, aggregate).
GroupsAreClasses ==
  LET Key(row) == Eval(stmt.body.group[1], row)
      Members(row) ==
        SelectSeq(Satisfying, LAMBDA r : OrderKey(Key(r)) = OrderKey(Key(row)))
      Values(row) == Each(Members(row), LAMBDA r : r.vals[2])
      Cells(row) == <<Key(row), IntV(Len(Members(row)))>>
      Enough(row) == stmt.body.having = Always \/ Len(Members(row)) > 1
      heads == {row \in Range(Satisfying) :
                  row = Members(row)[1] /\ Enough(row)}
  IN  (/\ phase = "done" /\ ReadsOne(stmt.body) /\ Len(stmt.body.group) = 1
       /\ ~\E row \in Range(Satisfying) : SpellsValue(Key(row)))
      => /\ Len(result.rows) = Cardinality({OrderKey(Key(h)) : h \in heads})
         /\ \A h \in heads : \E i \in DOMAIN result.rows :
              /\ SubSeq(result.rows[i], 1, 2) = Texts(Cells(h))
              /\ (\A v \in Range(Values(h)) : v.t = "int")
                   => result.rows[i][3]
                        = IntText(Min({v.n : v \in Range(Values(h))}))

CountsFit(b, left, right) ==
  LET Times(m, n) ==
        CASE b.op = "union" -> m + n
          [] b.op = "intersect" -> Min({m, n})
          [] b.op = "except" -> IF b.all THEN Max({m - n, 0})
                                ELSE IF n = 0 THEN m ELSE 0
      Wanted(r) ==
        Min({Times(CountOf(r, left), CountOf(r, right)),
             IF b.all THEN Len(left) + Len(right) ELSE 1})
  IN  \A r \in Range(left) \cup Range(right) \cup Range(result.rows) :
        CountOf(r, result.rows) = Wanted(r)

\* A set operation gives each row as often as its counts on the two sides
\* say, all of them or once (combine_set_operation).
SetOperationsCount ==
  (/\ phase = "done" /\ stmt.body.kind = "set"
   /\ stmt.limit = Unlimited /\ stmt.offset = 0)
  => CountsFit(stmt.body, RunBody(stmt.body.left, Env).rows,
               RunBody(stmt.body.right, Env).rows)

\* The statement walks along edges: WITH RECURSIVE of one column, from the
\* values of a table, by joining "e" on the values of the last round.
IsWalk ==
  /\ stmt.with # <<>> /\ IsRecursive(stmt.with[1])
  /\ ReadsOne(stmt.with[1].q.body.left)
  /\ stmt.with[1].q.body.left.where = Always
  /\ ~References(stmt.with[1].q.body.left, stmt.with[1].name)
  /\ Len(stmt.with[1].q.body.right.items) = 1
  /\ ~IsStar(stmt.with[1].q.body.right.items)

After(s) ==
  {Display(r[2]) : r \in {q \in Range(tables["e"].rows) :
                            SqlEq(q[1], ParseDisplayValue(s))}}

RECURSIVE Closure(_)
Closure(nodes) ==
  LET more == nodes \cup UNION {After(s) : s \in nodes}
  IN  IF more = nodes THEN nodes ELSE Closure(more)

\* WITH RECURSIVE finds all that can be reached from the anchor's rows, each
\* new row once, and under UNION ends also where the edges form a cycle,
\* before it meets the bound on rounds; under UNION ALL it meets that bound
\* exactly if it can reach a cycle (exec_recursive_cte).  The rows of the
\* anchor itself are not compared with each other.
RecursionReaches ==
  LET cte == stmt.with[1]
      starts == {Display(tables["a"].rows[i][1]) :
                   i \in DOMAIN tables["a"].rows}
      rows == ctes[cte.name].rows
      anchors == Len(tables["a"].rows)
      cyclic == \E s \in Closure(starts) : s \in Closure(After(s))
  IN  IsWalk =>
        /\ phase = "refused" => cte.q.body.all /\ cyclic
        /\ phase = "done" =>
             /\ {rows[i][1] : i \in DOMAIN rows} = Closure(starts)
             /\ cte.q.body.all => ~cyclic
             /\ ~cte.q.body.all =>
                  \A i \in (anchors + 1)..Len(rows) :
                    \A j \in 1..(i - 1) : rows[j] # rows[i]

=============================================================================
