----------------------------- MODULE SqlSelect -----------------------------
(***************************************************************************)
(* SELECT as a whole (exec_select and exec_query_body of src/sql/query.rs, *)
(* project_and_aggregate of src/sql/aggregate.rs): the stages in their     *)
(* order, with the subqueries of WHERE run for each row, correlated by     *)
(* writing the row's values into them (src/sql/rewrite.rs).                *)
(*                                                                         *)
(* A query is [with, body, order, limit, offset]; a body is a select, a    *)
(* set operation, VALUES or a query in parentheses.                        *)
(***************************************************************************)
EXTENDS SqlStages

Always == Lit(BoolV(TRUE))     \* no WHERE, no HAVING
Star == [op |-> "star"]

Scalar(q) == [op |-> "scalar", q |-> q]
InQuery(e, q) == [op |-> "inquery", e |-> e, q |-> q]
Exists(q) == [op |-> "exists", q |-> q]
SubqueryOps == {"scalar", "inquery", "exists"}
HasSubquery(e) == \E p \in Within(e) : p.op \in SubqueryOps

-----------------------------------------------------------------------------
(* Projection, groups and aggregates.                                      *)

\* The name an output column goes by.
ColumnName(item, i) ==
  CASE item.as # "" -> item.as
    [] item.e.op = "col" -> item.e.col[2]
    [] item.e.op = "agg" -> item.e.f
    [] item.e = Star -> "*"
    [] OTHER -> <<"col", i>>

IsAggregate(s) ==
  s.group # <<>> \/ \E i \in DOMAIN s.items : s.items[i].e.op = "agg"

IsStar(items) == Len(items) = 1 /\ items[1].e = Star

OutputColumns(s, rows) ==
  IF IsStar(s.items) /\ ~IsAggregate(s)
  THEN Each(ColumnsIn(rows), LAMBDA c : c[2])
  ELSE [i \in DOMAIN s.items |-> ColumnName(s.items[i], i)]

ProjectRow(items, row) ==
  IF IsStar(items) THEN Texts(row.vals)
  ELSE Each(items, LAMBDA item : Display(Eval(item.e, row)))

\* Mutated form: groups are told apart by the values of their keys.
SameTextsByValue(k, l) == k = l

SameTexts(k, l) == Texts(k) = Texts(l)

\* Groups in the order of their first rows, each with that row's key.
AddToGroup(groups, key, row) ==
  IF ~\E g \in DOMAIN groups : SameTexts(groups[g].key, key)
  THEN Append(groups, [key |-> key, rows |-> <<row>>])
  ELSE [g \in DOMAIN groups |->
          IF SameTexts(groups[g].key, key)
          THEN [groups[g] EXCEPT !.rows = Append(@, row)] ELSE groups[g]]

GroupRows(rows, by) ==
  FoldLeft(LAMBDA groups, row :
             AddToGroup(groups, Each(by, LAMBDA e : Eval(e, row)), row),
           <<>>, rows)

\* COUNT takes NULLs in; SUM takes numbers only, not texts that spell one;
\* MIN and MAX take values that do not compare to be equal.
AggregateOf(f, vals) ==
  LET Pick(better) ==
        IF vals = <<>> THEN Null
        ELSE FoldLeft(LAMBDA m, v : IF better[CmpVal(m, v)] THEN v ELSE m,
                      vals[1], Tail(vals))
      numbers == SelectSeq(vals, LAMBDA v : v.t \in {"int", "float"})
  IN  CASE f = "count" -> IntV(Len(vals))
        [] f = "count distinct" -> IntV(Cardinality(Range(vals) \ {Null}))
        [] f = "sum" ->
             FloatV(FoldLeft(LAMBDA n, v : n + Halves(v), 0, numbers))
        [] f = "min" -> Pick([c \in {-1, 0, 1, NoOrder} |-> c = 1])
        [] f = "max" -> Pick([c \in {-1, 0, 1, NoOrder} |-> c # 1])

Aggregate(agg, rows) ==
  AggregateOf(agg.f, Each(rows, LAMBDA row : Eval(agg.e, row)))

KeyAt(e, by) == {k \in DOMAIN by : by[k] = e}

\* HAVING and the ORDER BY of groups: aggregates and keys become literals,
\* anything else stays as it is and finds no column.
RECURSIVE OfGroup(_, _, _)
OfGroup(e, by, group) ==
  CASE e.op = "agg" -> ValueToExpr(Aggregate(e, group.rows))
    [] e.op \in BinOps \cup {"not"} ->
         WithParts(e, LAMBDA p : OfGroup(p, by, group))
    [] e.op \notin BinOps \cup {"agg", "not"} /\ KeyAt(e, by) # {} ->
         ValueToExpr(group.key[Min(KeyAt(e, by))])
    [] OTHER -> e

GroupValue(e, by, group) == Eval(OfGroup(e, by, group), NoRow)

GroupCells(items, by, group) ==
  Each(items, LAMBDA item :
    CASE item.e = Star -> Word("")
      [] item.e.op = "agg" -> Display(Aggregate(item.e, group.rows))
      [] OTHER ->
           IF KeyAt(item.e, by) # {}
           THEN Display(group.key[Min(KeyAt(item.e, by))])
           ELSE IF group.rows = <<>> THEN Word("")
           ELSE Display(Eval(item.e, group.rows[1])))

\* A projected expression is an aggregate, a literal or a key.
AggregateAllowed(s) ==
  \A i \in DOMAIN s.items :
    LET e == s.items[i].e
    IN  e = Star \/ e.op \in {"agg", "lit"} \/ KeyAt(e, s.group) # {}

\* Without GROUP BY the rows are one group, even when there are none.
GroupsOf(s, rows) ==
  SelectSeq(IF s.group = <<>> THEN <<[key |-> <<>>, rows |-> rows]>>
            ELSE GroupRows(rows, s.group),
            LAMBDA g : IsTruthy(GroupValue(s.having, s.group, g)))

\* ORDER BY is not looked at without GROUP BY.
GroupOrder(s, groups, order) ==
  SortedPositions(
    Each(groups, LAMBDA g : Each(order, LAMBDA o :
      GroupValue(ResolveAlias(o.e, s.items), s.group, g))),
    IF s.group = <<>> THEN <<>> ELSE order)

ShownGroups(s, groups, order) ==
  Each(GroupOrder(s, groups, order), LAMBDA i :
    GroupCells(s.items, s.group, groups[i]))

RowOrder(s, rows, order) ==
  SortedPositions(
    Each(rows, LAMBDA row : Each(order, LAMBDA o :
      Eval(ResolveAlias(o.e, s.items), row))),
    order)

ShownRows(s, rows, order) ==
  DedupIf(s.distinct,
    ApplyPermutation(Each(rows, LAMBDA row : ProjectRow(s.items, row)),
                     RowOrder(s, rows, order)))

-----------------------------------------------------------------------------
(* Correlation.                                                            *)

OwnAliases(s) ==
  UNION {{s.from[i].item.alias}
           \cup {s.from[i].joins[j].item.alias : j \in DOMAIN s.from[i].joins} :
         i \in DOMAIN s.from}

\* Mutated form: the subquery's own columns are substituted too.
IsOuterRefAny(e, row, own) ==
  e.op = "col" /\ e.col[1] # "" /\ ColumnAt(row, e.col) # {}

\* Only a qualified name can be the outer query's.
IsOuterRef(e, row, own) ==
  /\ e.op = "col" /\ e.col[1] # "" /\ e.col[1] \notin own
  /\ ColumnAt(row, e.col) # {}

RECURSIVE SubstituteOuterRefs(_, _, _)
SubstituteOuterRefs(e, row, own) ==
  IF IsOuterRef(e, row, own) THEN ValueToExpr(Get(row, e.col))
  ELSE WithParts(e, LAMBDA p : SubstituteOuterRefs(p, row, own))

\* Only a plain SELECT is correlated, at its WHERE, HAVING and projection.
Correlated(q, outer) ==
  IF outer = <<>> \/ q.body.kind # "select" THEN q
  ELSE LET own == OwnAliases(q.body)
           Bound(e) == SubstituteOuterRefs(e, outer[1], own)
       IN  [q EXCEPT !.body.where = Bound(@), !.body.having = Bound(@),
                     !.body.items =
                        Each(@, LAMBDA item : [item EXCEPT !.e = Bound(@)])]

-----------------------------------------------------------------------------
(* Queries.                                                                *)

Failed == [op |-> "failed"]
HasFailed(e) == \E p \in Within(e) : p.op = "failed"

\* A cell read back by a scalar subquery: integers only.
LiteralOf(s) ==
  IF s.is \in {"int", "padded"} THEN Lit(IntV(s.n)) ELSE Lit(StrV(s))

RECURSIVE RunQuery(_, _)

\* A value is among the cells of a subquery; NaN equals nothing.
Found(value, rows) ==
  \E row \in Range(rows) :
    row # <<>> /\ value # NaN /\ ParseDisplayValue(row[1]) = value

\* What a subquery stands for, given its output and what it is compared with.
Answer(op, out, needle, at) ==
  CASE ~out.ok -> Failed
    [] out.ok /\ op = "scalar" ->
         IF out.rows = <<>> \/ out.rows[1] = <<>> THEN Lit(Null)
         ELSE LiteralOf(out.rows[1][1])
    [] out.ok /\ op = "inquery" ->
         IF HasFailed(needle) THEN Failed
         ELSE Lit(BoolV(Found(Eval(needle, at), out.rows)))
    [] out.ok /\ op = "exists" -> Lit(BoolV(out.rows # <<>>))

\* e with its subqueries replaced by what they gave; outer is the row they
\* are correlated with, or nothing.
RECURSIVE Resolve(_, _, _)
Resolve(e, outer, env) ==
  IF e.op \notin SubqueryOps
  THEN WithParts(e, LAMBDA p : Resolve(p, outer, env))
  ELSE Answer(e.op, RunQuery(Correlated(e.q, outer), env),
              Resolve(e.e, outer, env),
              IF outer = <<>> THEN NoRow ELSE outer[1])

\* conds[i] is the predicate for the row at i.
KeptBy(rows, conds) ==
  IF \E i \in DOMAIN rows : HasFailed(conds[i]) THEN Refused
  ELSE Output(<<>>, KeptAt(rows, LAMBDA i :
                      Truthy(FoldConstants(conds[i]), rows[i])))

\* WHERE: a predicate with a subquery is resolved anew for every row.
Kept(rows, where, env) ==
  KeptBy(rows, [i \in DOMAIN rows |->
                  IF HasSubquery(where) THEN Resolve(where, <<rows[i]>>, env)
                  ELSE where])

\* Columns are looked up in the first row of FROM, when there is one.
ColumnsChecked(es, rows) ==
  \/ rows = <<>> \/ rows[1].cols = <<>>
  \/ \A e \in es : ColumnsKnown(e, rows[1])

UsedBy(s, order) ==
  {s.where} \cup {s.items[i].e : i \in DOMAIN s.items}
    \cup IF IsAggregate(s) THEN Range(s.group)
         ELSE {ResolveAlias(order[i].e, s.items) : i \in DOMAIN order}

\* The output of a SELECT whose FROM gave the rows "from", of which WHERE
\* kept some.
SelectOutput(s, order, limit, offset, from, kept) ==
  IF \/ ~ColumnsChecked(UsedBy(s, order), from) \/ ~kept.ok
     \/ IsAggregate(s) /\ ~AggregateAllowed(s)
  THEN Refused
  ELSE Output(OutputColumns(s, kept.rows),
              ApplyLimitOffset(
                IF IsAggregate(s)
                THEN ShownGroups(s, GroupsOf(s, kept.rows), order)
                ELSE ShownRows(s, kept.rows, order),
                limit, offset))

RunSelect(s, order, limit, offset, env) ==
  LET from == Materialise(s.from, env)
  IN  SelectOutput(s, order, limit, offset, from, Kept(from, s.where, env))

RECURSIVE RunBody(_, _)
RunBody(body, env) ==
  CASE body.kind = "select" -> RunSelect(body, <<>>, Unlimited, 0, env)
    [] body.kind = "values" ->
         Output(<<>>, Each(body.rows, LAMBDA es :
                        Each(es, LAMBDA e : Display(Eval(e, NoRow)))))
    [] body.kind = "query" -> RunQuery(body.q, env)
    [] body.kind = "set" ->
         CombineSets(RunBody(body.left, env), RunBody(body.right, env),
                     body.op, body.all)

\* ORDER BY is applied to a plain SELECT only.
RunQueryBody(q, env) ==
  IF q.body.kind = "select"
  THEN RunSelect(q.body, q.order, q.limit, q.offset, env)
  ELSE [RunBody(q.body, env) EXCEPT !.rows =
          ApplyLimitOffset(@, q.limit, q.offset)]

Bind(env, name, out) == [env EXCEPT !.ctes = (name :> out) @@ @]

\* The CTEs of a query one after the other, each seeing those before it.
RunQuery(q, env) ==
  IF q.with = <<>> THEN RunQueryBody(q, env)
  ELSE LET cte == q.with[1]
           out == RunQuery(cte.q, env)
       IN  IF ~out.ok THEN Refused
           ELSE RunQuery([q EXCEPT !.with = Tail(@)],
                         Bind(env, cte.name, out))

=============================================================================
