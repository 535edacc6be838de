----------------------------- MODULE SqlStages -----------------------------
(***************************************************************************)
(* The stages of a SELECT: rows of the FROM clause (src/sql/scan.rs and    *)
(* join.rs), WHERE and its subqueries (query.rs, rewrite.rs), projection,  *)
(* groups and HAVING (aggregate.rs), ORDER BY, LIMIT and set operations    *)
(* (result_ops.rs).                                                        *)
(*                                                                         *)
(* Stages hand rows of values to each other, queries hand their output to  *)
(* each other as text: a subquery, a CTE or a side of a set operation is   *)
(* read back from what it would have shown.                                *)
(*                                                                         *)
(* env.tables maps a name to a table's columns and rows, env.ctes maps the *)
(* names in scope to outputs.                                              *)
(***************************************************************************)
EXTENDS SqlValues

Output(cols, rows) == [ok |-> TRUE, cols |-> cols, rows |-> rows]
Refused == [ok |-> FALSE, cols |-> <<>>, rows |-> <<>>]

Each(s, F(_)) == [i \in DOMAIN s |-> F(s[i])]
Texts(vals) == Each(vals, Display)

\* The items of s at the positions that satisfy Test.
KeptAt(s, Test(_)) ==
  Each(SelectSeq([i \in DOMAIN s |-> i], Test), LAMBDA i : s[i])

Qualified(names, alias) == [i \in DOMAIN names |-> <<alias, names[i]>>]

OutputToRows(out, alias) ==
  [i \in DOMAIN out.rows |->
     Row(Qualified(out.cols, alias), Each(out.rows[i], ParseDisplayValue))]

\* A CTE in scope shadows a table of its name.
TableRows(item, env) ==
  IF item.table \in DOMAIN env.ctes
  THEN OutputToRows(env.ctes[item.table], item.alias)
  ELSE LET t == env.tables[item.table]
       IN  [i \in DOMAIN t.rows |->
              Row(Qualified(t.cols, item.alias), t.rows[i])]

ColumnsIn(rows) == IF rows = <<>> THEN <<>> ELSE rows[1].cols
ColumnsKnown(e, row) == \A c \in ColumnsOf(e) : ColumnAt(row, c) # {}

-----------------------------------------------------------------------------
(* Joins.                                                                  *)

CombineRows(l, r) == Row(l.cols \o r.cols, l.vals \o r.vals)
NullExtended(l, cols) ==
  Row(l.cols \o cols, l.vals \o [i \in DOMAIN cols |-> Null])

CrossJoin(left, right) ==
  FlattenSeq([i \in DOMAIN left |->
    [j \in DOMAIN right |-> CombineRows(left[i], right[j])]])

RECURSIVE Conjuncts(_)
Conjuncts(e) ==
  IF e.op = "and" THEN Conjuncts(e.l) \o Conjuncts(e.r) ELSE <<e>>

HasShortCol(cols, e) == \E i \in DOMAIN cols : cols[i][2] = e.col[2]

\* A column is taken to be of a side that has one of its short name.
EquiKeys(c, leftCols, rightCols) ==
  IF c.op # "eq" \/ c.l.op # "col" \/ c.r.op # "col" THEN <<>>
  ELSE IF HasShortCol(leftCols, c.l) /\ HasShortCol(rightCols, c.r)
  THEN <<c.l, c.r>>
  ELSE IF HasShortCol(rightCols, c.l) /\ HasShortCol(leftCols, c.r)
  THEN <<c.r, c.l>>
  ELSE <<>>

\* The first "column = column" of the condition, the left side's first.
FindEquiJoin(on, leftCols, rightCols) ==
  FoldLeft(LAMBDA found, c : IF found # <<>> THEN found
                             ELSE EquiKeys(c, leftCols, rightCols),
           <<>>, Conjuncts(on))

\* Mutated form: a NULL key matches nothing.
SameKeyNoNulls(v, w) ==
  HasJoinKey(v) /\ HasJoinKey(w) /\ v # Null /\ JoinKey(v) = JoinKey(w)

SameKey(v, w) == HasJoinKey(v) /\ HasJoinKey(w) /\ JoinKey(v) = JoinKey(w)

\* With an equality of columns in the condition only the pairs with the
\* same key are tried.
Candidate(l, r, keys) ==
  keys # <<>> => SameKey(Eval(keys[1], l), Eval(keys[2], r))

Partners(l, right, on, keys) ==
  SelectSeq(Each(SelectSeq(right, LAMBDA r : Candidate(l, r, keys)),
                 LAMBDA r : CombineRows(l, r)),
            LAMBDA row : Truthy(on, row))

OrNullExtended(l, partners, cols, outer) ==
  IF outer /\ partners = <<>> THEN <<NullExtended(l, cols)>> ELSE partners

JoinByKeys(left, right, on, keys, outer) ==
  FlattenSeq(Each(left, LAMBDA l :
    OrNullExtended(l, Partners(l, right, on, keys), ColumnsIn(right), outer)))

JoinOn(left, right, on, outer) ==
  JoinByKeys(left, right, on,
             FindEquiJoin(on, ColumnsIn(left), ColumnsIn(right)), outer)

\* Only INNER and LEFT joins with ON, and only those of the first item, are
\* joins: every other one is a cross product.
JoinRows(rows, j, right) ==
  IF j.kind \in {"inner", "left"}
  THEN JoinOn(rows, right, FoldConstants(j.on), j.kind = "left")
  ELSE CrossJoin(rows, right)

Materialise(from, env) ==
  LET Joined(rows, j) == JoinRows(rows, j, TableRows(j.item, env))
      Crossed(rows, item) == CrossJoin(rows, TableRows(item, env))
      Items(f) == <<f.item>> \o Each(f.joins, LAMBDA j : j.item)
  IN  IF from = <<>> THEN <<NoRow>>
      ELSE FoldLeft(Crossed,
             FoldLeft(Joined, TableRows(from[1].item, env), from[1].joins),
             FlattenSeq(Each(Tail(from), Items)))

-----------------------------------------------------------------------------
(* ORDER BY, LIMIT, DISTINCT and set operations.                           *)

\* An ORDER BY name may be the alias of a projected expression.
ResolveAlias(e, items) ==
  LET named == {i \in DOMAIN items :
                  e.op = "col" /\ e.col = <<"", items[i].as>>}
  IN  IF named = {} THEN e ELSE items[Min(named)].e

\* The order of two rows of keys, descending where a term says so.
RECURSIVE KeyCmp(_, _, _)
KeyCmp(k, l, order) ==
  IF order = <<>> THEN 0
  ELSE LET c == SortCmp(k[1], l[1])
       IN  IF c = 0 THEN KeyCmp(Tail(k), Tail(l), Tail(order))
           ELSE IF order[1].desc THEN 0 - c ELSE c

\* The positions of the rows in order; the sort is stable.
SortedPositions(keys, order) ==
  LET Before(a, b) ==
        LET c == KeyCmp(keys[a], keys[b], order)
        IN  c < 0 \/ (c = 0 /\ a < b)
  IN  SortSeq([i \in DOMAIN keys |-> i], Before)

Swapped(s, i, j) == [s EXCEPT ![i] = s[j], ![j] = s[i]]

\* Follows the cycles: dest[i] is where the item at i has to go.
RECURSIVE Settle(_, _, _)
Settle(items, dest, i) ==
  IF i > Len(dest) THEN items
  ELSE IF dest[i] = i THEN Settle(items, dest, i + 1)
  ELSE Settle(Swapped(items, i, dest[i]), Swapped(dest, i, dest[i]), i)

\* Mutated form: the order is not inverted into destinations.
ApplyPermutationForward(items, order) == Settle(items, order, 1)

ApplyPermutation(items, order) ==
  Settle(items,
         [old \in DOMAIN order |->
            CHOOSE new \in DOMAIN order : order[new] = old], 1)

DedupRows(rows) ==
  LET First(i) == \A j \in 1..(i - 1) : rows[j] # rows[i]
  IN  KeptAt(rows, First)
DedupIf(distinct, rows) == IF distinct THEN DedupRows(rows) ELSE rows

\* A negative count is read as a huge one: no limit, or all rows skipped.
Unlimited == -1
ApplyLimitOffset(rows, limit, offset) ==
  LET rest == IF offset < 0 THEN <<>> ELSE SubSeq(rows, offset + 1, Len(rows))
  IN  IF limit < 0 THEN rest ELSE SubSeq(rest, 1, Min({limit, Len(rest)}))

CountOf(r, rows) == Cardinality({i \in DOMAIN rows : rows[i] = r})

\* Mutated form: the row itself is not counted.
CountedFromZero(left, right, upTo) ==
  KeptAt(left, LAMBDA i :
    (CountOf(left[i], SubSeq(left, 1, i - 1)) <= CountOf(left[i], right))
      = upTo)

\* The rows of left at which, counting from the start, a row has been seen
\* at most (upTo), or more than, as often as right has it.
Counted(left, right, upTo) ==
  KeptAt(left, LAMBDA i :
    (CountOf(left[i], SubSeq(left, 1, i)) <= CountOf(left[i], right)) = upTo)

CombineSets(left, right, op, all) ==
  LET InRight(r) == r \in Range(right.rows)
      rows ==
        CASE op = "union" -> left.rows \o right.rows
          [] op = "intersect" /\ all -> Counted(left.rows, right.rows, TRUE)
          [] op = "except" /\ all -> Counted(left.rows, right.rows, FALSE)
          [] op = "intersect" -> SelectSeq(left.rows, InRight)
          [] op = "except" -> SelectSeq(left.rows, LAMBDA r : ~InRight(r))
  IN  IF ~left.ok \/ ~right.ok THEN Refused
      ELSE IF left.rows # <<>> /\ right.rows # <<>>
              /\ Len(left.rows[1]) # Len(right.rows[1]) THEN Refused
      ELSE Output(IF left.cols # <<>> THEN left.cols ELSE right.cols,
                  DedupIf(~all, rows))

=============================================================================
