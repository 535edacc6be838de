----------------------------- MODULE SqlValues -----------------------------
(***************************************************************************)
(* The values of the SQL engine (src/sql/value.rs) and their expressions   *)
(* (src/sql/expr.rs, and the constant folding of src/sql/rewrite.rs).      *)
(* Cells of custom tables and results of subqueries are text, so equality, *)
(* order, join keys and arithmetic all have to agree on which texts stand  *)
(* for numbers.                                                            *)
(*                                                                         *)
(* A text is what it spells: the canonical form of an integer, another     *)
(* form of one ("01"), a half ("1.5"), or a word.  A float is a number of  *)
(* halves, so that arithmetic stays within the integers.                   *)
(***************************************************************************)
EXTENDS Integers, SequencesExt, FiniteSetsExt

CONSTANT WordOrder   \* the words, in the order of their text

IntText(n) == [is |-> "int", n |-> n]
PaddedText(n) == [is |-> "padded", n |-> n]
HalfText(h) == [is |-> "half", h |-> h]
Word(w) == [is |-> "word", w |-> w]

Null == [t |-> "null"]
NaN == [t |-> "nan"]
BoolV(b) == [t |-> "bool", b |-> b]
IntV(n) == [t |-> "int", n |-> n]
FloatV(h) == [t |-> "float", h |-> h]
StrV(s) == [t |-> "str", s |-> s]

IsTruthy(v) ==
  CASE v.t = "bool" -> v.b
    [] v.t = "int" -> v.n # 0
    [] v.t = "float" -> v.h # 0
    [] v.t = "nan" -> TRUE
    [] v.t = "str" -> v.s # Word("")
    [] v.t = "null" -> FALSE

\* A float of an integral value is shown as that integer.
Display(v) ==
  CASE v.t = "str" -> v.s
    [] v.t = "int" -> IntText(v.n)
    [] v.t = "float" -> IF v.h % 2 = 0 THEN IntText(v.h \div 2)
                        ELSE HalfText(v.h)
    [] v.t = "nan" -> Word("NaN")
    [] v.t = "bool" -> IF v.b THEN Word("true") ELSE Word("false")
    [] v.t = "null" -> Word("NULL")

\* What a shown text is read back as.
ParseDisplayValue(s) ==
  CASE s.is \in {"int", "padded"} -> IntV(s.n)
    [] s.is = "half" -> FloatV(s.h)
    [] s = Word("NaN") -> NaN
    [] OTHER -> StrV(s)

-----------------------------------------------------------------------------
(* Equality and order.                                                     *)

IsCanonical(v) == v.t = "str" /\ v.s.is = "int"

SqlEq(a, b) ==
  CASE a.t = "int" /\ b.t = "str" -> b.s = IntText(a.n)
    [] a.t = "str" /\ b.t = "int" -> a.s = IntText(b.n)
    [] OTHER -> a = b /\ a # NaN

HasJoinKey(v) == v # NaN
JoinKey(v) == IF IsCanonical(v) THEN IntV(v.s.n) ELSE v

Sign(n) == IF n < 0 THEN -1 ELSE IF n > 0 THEN 1 ELSE 0

\* Texts by their characters; TextPlace is where a text is in that order.
TextPlace(s) == CHOOSE i \in DOMAIN WordOrder : WordOrder[i] = s
TextCmp(s, r) == Sign(TextPlace(s) - TextPlace(r))

IsNumber(v) == v.t \in {"int", "float", "nan"} \/ IsCanonical(v)
Halves(v) ==
  CASE v.t = "int" -> 2 * v.n
    [] v.t = "float" -> v.h
    [] v.t = "str" -> 2 * v.s.n

SortRank(v) ==
  CASE v.t = "null" -> 0 [] v.t = "bool" -> 1 [] IsNumber(v) -> 2 [] OTHER -> 3

\* ORDER BY: NULL, booleans, numbers with NaN last, other texts.
SortCmp(a, b) ==
  CASE a.t = "bool" /\ b.t = "bool" ->
         Sign((IF a.b THEN 1 ELSE 0) - (IF b.b THEN 1 ELSE 0))
    [] SortRank(a) = 3 /\ SortRank(b) = 3 -> TextCmp(a.s, b.s)
    [] IsNumber(a) /\ IsNumber(b) ->
         IF a = NaN \/ b = NaN
         THEN (IF a = NaN THEN 1 ELSE 0) - (IF b = NaN THEN 1 ELSE 0)
         ELSE Sign(Halves(a) - Halves(b))
    [] OTHER -> Sign(SortRank(a) - SortRank(b))

\* <, <=, BETWEEN, min and max: NoOrder where two values do not compare.
NoOrder == 2

CmpVal(a, b) ==
  CASE a.t = "int" /\ b.t = "str" ->
         IF IsCanonical(b) THEN Sign(a.n - b.s.n) ELSE NoOrder
    [] a.t = "str" /\ b.t = "int" ->
         IF IsCanonical(a) THEN Sign(a.s.n - b.n) ELSE NoOrder
    [] a.t \in {"int", "float"} /\ b.t \in {"int", "float"} ->
         Sign(Halves(a) - Halves(b))
    [] a.t = "str" /\ b.t = "str" -> TextCmp(a.s, b.s)
    [] a.t = "null" /\ b.t = "null" -> 0
    [] OTHER -> NoOrder

-----------------------------------------------------------------------------
(* Arithmetic: texts that spell a number count as it.                      *)

Numeric(v) ==
  CASE v.t = "str" /\ v.s.is \in {"int", "padded"} -> IntV(v.s.n)
    [] v.t = "str" /\ v.s.is = "half" -> FloatV(v.s.h)
    [] OTHER -> v

\* l + r, or l - r where sign is -1.
AddNumbers(l, sign, r) ==
  CASE l.t = "int" /\ r.t = "int" -> IntV(l.n + sign * r.n)
    [] {l.t, r.t} \subseteq {"int", "float"} ->
         FloatV(Halves(l) + sign * Halves(r))
    [] {l.t, r.t} \subseteq {"int", "float", "nan"} -> NaN
    [] OTHER -> Null

ArithOp(a, sign, b) == AddNumbers(Numeric(a), sign, Numeric(b))

-----------------------------------------------------------------------------
(* Rows: columns are pairs of an alias and a name.  A column that is not   *)
(* found under its full name is looked up by its short name.               *)

Row(cols, vals) == [cols |-> cols, vals |-> vals]

ColumnAt(row, col) ==
  LET Exact(i) == row.cols[i] = col
      Short(i) == row.cols[i][2] = col[2]
  IN  {i \in DOMAIN row.cols :
         \/ Exact(i) /\ ~\E j \in 1..(i - 1) : Exact(j)
         \/ Short(i) /\ ~\E j \in DOMAIN row.cols :
              Exact(j) \/ (j < i /\ Short(j))}

\* The value in a row's column, if it has been found.
ValueOf(row, at) == IF at = {} THEN Null ELSE row.vals[Min(at)]
Get(row, col) == ValueOf(row, ColumnAt(row, col))

-----------------------------------------------------------------------------
(* Expressions.  Col("", n) is a bare name.                                *)

Lit(v) == [op |-> "lit", v |-> v]
Col(alias, name) == [op |-> "col", col |-> <<alias, name>>]
Bin(op, l, r) == [op |-> op, l |-> l, r |-> r]
Negation(e) == [op |-> "not", e |-> e]
IsNull(e) == [op |-> "isnull", e |-> e]
InList(e, list) == [op |-> "in", e |-> e, list |-> list]
Between(e, lo, hi) == [op |-> "between", e |-> e, lo |-> lo, hi |-> hi]
Agg(f, e) == [op |-> "agg", f |-> f, e |-> e]

BinOps == {"and", "or", "eq", "ne", "lt", "le", "plus", "minus"}

\* The expressions right under e.  A subquery has its own scope.
Parts(e) ==
  CASE e.op \in BinOps -> {e.l, e.r}
    [] e.op \in {"not", "isnull", "agg"} -> {e.e}
    [] e.op = "in" -> {e.e} \cup Range(e.list)
    [] e.op = "between" -> {e.e, e.lo, e.hi}
    [] OTHER -> {}

\* e with F applied to the expressions right under it.
WithParts(e, F(_)) ==
  CASE e.op \in BinOps -> Bin(e.op, F(e.l), F(e.r))
    [] e.op \in {"not", "isnull", "agg"} -> [e EXCEPT !.e = F(@)]
    [] e.op = "in" -> InList(F(e.e), [i \in DOMAIN e.list |-> F(e.list[i])])
    [] e.op = "between" -> Between(F(e.e), F(e.lo), F(e.hi))
    [] OTHER -> e

\* e and everything under it.
RECURSIVE Within(_)
Within(e) == {e} \cup UNION {Within(p) : p \in Parts(e)}

ColumnsOf(e) == {c.col : c \in {p \in Within(e) : p.op = "col"}}
IsConstant(e) ==
  \A p \in Within(e) :
    p.op \in BinOps \cup {"lit", "not", "isnull", "in", "between"}

\* AND and OR only look at the truth of their sides, and NULL is not true:
\* the logic has two values.
EvalBinary(op, l, r) ==
  CASE op = "and" -> BoolV(IsTruthy(l) /\ IsTruthy(r))
    [] op = "or" -> BoolV(IsTruthy(l) \/ IsTruthy(r))
    [] op = "eq" -> BoolV(SqlEq(l, r))
    [] op = "ne" -> BoolV(~SqlEq(l, r))
    [] op = "lt" -> BoolV(CmpVal(l, r) = -1)
    [] op = "le" -> BoolV(CmpVal(l, r) \in {-1, 0})
    [] op = "plus" -> ArithOp(l, 1, r)
    [] op = "minus" -> ArithOp(l, -1, r)

\* An aggregate outside of its group is a placeholder, a subquery that was
\* not resolved is NULL.
RECURSIVE Eval(_, _)
Eval(e, row) ==
  CASE e.op = "lit" -> e.v
    [] e.op = "col" -> Get(row, e.col)
    [] e.op \in BinOps -> EvalBinary(e.op, Eval(e.l, row), Eval(e.r, row))
    [] e.op = "not" -> BoolV(~IsTruthy(Eval(e.e, row)))
    [] e.op = "isnull" -> BoolV(Eval(e.e, row) = Null)
    [] e.op = "in" ->
         LET v == Eval(e.e, row)
         IN  BoolV(\E i \in DOMAIN e.list :
                     Eval(e.list[i], row) = v /\ v # NaN)
    [] e.op = "between" ->
         LET v == Eval(e.e, row)
         IN  BoolV(/\ CmpVal(Eval(e.lo, row), v) \in {-1, 0}
                   /\ CmpVal(v, Eval(e.hi, row)) \in {-1, 0})
    [] e.op = "agg" -> IntV(1)
    [] OTHER -> Null

Truthy(e, row) == IsTruthy(Eval(e, row))
NoRow == Row(<<>>, <<>>)

\* A value written back into an expression: the text of an integral float
\* is read as an integer.
ValueToExpr(v) ==
  Lit(IF v.t = "float" /\ v.h % 2 = 0 THEN IntV(v.h \div 2) ELSE v)

RECURSIVE FoldConstants(_)
FoldConstants(e) ==
  LET folded == IF e.op = "agg" THEN e ELSE WithParts(e, FoldConstants)
  IN  IF folded.op = "lit" \/ ~IsConstant(folded) THEN folded
      ELSE ValueToExpr(Eval(folded, NoRow))

=============================================================================
