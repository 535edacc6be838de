--------------------------- MODULE MCSelectQuery ---------------------------
(* SelectQuery on small tables: joins, predicates with subqueries, orders, *)
(* groups, set operations and walks along edges.                           *)
EXTENDS SelectQuery

MCWordOrder ==
  <<Word(""), PaddedText(1), IntText(1), HalfText(3), IntText(10), IntText(2),
    Word("NULL"), Word("NaN"), Word("true"), Word("x"), Word("y")>>

T1 == StrV(IntText(1))
T2 == StrV(IntText(2))
P1 == StrV(PaddedText(1))
X == StrV(Word("x"))
Y == StrV(Word("y"))
Half == FloatV(3)
Two == FloatV(4)

Table(rows) == [cols |-> <<"k", "v">>, rows |-> rows]
TablesOf(n, S) == {Table(rows) : rows \in [1..n -> S]}
UpTo(n, S) == UNION {TablesOf(m, S) : m \in 0..n}
None == {Table(<<>>)}

As(name, alias) == [table |-> name, alias |-> alias]
From(name, alias) == [item |-> As(name, alias), joins |-> <<>>]
Item(e, as) == [e |-> e, as |-> as]
AllColumns == <<Item(Star, "")>>
Select(from, where, items) ==
  [kind |-> "select", from |-> from, where |-> where, items |-> items,
   group |-> <<>>, having |-> Always, distinct |-> FALSE]
Distinct(s) == [s EXCEPT !.distinct = TRUE]
Grouped(s, by, having) == [s EXCEPT !.group = by, !.having = having]
Combined(op, all, l, r) ==
  [kind |-> "set", op |-> op, all |-> all, left |-> l, right |-> r]
Values(rows) == [kind |-> "values", rows |-> rows]
Parens(q) == [kind |-> "query", q |-> q]

Query(body) ==
  [with |-> <<>>, recursive |-> FALSE, body |-> body, order |-> <<>>,
   limit |-> Unlimited, offset |-> 0]
OrderBy(q, order) == [q EXCEPT !.order = order]
Slice(q, limit, offset) == [q EXCEPT !.limit = limit, !.offset = offset]
With(q, name, sub) ==
  [q EXCEPT !.with = Append(@, [name |-> name, q |-> sub])]
Recursive(q) == [q EXCEPT !.recursive = TRUE]
Asc(e) == [e |-> e, desc |-> FALSE]
Desc(e) == [e |-> e, desc |-> TRUE]
Family(as, bs, es, stmts) ==
  [tables |-> [a : as, b : bs, e : es], stmts |-> stmts]

Ak == Col("a", "k")
Av == Col("a", "v")
Bk == Col("b", "k")
Bv == Col("b", "v")
k == Col("", "k")
v == Col("", "v")
Eq(l, r) == Bin("eq", l, r)
And(l, r) == Bin("and", l, r)
One == Lit(IntV(1))

-----------------------------------------------------------------------------
Joins(from, to) ==
  LET j(kind, on) == [item |-> As(to[1], to[2]), kind |-> kind, on |-> on]
      l == Col(from[2], "k")
      r == Col(to[2], "k")
  IN  {Query(Select(<<[item |-> As(from[1], from[2]), joins |-> <<j(kind, on)>>]>>,
                    Always, AllColumns)) :
         kind \in {"inner", "left"},
         on \in {Eq(l, r), Eq(r, l), Eq(l, Col(to[2], "v")),
                 Eq(r, Col(from[2], "v")),
                 And(Bin("le", One, Col(from[2], "v")), Eq(l, r)),
                 Bin("lt", l, r), Eq(Bin("plus", l, One), r)}}

JoinRowsA == {<<T1, T2>>, <<X, T1>>, <<P1, X>>, <<T2, T2>>}
JoinRowsB ==
  {<<IntV(1), Null>>, <<Null, IntV(2)>>, <<X, T2>>, <<IntV(2), IntV(1)>>}

JoinCases ==
  <<Family(UpTo(2, JoinRowsA), UpTo(2, JoinRowsB), None,
           Joins(<<"a", "a">>, <<"b", "b">>)),
    Family(None, UpTo(2, JoinRowsB), None, Joins(<<"b", "l">>, <<"b", "r">>))>>

-----------------------------------------------------------------------------
OfB(where) == Query(Select(<<From("b", "b")>>, where, <<Item(Bk, "")>>))
Predicates ==
  {Always, Eq(k, One), Bin("ne", k, One), Bin("lt", v, Bin("plus", One, One)),
   Bin("lt", Bin("minus", Lit(Half), One), v),
   Negation(Bin("le", v, One)), Bin("or", Eq(k, v), IsNull(v)),
   InList(k, <<One, Lit(X), Bin("plus", One, Lit(Half))>>),
   Between(v, One, Lit(IntV(2))), Bin("eq", Lit(Null), v),
   InQuery(k, OfB(Always)), Negation(InQuery(v, OfB(Always))),
   InQuery(Ak, OfB(Eq(Bv, Av))),
   InQuery(Exists(OfB(Eq(Bk, Ak))), OfB(Always)),
   InQuery(Exists(OfB(Eq(Col("b", "w"), Ak))), OfB(Always)),
   Exists(OfB(Eq(Bk, Ak))), Negation(Exists(OfB(Bin("lt", Bv, Av)))),
   And(Exists(OfB(Eq(k, Av))), Bin("lt", One, Av)),
   Exists(OfB(Exists(Query(Select(<<From("e", "e")>>,
     Eq(Col("e", "k"), Bv), <<Item(Col("e", "v"), "")>>)))))}

WhereRows == {<<IntV(1), IntV(2)>>, <<X, IntV(1)>>, <<T2, T1>>,
              <<Half, Null>>, <<IntV(2), X>>}
WhereCases ==
  <<Family(UpTo(2, WhereRows), UpTo(2, WhereRows), {Table(<<<<IntV(2), X>>>>)},
           {Query(Select(<<From("a", "a")>>, w, <<Item(v, ""), Item(k, "n")>>)) :
              w \in Predicates})>>

-----------------------------------------------------------------------------
SortKeys == {Null, IntV(2), IntV(10), T2, P1, X, Half, Two, NaN, StrV(Word(""))}
OrderRows == SortKeys \X {IntV(1), IntV(2)}
Orders ==
  {<<Asc(k)>>, <<Desc(k)>>, <<Asc(v), Desc(k)>>, <<Desc(Col("", "n")), Asc(k)>>}
OrderCases ==
  LET base == Query(Select(<<From("b", "b")>>, Always,
                           <<Item(v, "n"), Item(k, "")>>))
      copy == Query(Select(<<From("b", "b")>>, Always, AllColumns))
      ofCopy == Query(Select(<<From("c", "c")>>, Always, AllColumns))
  IN  <<Family(None, TablesOf(3, OrderRows), None,
               {OrderBy(base, o) : o \in {<<Asc(k)>>, <<Asc(v), Desc(k)>>}}),
        Family(None, TablesOf(4, {<<IntV(10), IntV(1)>>, <<T2, IntV(1)>>,
                                  <<Two, IntV(2)>>, <<X, IntV(2)>>}), None,
               {Slice(OrderBy(base, o), n, m) :
                  o \in Orders, n \in {Unlimited, 2}, m \in {0, 1}}),
        Family(None, UpTo(2, OrderRows), None,
               {With(OrderBy(ofCopy, o), "c", copy) :
                  o \in {<<Asc(k)>>, <<Desc(k), Asc(v)>>}})>>

-----------------------------------------------------------------------------
Count == Agg("count", One)
GroupKeys == {Null, IntV(2), T2, Two, P1, X, StrV(Word("NULL"))}
GroupCases ==
  LET counted(where) ==
        Select(<<From("b", "b")>>, where,
               <<Item(k, ""), Item(Count, "n"), Item(Agg("min", v), "")>>)
      total(f) == Select(<<From("b", "b")>>, Always, <<Item(Agg(f, v), "")>>)
  IN  <<Family(None, UpTo(3, GroupKeys \X {IntV(1), IntV(2)}), None,
               {Query(Grouped(counted(Always), <<k>>, h)) :
                  h \in {Always, Bin("lt", One, Count)}}),
        Family(None, UpTo(2, GroupKeys \X {IntV(1), IntV(2), Null}), None,
               {OrderBy(Query(Grouped(counted(Bin("ne", v, One)), <<k>>, Always)),
                        o) : o \in {<<Desc(k)>>, <<Asc(Col("", "n"))>>}}),
        Family(None, UpTo(2, {<<X, IntV(1)>>, <<X, T2>>}), None,
               {Query(total(f)) :
                  f \in {"count", "count distinct", "sum", "min", "max"}})>>

-----------------------------------------------------------------------------
Side(name) == Select(<<From(name, name)>>, Always, <<Item(k, "")>>)
SetCases ==
  <<Family(UpTo(3, {<<T1, X>>, <<X, X>>}),
           UpTo(3, {<<IntV(1), X>>, <<Null, X>>, <<X, X>>}), None,
           {Query(Combined(op, all, Side("a"), Side("b"))) :
              op \in {"union", "intersect", "except"}, all \in BOOLEAN}),
    Family({Table(<<<<T1, X>>, <<T1, X>>, <<X, X>>>>)}, None, None,
           {Slice(Query(body), n, m) :
              body \in {Combined("except", TRUE, Parens(Query(Side("a"))),
                                 Values(<<<<One>>>>)),
                        Distinct(Side("a"))},
              n \in {Unlimited, 1}, m \in {0, 1, -1}})>>

-----------------------------------------------------------------------------
Walk(all, anchor, item) ==
  With(Recursive(Query(Select(<<From("walk", "walk")>>, Always, AllColumns))),
       "walk",
       Query(Combined("union", all, anchor,
         Select(<<[item |-> As("e", "e"),
                   joins |-> <<[item |-> As("walk", "w"), kind |-> "inner",
                                on |-> Eq(Col("e", "k"), Col("w", "n"))]>>]>>,
                Always, item))))
Starts == Select(<<From("a", "a")>>, Always, <<Item(k, "n")>>)
Nodes == {T1, T2, X}
Edges == {<<m, n>> : m, n \in Nodes}
WalkCases ==
  <<Family(UpTo(2, {<<T1, X>>, <<X, X>>}), None,
           {Table(SetToSeq(e)) : e \in UNION {kSubset(n, Edges) : n \in 0..4}},
           {Walk(all, Starts, <<Item(Col("e", "v"), "")>>) : all \in BOOLEAN})>>

\* Statements that are refused: an anchor that reads the CTE, terms of other
\* widths than their anchor, unknown columns, sides of different widths.
BadCases ==
  LET z == Eq(Col("", "z"), One)
      node == <<Item(Col("e", "v"), "")>>
      fromA == <<From("a", "a")>>
      fromB == <<From("b", "b")>>
  IN  <<Family({Table(<<<<T1, X>>>>)}, UpTo(2, {<<IntV(1), X>>}),
               {Table(<<<<T1, T2>>>>)},
          {Walk(FALSE, Select(<<From("walk", "w")>>, Always, <<Item(k, "n")>>),
                node),
           Walk(FALSE, Starts, AllColumns),
           Walk(FALSE, Select(fromA, z, <<Item(k, "n")>>), node),
           Query(Select(fromB, z, AllColumns)),
           Query(Combined("union", TRUE, Side("a"),
                          Select(fromB, Always, AllColumns))),
           With(Query(Side("c")), "c", Query(Grouped(Side("a"), <<v>>, Always))),
           Query(Select(fromA, Exists(Query(Select(fromB, z, AllColumns))),
                        AllColumns))})>>

MCCases ==
  JoinCases \o WhereCases \o OrderCases \o GroupCases \o SetCases
    \o WalkCases \o BadCases
=============================================================================
