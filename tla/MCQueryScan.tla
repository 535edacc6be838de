---------------------------- MODULE MCQueryScan ----------------------------
(* QueryScan on stores of up to two small documents.                       *)
EXTENDS QueryScan

MCLower == [c \in {"a", "A", "k", "m", "-"} |-> IF c = "A" THEN "a" ELSE c]
MCNoLang == <<>>

Block(type, content, lang, depth) ==
  [type |-> type, content |-> content, lang |-> lang, depth |-> depth]

\* The numbers that build_blocks gives: a heading encloses what follows up
\* to the next heading of its level or above.
Numbered(bs) ==
  LET Stops(i, j) == bs[j].type = "heading" /\ bs[j].depth <= bs[i].depth
      End(i) == IF bs[i].type # "heading" THEN i
                ELSE Min({j \in i..Len(bs) :
                            j = Len(bs) \/ Stops(i, j + 1)})
      Closed(i) == Cardinality({k \in 1..i - 1 : End(k) < i})
      Under(i) == Cardinality({k \in i + 1..End(i) : End(k) <= End(i)})
  IN  [i \in DOMAIN bs |->
        [pre |-> i + Closed(i),
         post |-> End(i) + Closed(i) + Under(i) + 1] @@ bs[i]]

Universe ==
  {Block("heading", <<"A">>, <<>>, 1), Block("heading", <<"k", "m">>, <<>>, 2),
   Block("paragraph", <<"a">>, <<>>, 0),
   Block("paragraph", <<"A", "-", "a", "k", "m", "k">>, <<>>, 0),
   Block("code", <<"m">>, <<"a">>, 0),
   Block("yaml", <<"A">>, <<"a">>, 2)}

MCDocument1 == UNION {[1..n -> Universe] : n \in 0..2}
MCDocument2 ==
  {<<Block("heading", <<"A">>, <<>>, 1), Block("paragraph", <<"m">>, <<>>, 0),
     Block("code", <<"k", "m">>, <<"a">>, 0)>>}

MCStores ==
  {<<Numbered(d)>> : d \in UNION {[1..n -> Universe] : n \in 0..1}}
    \cup {<<Numbered(d), Numbered(e)>> : d \in MCDocument1, e \in MCDocument2}

Type(name) == [op |-> "type", name |-> name]
In(names, computed) == [op |-> "in", names |-> names, computed |-> computed]
Pre(n) == [op |-> "pre", num |-> n]
Between(lo, hi) == [op |-> "between", lo |-> lo, hi |-> hi]
Content(text) == [op |-> "content", text |-> text]
Lang(text) == [op |-> "lang", text |-> text]
Depth(n) == [op |-> "depth", num |-> n]
Match(text) == [op |-> "match", text |-> text]
PostUpTo(n) == [op |-> "post", num |-> n]

Conjuncts ==
  {Type("heading"), Type("paragraph"), Type("none"),
   In({"code", "heading"}, {}), In({"code", "none"}, {"paragraph"}),
   Pre(1), Pre(9), Between(1, 3), Between(2, 2), Between(0, 8), Between(3, 1),
   Content(<<"A">>), Content(<<"a">>), Lang(<<"a">>), Lang(<<"A">>), Lang(<<>>),
   Depth(0), Depth(1), Depth(2), Depth(6),
   Match(<<"A">>), Match(<<"k">>), Match(<<"k", "m", "k">>), Match(<<"m", "-", "a">>),
   Match(<<"-">>), PostUpTo(3)}

MCClauses == UNION {[1..n -> Conjuncts] : n \in 0..2}
=============================================================================
