----------------------------- MODULE QueryScan -----------------------------
(***************************************************************************)
(* SELECT ... FROM blocks WHERE ...: the engine takes or builds an index   *)
(* per document, chooses the cheapest lookup that some conjunct of the     *)
(* WHERE clause allows, skips the documents that their zone maps rule out, *)
(* looks up the rows of the others, and evaluates the clause on them       *)
(* (SqlEngine::with_session, exec_select and table_rows_unqualified, with  *)
(* src/sql/plan.rs).  None of this may change the answer.                  *)
(***************************************************************************)
EXTENDS DocumentIndex

CONSTANTS
  Stores,      \* the stores: sequences of documents, which are sequences
               \* of blocks
  Kinds,       \* the tokenizers
  Clauses,     \* the WHERE clauses: sequences of conjuncts
  PreWidth,    \* how many values a pre number has (2^32)
  DepthWidth   \* how many values a depth has (2^8)

ASSUME WidthsArePositive == PreWidth \in Nat \ {0} /\ DepthWidth \in Nat \ {0}

ASSUME KindsAreTokenizers == Kinds \subseteq {"word", "bigram", "trigram"}

\* pre grows with the position: build_blocks numbers the blocks in order.
Blocks ==
  [type : Range(TypeNames), content : Texts, lang : Texts \cup {NoLang},
   depth : 0..DepthWidth - 1, pre : 0..PreWidth - 1, post : Nat]

Documents ==
  {d \in Seq(Blocks) : \A i, j \in DOMAIN d : i < j => d[i].pre < d[j].pre}

ASSUME StoresHoldDocuments == Stores \subseteq Seq(Documents)

VARIABLES
  docs,     \* the documents
  kind,     \* the tokenizer of the store
  where,    \* the clause
  phase,    \* "open", "scan", "check", "done" or "panic"
  indexes,  \* the indexes of the engine
  hint,     \* the chosen lookup
  at,       \* how many documents are done
  rows,     \* the rows, by document and position
  skipped   \* history: the documents that were skipped

vars == <<docs, kind, where, phase, indexes, hint, at, rows, skipped>>

-----------------------------------------------------------------------------
(* Conjuncts.  A column is compared with a literal ("type", "content",     *)
(* "lang", "pre", "depth"), or is in a list ("in": literal names and names *)
(* that are computed), or between two numbers ("between"); "match" is a    *)
(* full-text query, "post" stands for all that no index knows about.       *)

Conditions ==
  [op : {"type"}, name : STRING]
    \cup [op : {"in"}, names : SUBSET STRING, computed : SUBSET STRING]
    \cup [op : {"between"}, lo : Nat, hi : Nat]
    \cup [op : {"pre", "depth", "post"}, num : Nat]
    \cup [op : {"content", "lang", "match"}, text : Texts]

ASSUME ClausesAreConditions == Clauses \subseteq Seq(Conditions)

QueryTerms(text, k) == Tokens(text, k)

Known(names) == names \cap Range(TypeNames)

HintOf(c) ==
  CASE c.op = "type" /\ Known({c.name}) # {} -> TypesHint({c.name})
    [] c.op = "in" /\ Known(c.names) # {} -> TypesHint(Known(c.names))
    [] c.op = "pre" -> PreHint(c.num % PreWidth)
    [] c.op = "between" -> RangeHint(c.lo % PreWidth, c.hi % PreWidth)
    [] c.op = "content" -> ContentHint(c.text)
    [] c.op = "lang" /\ c.text # NoLang -> LangHint(c.text)
    [] c.op = "depth" /\ c.num > 0 -> DepthHint(c.num % DepthWidth)
    [] c.op = "match" /\ QueryTerms(c.text, kind) # {} ->
         TermHint(QueryTerms(c.text, kind))
    [] OTHER -> FullScan

\* The value of the clause on a row.
Holds(c, b) ==
  CASE c.op = "type" -> b.type = c.name
    [] c.op = "in" -> b.type \in c.names \cup c.computed
    [] c.op = "pre" -> b.pre = c.num
    [] c.op = "between" -> c.lo <= b.pre /\ b.pre <= c.hi
    [] c.op = "content" -> b.content = c.text
    [] c.op = "lang" -> b.lang = c.text
    [] c.op = "depth" -> b.depth = c.num
    [] c.op = "match" -> /\ Tokens(c.text, kind) # {}
                         /\ Tokens(c.text, kind) \subseteq Tokens(b.content, kind)
    [] c.op = "post" -> b.post <= c.num

Matches(d, i) == \A k \in DOMAIN where : Holds(where[k], docs[d][i])

-----------------------------------------------------------------------------
(* Planning.                                                               *)

Candidates ==
  LET hinted == Ascending({k \in DOMAIN where : HintOf(where[k]).by # "none"})
  IN  [n \in DOMAIN hinted |-> HintOf(where[hinted[n]])]

\* How many blocks the hint finds in all documents.
Cost(h) ==
  Cardinality(UNION {{d} \X DOMAIN Resolve(h, indexes[d]) :
                       d \in DOMAIN indexes})

\* The first of the cheapest.
Cheapest ==
  LET cost == [k \in DOMAIN Candidates |-> Cost(Candidates[k])]
  IN  IF Candidates = <<>> THEN FullScan
      ELSE Candidates[Min({k \in DOMAIN cost :
                             \A j \in DOMAIN cost : cost[k] <= cost[j]})]

\* The last conjunct of the clause that passes the test, if one does.
LastWhere(Test(_)) ==
  LET found == {k \in DOMAIN where : Test(where[k])}
  IN  IF found = {} THEN {} ELSE {where[Max(found)]}

\* Mutated form: a content is looked for among the headings though the
\* clause does not ask for a heading.
ZoneMapSkipAnyType(zone) ==
  \E c \in LastWhere(LAMBDA x : x.op = "content") :
    \A h \in zone.headingContents : Fold(h) # Fold(c.text)

ZoneMapSkip(zone) ==
  \/ \E c \in LastWhere(LAMBDA x : x.op = "lang" /\ x.text # NoLang) :
       c.text \notin zone.codeLanguages
  \/ \E c \in LastWhere(LAMBDA x : x.op = "depth" /\ x.num \in 1..DepthWidth - 1) :
       c.num > zone.maxHeadingDepth
  \/ /\ \E c \in LastWhere(LAMBDA x : x.op = "type" /\ Known({x.name}) # {}) :
          c.name = "heading"
     /\ \E c \in LastWhere(LAMBDA x : x.op = "content") :
          \A h \in zone.headingContents : Fold(h) # Fold(c.text)

\* Mutated form: one full-text conjunct among others is enough.
WhereIndexedPartly == hint.by = "terms"

\* The lookup has evaluated the whole clause.
WhereFullyIndexed == hint.by = "terms" /\ Len(where) = 1

-----------------------------------------------------------------------------
(* Steps.                                                                  *)

BuildIndex ==
  /\ phase = "open" /\ Len(indexes) < Len(docs)
  /\ indexes' = Append(indexes, Build(docs[Len(indexes) + 1], kind))
  /\ UNCHANGED <<docs, kind, where, phase, hint, at, rows, skipped>>

\* The store file has kept the index.
ReadIndex ==
  /\ phase = "open" /\ Len(indexes) < Len(docs)
  /\ indexes' =
       Append(indexes,
              FromBytes(ToBytes(Build(docs[Len(indexes) + 1], kind))))
  /\ UNCHANGED <<docs, kind, where, phase, hint, at, rows, skipped>>

Opened == phase = "open" /\ Len(indexes) = Len(docs)

PlanPanics ==
  \E k \in DOMAIN Candidates, d \in DOMAIN indexes :
    Panics(Candidates[k], indexes[d])

PanicInPlan ==
  /\ Opened /\ PlanPanics
  /\ phase' = "panic"
  /\ UNCHANGED <<docs, kind, where, indexes, hint, at, rows, skipped>>

Plan ==
  /\ Opened /\ ~PlanPanics
  /\ hint' = Cheapest
  /\ phase' = "scan"
  /\ UNCHANGED <<docs, kind, where, indexes, at, rows, skipped>>

SkipDocument ==
  /\ phase = "scan" /\ at < Len(docs)
  /\ ZoneMapSkip(ZoneMaps(docs[at + 1]))
  /\ at' = at + 1
  /\ skipped' = skipped \cup {at + 1}
  /\ UNCHANGED <<docs, kind, where, phase, indexes, hint, rows>>

\* With no hint, Resolve gives all positions.
ScanDocument ==
  /\ phase = "scan" /\ at < Len(docs)
  /\ ~ZoneMapSkip(ZoneMaps(docs[at + 1]))
  /\ LET found == Resolve(hint, indexes[at + 1])
     IN  rows' = rows \o [i \in DOMAIN found |-> <<at + 1, found[i]>>]
  /\ at' = at + 1
  /\ UNCHANGED <<docs, kind, where, phase, indexes, hint, skipped>>

EndScan ==
  /\ phase = "scan" /\ at = Len(docs)
  /\ phase' = "check"
  /\ UNCHANGED <<docs, kind, where, indexes, hint, at, rows, skipped>>

CheckRows ==
  /\ phase = "check"
  /\ LET kept == Ascending({n \in DOMAIN rows :
                              WhereFullyIndexed \/ Matches(rows[n][1], rows[n][2])})
     IN  rows' = [n \in DOMAIN kept |-> rows[kept[n]]]
  /\ phase' = "done"
  /\ UNCHANGED <<docs, kind, where, indexes, hint, at, skipped>>

Init ==
  /\ docs \in Stores /\ kind \in Kinds /\ where \in Clauses
  /\ phase = "open" /\ indexes = <<>>
  /\ hint = FullScan /\ at = 0 /\ rows = <<>> /\ skipped = {}

Next ==
  \/ BuildIndex \/ ReadIndex \/ PanicInPlan \/ Plan
  \/ SkipDocument \/ ScanDocument \/ EndScan \/ CheckRows

Spec == Init /\ [][Next]_vars

-----------------------------------------------------------------------------
(* Properties.                                                             *)

\* The places of all blocks, and the order in which a full scan reads them.
Places == UNION {{d} \X DOMAIN docs[d] : d \in DOMAIN docs}

Before(p, q) == p[1] < q[1] \/ (p[1] = q[1] /\ p[2] < q[2])

InOrder(s) == \A m, n \in DOMAIN s : m < n => Before(s[m], s[n])

\* A list with names that are computed: the hint looks up the others only.
ListIsComputed == \E c \in Range(where) : c.op = "in" /\ c.computed # {}

\* A bound of BETWEEN that does not fit the numbers of the index.
BoundWraps ==
  \E c \in Range(where) :
    c.op = "between" /\ (c.lo >= PreWidth \/ c.hi >= PreWidth)

\* A range that, as the index sees it, ends before it starts.
RangeInverted ==
  \E c \in Range(where) :
    c.op = "between" /\ c.lo % PreWidth > c.hi % PreWidth

\* A "lang" or "depth" that a frontmatter sets: rows and indexes have it,
\* the zone maps do not.
FrontmatterHasColumn(d) ==
  \E b \in Range(docs[d]) :
    \/ b.lang # NoLang /\ b.type # "code"
    \/ b.depth # 0 /\ b.type # "heading"

\* An index that was read from the store file is the one that is built from
\* the blocks (DocumentIndex::to_bytes and from_bytes): sections of variable
\* length follow each other, and one wrong length shifts all that follows.
IndexesDescribeBlocks ==
  \A d \in DOMAIN indexes : indexes[d] = Build(docs[d], kind)

\* Lookups and skips do not change the answer: a query returns the rows of a
\* full scan, each once and in their order, whatever the other conjuncts made
\* cheaper (choose_best_hint, zone_map_skip, the recheck of exec_select).
\* Three cases are left out because the code does lose rows there: a list
\* with computed names, a BETWEEN bound of 2^32 or more, and the "lang" or
\* "depth" of a frontmatter.  A query without an answer is one with a range
\* that ends before it starts (BTreeMap::range in estimate_hint_cost, also
\* for a candidate that is not chosen).
FindsAllMatching ==
  /\ phase = "panic" => RangeInverted
  /\ (phase = "done" /\ ~ListIsComputed /\ ~BoundWraps) =>
       /\ InOrder(rows)
       /\ Range(rows) =
            {p \in Places : /\ Matches(p[1], p[2])
                            /\ p[1] \in skipped => ~FrontmatterHasColumn(p[1])}

\* In no case does a query return a row that its clause refuses, or one row
\* twice (get_any sorts and dedups; a lookup that wraps finds other rows,
\* which the recheck drops).
ReturnsOnlyMatching ==
  phase = "done" =>
    /\ IsInjective(rows)
    /\ \A n \in DOMAIN rows : Matches(rows[n][1], rows[n][2])

\* A query in a script without spaces finds a text that contains it, however
\* short it is and whatever surrounds it (tokenize keeps all window sizes:
\* "so a query shorter than n can still match inside a longer indexed run").
SubstringsMatch ==
  (phase = "done" /\ kind # "word" /\ skipped = {}) =>
    \A k \in DOMAIN where :
      LET query == Fold(where[k].text)
      IN  (where[k].op = "match" /\ Len(where) = 1 /\ query # <<>>
             /\ Range(query) \subseteq Cjk) =>
            \A d \in DOMAIN docs : \A i \in DOMAIN docs[d] :
              LET text == Fold(docs[d][i].content)
              IN  (\E j \in 0..Len(text) - Len(query) :
                     SubSeq(text, j + 1, j + Len(query)) = query) =>
                    \E n \in DOMAIN rows : rows[n] = <<d, i>>
=============================================================================
