--------------------------- MODULE DocumentIndex ---------------------------
(***************************************************************************)
(* What a document is looked up by (src/indexes.rs and ZoneMaps in         *)
(* src/document.rs): the secondary indexes over its blocks, the tokens of  *)
(* the full-text index, the bytes an index is kept as in the store file,   *)
(* the hints a query resolves against an index, and the zone maps that     *)
(* let a query skip the document.  Definitions only: QueryScan uses them.  *)
(*                                                                         *)
(* A block is a record of its type, its content (a sequence of             *)
(* characters), pre and post, and the properties "lang" and "depth"        *)
(* (NoLang and 0 where a block has none).                                  *)
(***************************************************************************)
EXTENDS Integers, SequencesExt, FiniteSetsExt

CONSTANTS
  Lower,       \* the lower case of each character
  Cjk,         \* the lower-case characters of scripts without spaces
  Separators,  \* the characters that are not alphanumeric
  NoLang       \* the lang of a block that has none

ASSUME CharactersAreLower ==
  /\ Lower \in [DOMAIN Lower -> DOMAIN Lower]
  /\ \A c \in DOMAIN Lower : Lower[Lower[c]] = Lower[c]
  /\ Cjk \cup Separators \subseteq DOMAIN Lower
  /\ Cjk \cap Separators = {}

-----------------------------------------------------------------------------
(* Tokens.                                                                 *)

Texts == Seq(DOMAIN Lower)

Fold(text) == [i \in DOMAIN text |-> Lower[text[i]]]

NgramSize(kind) == CASE kind = "word" -> 0 [] kind = "bigram" -> 2
                     [] kind = "trigram" -> 3

Class(c, kind) == IF c \in Separators THEN "skip"
                  ELSE IF kind # "word" /\ c \in Cjk THEN "cjk"
                  ELSE "other"

\* Mutated form: only whole n-grams, so a shorter query finds nothing.
IsWindowWhole(size, kind) == size = NgramSize(kind)

IsWindow(size, kind) == size <= NgramSize(kind)

\* Where the tokens of a text are: the whole of each run of one script, and
\* in a run without spaces all its windows of up to n characters.
Windows(text, kind) ==
  LET class == [i \in DOMAIN text |-> Class(text[i], kind)]
      Run(i, j) == \A k \in i..j : class[k] = class[i]
      Whole(i, j) == /\ i > 1 => class[i - 1] # class[i]
                     /\ j < Len(text) => class[j + 1] # class[i]
  IN  {w \in {<<i, j>> : i, j \in DOMAIN text} :
         /\ w[1] <= w[2] /\ Run(w[1], w[2])
         /\ \/ class[w[1]] = "other" /\ Whole(w[1], w[2])
            \/ class[w[1]] = "cjk" /\ IsWindow(w[2] - w[1] + 1, kind)}

Tokens(text, kind) ==
  LET lower == Fold(text)
  IN  {SubSeq(lower, w[1], w[2]) : w \in Windows(lower, kind)}

TokensAt(text, kind, i) == {<<i, w>> : w \in Windows(Fold(text), kind)}

TokenCount(blocks, kind) ==
  Cardinality(UNION {TokensAt(blocks[i].content, kind, i) :
                       i \in DOMAIN blocks})

-----------------------------------------------------------------------------
(* The indexes.  Postings are sets of block positions: the lists of the    *)
(* code are sorted and without duplicates.                                 *)

\* Where each key is, from the keys of each block.
Postings(keys) ==
  [k \in UNION Range(keys) |-> {i \in DOMAIN keys : k \in keys[i]}]

\* The position of the block with each number; the last one wins.
ByNumber(numbers) ==
  [n \in Range(numbers) |-> Max({i \in DOMAIN numbers : numbers[i] = n})]

LangKeys(b) == {b.lang} \ {NoLang}
DepthKeys(b) == {b.depth} \ {0}

\* Mutated form: the keys of by_content keep their case.
ContentKeysAsIs(b) == {b.content}

ContentKeys(b) == {Fold(b.content)}

Build(blocks, kind) ==
  [bitmap |-> Postings([i \in DOMAIN blocks |-> {blocks[i].type}]),
   byPre |-> ByNumber([i \in DOMAIN blocks |-> blocks[i].pre]),
   byPost |-> ByNumber([i \in DOMAIN blocks |-> blocks[i].post]),
   byContent |-> Postings([i \in DOMAIN blocks |-> ContentKeys(blocks[i])]),
   byLang |-> Postings([i \in DOMAIN blocks |-> LangKeys(blocks[i])]),
   byDepth |-> Postings([i \in DOMAIN blocks |-> DepthKeys(blocks[i])]),
   terms |-> Postings([i \in DOMAIN blocks |-> Tokens(blocks[i].content, kind)]),
   blockCount |-> Len(blocks),
   tokenCount |-> TokenCount(blocks, kind)]

-----------------------------------------------------------------------------
(* The bytes of an index: its sections one after the other, each a count   *)
(* of entries and then the entries.  A number is one element here, a text  *)
(* its length and its characters; the order of the entries is free.        *)

TypeNames ==
  <<"heading", "paragraph", "code", "list", "table_cell", "table_row",
    "table_align", "blockquote", "horizontal_rule", "html", "yaml", "toml",
    "math", "definition", "footnote">>

TypeOrd(type) == CHOOSE n \in 0..14 : TypeNames[n + 1] = type
TypeFromOrd(n) == TypeNames[n + 1]

\* The elements of a finite set of numbers, the smallest first.
Ascending(S) ==
  [k \in 1..Cardinality(S) |->
    CHOOSE x \in S : Cardinality({y \in S : y < x}) = k - 1]

Encode(shape, x) ==
  CASE shape = "type" -> <<TypeOrd(x)>>
    [] shape = "number" -> <<x>>
    [] shape = "text" -> <<Len(x)>> \o x
    [] shape = "list" -> <<Cardinality(x)>> \o Ascending(x)

\* to[n]: the bytes after n entries, and the keys that are left.
EncodeMap(f, key, value) ==
  LET size == Cardinality(DOMAIN f)
      to[n \in 0..size] ==
        IF n = 0 THEN [left |-> DOMAIN f, out |-> <<size>>]
        ELSE LET so == to[n - 1]
                 k == CHOOSE k \in so.left : TRUE
             IN  [left |-> so.left \ {k},
                  out |-> so.out \o Encode(key, k) \o Encode(value, f[k])]
  IN  to[size].out

\* Mutated form: two sections are written in the other order.
ToBytesSwapped(index) ==
  EncodeMap(index.bitmap, "type", "list")
    \o EncodeMap(index.byPost, "number", "number")
    \o EncodeMap(index.byPre, "number", "number")
    \o EncodeMap(index.byContent, "text", "list")
    \o EncodeMap(index.byLang, "text", "list")
    \o EncodeMap(index.byDepth, "number", "list")
    \o EncodeMap(index.terms, "text", "list")
    \o <<index.blockCount, index.tokenCount>>

ToBytes(index) ==
  EncodeMap(index.bitmap, "type", "list")
    \o EncodeMap(index.byPre, "number", "number")
    \o EncodeMap(index.byPost, "number", "number")
    \o EncodeMap(index.byContent, "text", "list")
    \o EncodeMap(index.byLang, "text", "list")
    \o EncodeMap(index.byDepth, "number", "list")
    \o EncodeMap(index.terms, "text", "list")
    \o <<index.blockCount, index.tokenCount>>

\* Reading: from the bytes and the place to read at, what is read (got) and
\* the place behind it (at).
Decode(shape, data, at) ==
  CASE shape = "type" -> [got |-> TypeFromOrd(data[at]), at |-> at + 1]
    [] shape = "number" -> [got |-> data[at], at |-> at + 1]
    [] shape = "text" ->
         [got |-> SubSeq(data, at + 1, at + data[at]),
          at |-> at + data[at] + 1]
    [] shape = "list" ->
         [got |-> {data[j] : j \in at + 1..at + data[at]},
          at |-> at + data[at] + 1]

Inserted(f, k, v) == [x \in {k} \cup DOMAIN f |-> IF x = k THEN v ELSE f[x]]

DecodeMap(data, at, key, value) ==
  LET read[n \in 0..data[at]] ==
        IF n = 0 THEN [got |-> <<>>, at |-> at + 1]
        ELSE LET so == read[n - 1]
                 k == Decode(key, data, so.at)
                 v == Decode(value, data, k.at)
             IN  [got |-> Inserted(so.got, k.got, v.got), at |-> v.at]
  IN  read[data[at]]

FromBytes(data) ==
  LET bitmap == DecodeMap(data, 1, "type", "list")
      byPre == DecodeMap(data, bitmap.at, "number", "number")
      byPost == DecodeMap(data, byPre.at, "number", "number")
      byContent == DecodeMap(data, byPost.at, "text", "list")
      byLang == DecodeMap(data, byContent.at, "text", "list")
      byDepth == DecodeMap(data, byLang.at, "number", "list")
      terms == DecodeMap(data, byDepth.at, "text", "list")
  IN  [bitmap |-> bitmap.got, byPre |-> byPre.got, byPost |-> byPost.got,
       byContent |-> byContent.got, byLang |-> byLang.got,
       byDepth |-> byDepth.got, terms |-> terms.got,
       blockCount |-> data[terms.at], tokenCount |-> data[terms.at + 1]]

-----------------------------------------------------------------------------
(* Hints: what a query may look up.  resolve gives the positions of the    *)
(* blocks, in the order in which the rows come.                            *)

TypesHint(names) == [by |-> "type", names |-> names]
RangeHint(lo, hi) == [by |-> "range", lo |-> lo, hi |-> hi]
PreHint(pre) == [by |-> "pre", num |-> pre]
ContentHint(text) == [by |-> "content", text |-> text]
LangHint(lang) == [by |-> "lang", text |-> lang]
DepthHint(depth) == [by |-> "depth", num |-> depth]
TermHint(terms) == [by |-> "terms", terms |-> terms]
FullScan == [by |-> "none"]

Entry(f, k) == IF k \in DOMAIN f THEN f[k] ELSE {}

AllTerms(f, terms) ==
  IF terms = {} THEN {}
  ELSE {i \in UNION {Entry(f, t) : t \in terms} :
          \A t \in terms : i \in Entry(f, t)}

\* The range of a BTreeMap panics on bounds the wrong way round, unless the
\* map is empty.
Panics(hint, index) ==
  hint.by = "range" /\ hint.lo > hint.hi /\ index.byPre # <<>>

Resolve(hint, index) ==
  LET Pres(lo, hi) ==
        Ascending({p \in DOMAIN index.byPre : lo <= p /\ p <= hi})
      InRange(lo, hi) ==
        [i \in DOMAIN Pres(lo, hi) |-> index.byPre[Pres(lo, hi)[i]]]
  IN  CASE hint.by = "type" ->
             Ascending(UNION {Entry(index.bitmap, t) : t \in hint.names})
        [] hint.by = "pre" -> InRange(hint.num, hint.num)
        [] hint.by = "range" -> InRange(hint.lo, hint.hi)
        [] hint.by = "content" ->
             Ascending(Entry(index.byContent, Fold(hint.text)))
        [] hint.by = "lang" -> Ascending(Entry(index.byLang, hint.text))
        [] hint.by = "depth" -> Ascending(Entry(index.byDepth, hint.num))
        [] hint.by = "terms" -> Ascending(AllTerms(index.terms, hint.terms))
        [] OTHER -> Ascending(1..index.blockCount)

-----------------------------------------------------------------------------
(* Zone maps: what a document says of itself as a whole.                   *)

ZoneMaps(blocks) ==
  LET Of(type) == {i \in DOMAIN blocks : blocks[i].type = type}
  IN  [maxHeadingDepth |->
         Max({0} \cup {blocks[i].depth : i \in Of("heading")}),
       headingContents |-> {blocks[i].content : i \in Of("heading")},
       codeLanguages |-> {blocks[i].lang : i \in Of("code")} \ {NoLang}]

=============================================================================
