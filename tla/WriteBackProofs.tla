-------------------------- MODULE WriteBackProofs --------------------------
(***************************************************************************)
(* Proofs about WriteBack, for any documents, texts, statements and edits, *)
(* and for files of any length.  The first half is about SourcePatch: what *)
(* the parser finds in a file that was patched.  A file is cut behind a    *)
(* block into its first lines and the rest, and says what the two say; the *)
(* patches go from the last block to the first, so that the lines before   *)
(* the cut are those of the file and the rest says what it should          *)
(* (Standing).  The second half is about the statements: what they have in *)
(* hand when they patch, and who knows of a document that disagrees with   *)
(* its file.                                                               *)
(***************************************************************************)
EXTENDS WriteBack, FiniteSetTheorems, SequenceTheorems, TLAPS

-----------------------------------------------------------------------------
(* Induction, and the elements of a finite set in order.                   *)

(* A set of natural numbers that is not empty has a least element. *)
LEMMA LeastNatural ==
  ASSUME NEW T \in SUBSET Nat, T # {}
  PROVE  \E m \in T : \A n \in T : m <= n
<1>1. PICK m \in T : \A n \in T : ~(<<n, m>> \in OpToRel(<, Nat))
  BY NatLessThanWellFounded, WFMin
<1>2. \A n \in T : ~(n < m)  BY <1>1 DEF OpToRel
<1>3. QED  BY <1>2

(* Induction up to N, over a set. *)
LEMMA UpTo ==
  ASSUME NEW N \in Nat, NEW T, 0 \in T,
         \A n \in 1..N : n - 1 \in T => n \in T
  PROVE  0..N \subseteq T
<1> DEFINE Rest == {n \in 0..N : n \notin T}
<1>1. SUFFICES ASSUME Rest # {} PROVE FALSE  OBVIOUS
<1>2. PICK m \in Rest : \A n \in Rest : m <= n
  <2>1. Rest \in SUBSET Nat  OBVIOUS
  <2>2. QED  BY <1>1, <2>1, LeastNatural
<1>3. m # 0 /\ m - 1 \in 0..N /\ m - 1 \notin Rest  BY <1>2
<1>4. m - 1 \in T  BY <1>3
<1>5. QED  BY <1>2, <1>3, <1>4

Preceding(S, before, x) == {y \in S : <<y, x>> \in before}

(* The pairs put S into a strict total order. *)
Orders(before, S) ==
  /\ \A x \in S : <<x, x>> \notin before
  /\ \A x, y, z \in S : <<x, y>> \in before /\ <<y, z>> \in before => <<x, z>> \in before
  /\ \A x, y \in S : x = y \/ <<x, y>> \in before \/ <<y, x>> \in before

(* An element has more elements before it than those have. *)
LEMMA PrecedingGrows ==
  ASSUME NEW S, IsFiniteSet(S), NEW before, Orders(before, S), NEW x \in S
  PROVE  /\ Cardinality(Preceding(S, before, x)) \in 0..Cardinality(S) - 1
         /\ \A y \in S : <<y, x>> \in before =>
              Cardinality(Preceding(S, before, y)) < Cardinality(Preceding(S, before, x))
<1>1. Cardinality(S) \in Nat  BY FS_CardinalityType
<1>2. ASSUME NEW y \in S
      PROVE  /\ IsFiniteSet(Preceding(S, before, y))
             /\ Cardinality(Preceding(S, before, y)) \in Nat
             /\ y \notin Preceding(S, before, y)
             /\ Preceding(S, before, y) \in SUBSET S
  <2>1. y \notin Preceding(S, before, y) /\ Preceding(S, before, y) \in SUBSET S
    BY DEF Preceding, Orders
  <2>2. QED  BY <2>1, FS_Subset, FS_CardinalityType
<1>3. Cardinality(Preceding(S, before, x)) \in 0..Cardinality(S) - 1
  <2>1. /\ Cardinality(Preceding(S, before, x)) <= Cardinality(S)
        /\ Cardinality(Preceding(S, before, x)) # Cardinality(S)
    BY <1>2, FS_Subset
  <2>2. QED  BY <1>1, <1>2, <2>1
<1>4. ASSUME NEW y \in S, <<y, x>> \in before
      PROVE  Cardinality(Preceding(S, before, y)) < Cardinality(Preceding(S, before, x))
  <2>1. /\ Preceding(S, before, y) \in SUBSET Preceding(S, before, x)
        /\ y \in Preceding(S, before, x)
    BY <1>4 DEF Preceding, Orders
  <2>2. Cardinality(Preceding(S, before, y)) <= Cardinality(Preceding(S, before, x))
    BY <1>2, <2>1, FS_Subset
  <2>3. Cardinality(Preceding(S, before, y)) # Cardinality(Preceding(S, before, x))
    BY <1>2, <2>1, FS_Subset
  <2>4. QED  BY <1>2, <2>2, <2>3
<1>5. QED  BY <1>3, <1>4

(* Sorted lists each element once, and each at its place. *)
LEMMA SortedLists ==
  ASSUME NEW S, IsFiniteSet(S), NEW before, Orders(before, S)
  PROVE  /\ Sorted(S, before) \in Seq(S)
         /\ Len(Sorted(S, before)) = Cardinality(S)
         /\ Cardinality(S) \in Nat
         /\ \A n \in 1..Cardinality(S) :
              Cardinality(Preceding(S, before, Sorted(S, before)[n])) = n - 1
         /\ \A x \in S : /\ Cardinality(Preceding(S, before, x)) \in 0..Cardinality(S) - 1
                         /\ Sorted(S, before)[Cardinality(Preceding(S, before, x)) + 1] = x
<1> DEFINE N == Cardinality(S)
           C(x) == Cardinality(Preceding(S, before, x))
           R == [x \in S |-> C(x) + 1]
           A == Sorted(S, before)
<1>1. N \in Nat  BY FS_CardinalityType
<1>2. \A x \in S : C(x) \in 0..N - 1  BY PrecedingGrows
<1>3. \A x, y \in S : <<y, x>> \in before => C(y) < C(x)  BY PrecedingGrows
<1>4. A = [k \in 1..N |-> CHOOSE x \in S : C(x) = k - 1]
  BY DEF Sorted, Preceding
<1> HIDE DEF C, A
<1>5. R \in [S -> 1..N] /\ \A x \in S : R[x] = C(x) + 1  BY <1>1, <1>2
<1>6. ASSUME NEW x \in S, NEW y \in S, C(x) = C(y) PROVE x = y
  <2>1. C(x) \in Nat /\ C(y) \in Nat  BY <1>1, <1>2
  <2>2. x = y \/ <<x, y>> \in before \/ <<y, x>> \in before  BY DEF Orders
  <2>3. <<x, y>> \in before => C(x) < C(y)  BY <1>3
  <2>4. <<y, x>> \in before => C(y) < C(x)  BY <1>3
  <2>5. QED  BY <1>6, <2>1, <2>2, <2>3, <2>4
<1>7. \A k \in 1..N : \E x \in S : C(x) = k - 1
  <2> HIDE DEF R
  <2>1. \A x, y \in S : R[x] = R[y] => x = y
    <3>1. ASSUME NEW x \in S, NEW y \in S, R[x] = R[y] PROVE x = y
      <4>1. C(x) \in Int /\ C(y) \in Int  BY <1>1, <1>2
      <4>2. C(x) = C(y)  BY <1>5, <3>1, <4>1
      <4>3. QED  BY <1>6, <4>2
    <3>2. QED  BY <3>1
  <2>2. R \in Injection(S, 1..N)  BY <1>5, <2>1 DEF Injection, IsInjective
  <2>3. IsFiniteSet(1..N) /\ Cardinality(1..N) = N  BY <1>1, FS_Interval
  <2>4. R \in Surjection(S, 1..N)  BY <2>2, <2>3, FS_Injection
  <2>5. ASSUME NEW k \in 1..N PROVE \E x \in S : C(x) = k - 1
    <3>1. PICK x \in S : R[x] = k  BY <2>4 DEF Surjection
    <3>2. C(x) \in Int /\ R[x] = C(x) + 1  BY <1>1, <1>2, <1>5
    <3>3. C(x) = k - 1  BY <3>1, <3>2
    <3>4. QED  BY <3>3
  <2>6. QED  BY <2>5
<1>8. ASSUME NEW k \in 1..N PROVE A[k] \in S /\ C(A[k]) = k - 1
  <2>1. A[k] = CHOOSE x \in S : C(x) = k - 1  BY <1>4
  <2>2. QED  BY <1>7, <2>1
<1>9. A \in Seq(S) /\ Len(A) = N
  <2>1. A \in [1..N -> S]  BY <1>4, <1>8
  <2>2. QED  BY <1>1, <2>1
<1>10. ASSUME NEW x \in S PROVE A[C(x) + 1] = x
  <2>1. C(x) + 1 \in 1..N /\ C(x) \in Int  BY <1>1, <1>2
  <2>2. A[C(x) + 1] \in S /\ C(A[C(x) + 1]) = C(x)  BY <1>8, <2>1
  <2>3. QED  BY <1>6, <2>2
<1>11. QED  BY <1>1, <1>2, <1>8, <1>9, <1>10 DEF A, C

-----------------------------------------------------------------------------
(* Lines and blocks.                                                       *)

Kind == {"heading", "rule", "paragraph"}
BlockSet == [kind : Kind, content : Seq(Texts), first : Nat \ {0}, last : Nat \ {0}]

NewBlock(kind, parts, first, last) ==
  [kind |-> kind, content |-> parts, first |-> first, last |-> last]

(* The last block goes on to line i. *)
Extended(b, part, i) ==
  [b EXCEPT ![Len(b)] = NewBlock("paragraph", @.content \o <<part>>, @.first, i)]

(* The fields of a line. *)
LEMMA LineIs ==
  ASSUME NEW l \in Line
  PROVE  /\ l.kind \in {"blank", "rule", "heading", "text"}
         /\ l.parts \in Seq(Texts) /\ Len(l.parts) \in {0, 1, 2}
         /\ l.kind \in {"heading", "text"} => Len(l.parts) # 0
         /\ l.kind = "blank" => l = Blank
         /\ l.kind # "text" => Len(l.parts) <= 1
         /\ \A i \in 1..Len(l.parts) : l.parts[i] \in Texts
<1>1. CASE l \in {Blank, Rule}
  <2>1. l.parts = <<>> /\ l.kind \in {"blank", "rule"} /\ (l.kind = "blank" => l = Blank)
    BY <1>1 DEF Blank, Rule
  <2>2. l.parts \in Seq(Texts) /\ Len(l.parts) = 0  BY <2>1, EmptySeq
  <2>3. QED  BY <2>1, <2>2
<1>2. CASE l \in {HeadingLine(t) : t \in Texts}
  <2>1. PICK t \in Texts : l = HeadingLine(t)  BY <1>2
  <2>2. <<t>> \in Seq(Texts) /\ Len(<<t>>) = 1 /\ <<t>>[1] = t  OBVIOUS
  <2>3. QED  BY <2>1, <2>2 DEF HeadingLine
<1>3. CASE l \in {TextLine(<<t>>) : t \in Texts}
  <2>1. PICK t \in Texts : l = TextLine(<<t>>)  BY <1>3
  <2>2. <<t>> \in Seq(Texts) /\ Len(<<t>>) = 1 /\ <<t>>[1] = t  OBVIOUS
  <2>3. QED  BY <2>1, <2>2 DEF TextLine
<1>4. CASE l \in {TextLine(p) : p \in Texts \X Texts}
  <2>1. PICK p \in Texts \X Texts : l = TextLine(p)  BY <1>4
  <2>2. PICK s \in Texts, t \in Texts : p = <<s, t>>  BY <2>1
  <2>3. p \in Seq(Texts) /\ Len(p) = 2 /\ p[1] = s /\ p[2] = t  BY <2>2
  <2>4. /\ l.kind = "text" /\ l.parts = p
    BY <2>1 DEF TextLine
  <2>5. \A i \in 1..Len(l.parts) : l.parts[i] \in Texts
    BY <2>3, <2>4, ElementOfSeq
  <2>6. /\ l.parts \in Seq(Texts) /\ Len(l.parts) = 2
    BY <2>3, <2>4
  <2>7. QED  BY <2>4, <2>5, <2>6
<1>5. QED  BY <1>1, <1>2, <1>3, <1>4 DEF Line

(* Only the last block becomes longer. *)
LEMMA ExtendedIs ==
  ASSUME NEW b \in Blocks, b # <<>>, NEW part \in Texts, NEW i \in Nat \ {0}
  PROVE  /\ Extended(b, part, i) \in Blocks
         /\ Len(Extended(b, part, i)) = Len(b) /\ Len(b) \in Nat \ {0}
         /\ \A k \in 1..Len(b) - 1 : Extended(b, part, i)[k] = b[k]
         /\ Extended(b, part, i)[Len(b)] =
              NewBlock("paragraph", b[Len(b)].content \o <<part>>,
                       b[Len(b)].first, i)
<1> DEFINE n == Len(b)
           e == NewBlock("paragraph", b[n].content \o <<part>>, b[n].first, i)
<1>1. b \in Seq(BlockSet)  BY DEF Blocks, BlockSet, Kind
<1>2. n \in Nat \ {0} /\ n \in 1..n  BY <1>1, EmptySeq
<1>3. b[n] \in BlockSet  BY <1>1, <1>2, ElementOfSeq
<1>4. b[n].content \o <<part>> \in Seq(Texts)
  <2>1. <<part>> \in Seq(Texts) /\ b[n].content \in Seq(Texts)  BY <1>3 DEF BlockSet
  <2>2. QED  BY <2>1, ConcatProperties
<1>5. e \in BlockSet  BY <1>3, <1>4 DEF BlockSet, NewBlock, Kind
<1>6. Extended(b, part, i) = [b EXCEPT ![n] = e]  BY DEF Extended
<1> HIDE DEF e
<1>7. /\ [b EXCEPT ![n] = e] \in Seq(BlockSet)
      /\ Len([b EXCEPT ![n] = e]) = n
      /\ \A k \in 1..n : [b EXCEPT ![n] = e][k] = IF k = n THEN e ELSE b[k]
  BY <1>1, <1>2, <1>5, ExceptSeq
<1>8. Blocks = Seq(BlockSet)  BY DEF Blocks, BlockSet, Kind
<1>9. Extended(b, part, i)[n] = e /\ n = Len(b)  BY <1>2, <1>6, <1>7
<1>10. ASSUME NEW k \in 1..n - 1 PROVE Extended(b, part, i)[k] = b[k]
  <2>1. k \in 1..n /\ k # n  BY <1>2
  <2>2. QED  BY <1>6, <1>7, <2>1
<1>11. QED  BY <1>2, <1>6, <1>7, <1>8, <1>9, <1>10 DEF e

(* The blocks stay, and there is one more. *)
LEMMA AppendedIs ==
  ASSUME NEW b \in Blocks, NEW kind \in Kind, NEW parts \in Seq(Texts),
         NEW first \in Nat \ {0}, NEW last \in Nat \ {0}
  PROVE  LET c == Append(b, NewBlock(kind, parts, first, last))
         IN  /\ c \in Blocks /\ Len(c) = Len(b) + 1 /\ Len(b) \in Nat
             /\ \A k \in 1..Len(b) : c[k] = b[k]
             /\ c[Len(b) + 1] = NewBlock(kind, parts, first, last)
<1>1. b \in Seq(BlockSet)  BY DEF Blocks, BlockSet, Kind
<1>2. NewBlock(kind, parts, first, last) \in BlockSet  BY DEF BlockSet, NewBlock
<1>3. QED  BY <1>1, <1>2, AppendProperties, LenProperties DEF Blocks, BlockSet, Kind

(* What a line of text does before a second part is looked at. *)
Continued(b, file, i) ==
  IF ~IsText(file, i - 1)
    THEN Append(b, NewBlock("paragraph", <<file[i].parts[1]>>, i, i))
  ELSE IF Len(file[i - 1].parts) = 2
    THEN Append(b, NewBlock("paragraph", <<file[i].parts[1]>>, i - 1, i))
  ELSE Extended(b, file[i].parts[1], i)

(* What a line does to the blocks before it, by its kind. *)
LEMMA LineCases ==
  ASSUME NEW file \in Lines, NEW i \in DOMAIN file, NEW b
  PROVE  /\ i \in Nat \ {0} /\ DOMAIN file = 1..Len(file) /\ Len(file) \in Nat
         /\ file[i] \in Line
         /\ file[i].kind = "blank" => ParseLine(b, file, i) = b
         /\ file[i].kind \in {"heading", "rule"} =>
              ParseLine(b, file, i) =
                Append(b, NewBlock(file[i].kind, file[i].parts, i, i))
         /\ file[i].kind = "text" /\ Len(file[i].parts) = 1 =>
              ParseLine(b, file, i) = Continued(b, file, i)
         /\ file[i].kind = "text" /\ Len(file[i].parts) = 2 =>
              ParseLine(b, file, i) =
                Append(Continued(b, file, i),
                       NewBlock("paragraph", <<file[i].parts[2]>>, i, i))
<1>1. file \in Seq(Line)  BY DEF Lines
<1>2. DOMAIN file = 1..Len(file) /\ Len(file) \in Nat /\ file[i] \in Line
  BY <1>1, LenProperties, ElementOfSeq
<1>3. QED  BY <1>2 DEF ParseLine, Continued, NewBlock, Extended, SpanLine

-----------------------------------------------------------------------------
(* Recursive functions up to N.                                            *)

Steps(S, N, x, step) == N \in Nat /\ x \in S /\ step \in [1..N -> [S -> S]]

Iteration(S, N, x, step, f) ==
  f \in [0..N -> S] /\ f[0] = x /\ \A n \in 1..N : f[n] = step[n][f[n - 1]]

(* A recursive function exists. *)
LEMMA Iterates ==
  ASSUME NEW S, NEW N, NEW x, NEW step, Steps(S, N, x, step)
  PROVE  \E f : Iteration(S, N, x, step, f)
<1>0. N \in Nat /\ x \in S /\ step \in [1..N -> [S -> S]]  BY DEF Steps
<1> DEFINE Good(f, m) == /\ f \in [0..m -> S] /\ f[0] = x
                         /\ \A n \in 1..m : f[n] = step[n][f[n - 1]]
           T == {m \in 0..N : \E f : Good(f, m)}
<1>1. 0 \in T
  <2> DEFINE z == [n \in 0..0 |-> x]
  <2>1. Good(z, 0)  BY <1>0
  <2> HIDE DEF z, Good
  <2>2. QED  BY <1>0, <2>1
<1>2. ASSUME NEW m \in 1..N, m - 1 \in T PROVE m \in T
  <2>1. PICK f : Good(f, m - 1)  BY <1>2
  <2> DEFINE g == [n \in 0..m |-> IF n = m THEN step[m][f[m - 1]] ELSE f[n]]
  <2>2. g[m] = step[m][f[m - 1]] /\ \A n \in 0..m - 1 : g[n] = f[n]
    BY <1>0
  <2>3. f[m - 1] \in S /\ step[m] \in [S -> S]  BY <1>0, <2>1
  <2>4. g \in [0..m -> S]
    <3>1. \A n \in 0..m : n = m \/ n \in 0..m - 1  BY <1>0
    <3>2. \A n \in 0..m - 1 : f[n] \in S  BY <2>1
    <3>3. \A n \in 0..m : g[n] \in S  BY <2>2, <2>3, <3>1, <3>2
    <3>4. QED  BY <3>3
  <2> HIDE DEF g
  <2>5. g[0] = x  BY <1>0, <2>1, <2>2
  <2>6. ASSUME NEW n \in 1..m PROVE g[n] = step[n][g[n - 1]]
    <3>1. n - 1 \in 0..m - 1 /\ g[n - 1] = f[n - 1]  BY <1>0, <2>2
    <3>2. CASE n = m  BY <2>2, <3>1, <3>2
    <3>3. CASE n # m
      <4>1. n \in 1..m - 1 /\ n \in 0..m - 1  BY <1>0, <3>3
      <4>2. f[n] = step[n][f[n - 1]]  BY <2>1, <4>1
      <4>3. QED  BY <2>2, <3>1, <4>1, <4>2
    <3>4. QED  BY <3>2, <3>3
  <2>7. Good(g, m)  BY <2>4, <2>5, <2>6
  <2>8. QED  BY <2>7
<1>3. \A m \in 1..N : m - 1 \in T => m \in T  BY <1>2
<1> HIDE DEF T
<1>4. 0..N \subseteq T  BY <1>0, <1>1, <1>3, UpTo
<1>5. N \in T  BY <1>0, <1>4
<1>6. QED  BY <1>5 DEF T, Iteration

(* The blocks after each line of a file. *)
Walks(f, file) ==
  /\ f[0] = <<>>
  /\ \A n \in 1..Len(file) : f[n] = ParseLine(f[n - 1], file, n)

(* What every one of these has: its type, and a block if a text goes on.   *)
Walked(b, file, n) ==
  /\ b \in Blocks
  /\ IsText(file, n) => b # <<>> /\ b[Len(b)].last = n
  /\ \A k \in 1..Len(b) : b[k].last <= n

(* The fields of a block. *)
LEMMA BlockFields ==
  ASSUME NEW b \in Blocks, NEW k \in 1..Len(b)
  PROVE  /\ b[k] \in BlockSet /\ b[k].kind \in Kind /\ b[k].content \in Seq(Texts)
         /\ b[k].first \in Nat \ {0} /\ b[k].last \in Nat \ {0}
         /\ Len(b) \in Nat /\ DOMAIN b = 1..Len(b)
<1>1. b \in Seq(BlockSet)  BY DEF Blocks, BlockSet, Kind
<1>2. b[k] \in BlockSet  BY <1>1, ElementOfSeq
<1>3. QED  BY <1>1, <1>2, LenProperties DEF BlockSet

(* Blocks are sequences, and there may be none. *)
LEMMA BlocksAreSeqs ==
  /\ Blocks = Seq(BlockSet) /\ <<>> \in Blocks /\ Len(<<>>) = 0
  /\ \A b \in Blocks : /\ Len(b) \in Nat /\ DOMAIN b = 1..Len(b)
                       /\ b # <<>> => Len(b) \in Nat \ {0}
<1>1. Blocks = Seq(BlockSet)  BY DEF Blocks, BlockSet, Kind
<1>2. QED  BY <1>1, EmptySeq, LenProperties

(* A line of text ends the last block, a new one or that before it. *)
LEMMA ContinuedIsWalked ==
  ASSUME NEW file \in Lines, NEW i \in DOMAIN file, NEW b, Walked(b, file, i - 1),
         file[i].kind = "text"
  PROVE  LET c == Continued(b, file, i)
         IN  /\ c \in Blocks /\ c # <<>> /\ c[Len(c)].last = i
             /\ Len(c) \in Nat \ {0}
             /\ \A k \in 1..Len(c) : c[k].last <= i
             /\ OwnLines(c) => OwnLines(b)
<1> DEFINE c == Continued(b, file, i)
           p == file[i].parts[1]
<1>1. i \in Nat \ {0} /\ file[i] \in Line /\ DOMAIN file = 1..Len(file)
  BY LineCases
<1>2. p \in Texts /\ <<p>> \in Seq(Texts)
  <2>1. Len(file[i].parts) \in {1, 2} /\ p \in Texts  BY <1>1, LineIs
  <2>2. QED  BY <2>1
<1>3. b \in Blocks /\ \A k \in 1..Len(b) : b[k].last <= i - 1
  BY DEF Walked
<1>4. Len(b) \in Nat /\ DOMAIN b = 1..Len(b)  BY <1>3, BlocksAreSeqs
<1>5. \A k \in 1..Len(b) : b[k].last \in Nat /\ b[k].first \in Nat
  BY <1>3, BlockFields
<1>6. ASSUME NEW first \in Nat \ {0},
             c = Append(b, NewBlock("paragraph", <<p>>, first, i))
      PROVE  /\ c \in Blocks /\ c # <<>> /\ c[Len(c)].last = i
             /\ Len(c) \in Nat \ {0}
             /\ \A k \in 1..Len(c) : c[k].last <= i
             /\ OwnLines(c) => OwnLines(b)
  <2> HIDE DEF c, p
  <2>1. /\ c \in Blocks /\ Len(c) = Len(b) + 1
        /\ \A k \in 1..Len(b) : c[k] = b[k]
        /\ c[Len(b) + 1] = NewBlock("paragraph", <<p>>, first, i)
    <3>1. "paragraph" \in Kind  BY DEF Kind
    <3> DEFINE q == <<p>>
               x == NewBlock("paragraph", q, first, i)
    <3>2. q \in Seq(Texts)  BY <1>2
    <3>3. c = Append(b, x)  BY <1>6
    <3> HIDE DEF q
    <3>4. /\ Append(b, x) \in Blocks /\ Len(Append(b, x)) = Len(b) + 1
          /\ \A k \in 1..Len(b) : Append(b, x)[k] = b[k]
          /\ Append(b, x)[Len(b) + 1] = x
      BY <1>1, <1>3, <3>1, <3>2, AppendedIs
    <3> HIDE DEF x
    <3>5. /\ c \in Blocks /\ Len(c) = Len(b) + 1
          /\ \A k \in 1..Len(b) : c[k] = b[k]
          /\ c[Len(b) + 1] = x
      BY <3>3, <3>4
    <3>6. x = NewBlock("paragraph", <<p>>, first, i)  BY DEF x, q
    <3>7. QED  BY <3>5, <3>6
  <2>2. c[Len(c)].last = i  BY <2>1 DEF NewBlock
  <2>3. DOMAIN c = 1..Len(c) /\ c # <<>>  BY <1>4, <2>1, BlocksAreSeqs
  <2>4. ASSUME NEW k \in 1..Len(c) PROVE c[k].last <= i
    <3>1. CASE k = Len(c)  BY <1>1, <2>2, <3>1
    <3>2. CASE k # Len(c)
      <4>1. k \in 1..Len(b)  BY <1>4, <2>1, <3>2
      <4>2. QED  BY <1>1, <1>3, <1>5, <2>1, <4>1
    <3>3. QED  BY <3>1, <3>2
  <2>5. OwnLines(c) => OwnLines(b)
    <3>1. \A k \in DOMAIN b : k \in DOMAIN c /\ c[k] = b[k]  BY <1>4, <2>1, <2>3
    <3>2. QED  BY <3>1 DEF OwnLines
  <2>6. QED  BY <1>4, <2>1, <2>2, <2>3, <2>4, <2>5
<1>7. CASE ~IsText(file, i - 1)
  <2>1. c = Append(b, NewBlock("paragraph", <<p>>, i, i))  BY <1>7 DEF Continued
  <2>2. QED  BY <1>1, <1>6, <2>1
<1>8. CASE IsText(file, i - 1) /\ Len(file[i - 1].parts) = 2
  <2>1. c = Append(b, NewBlock("paragraph", <<p>>, i - 1, i))  BY <1>8 DEF Continued
  <2>2. i - 1 \in Nat \ {0}  BY <1>1, <1>8 DEF IsText
  <2>3. QED  BY <1>6, <2>1, <2>2
<1>9. CASE IsText(file, i - 1) /\ Len(file[i - 1].parts) # 2
  <2> HIDE DEF p
  <2>1. c = Extended(b, p, i)  BY <1>9 DEF Continued, p
  <2>2. b # <<>>  BY <1>9 DEF Walked
  <2> HIDE DEF c
  <2>3. /\ c \in Blocks /\ Len(c) = Len(b) /\ Len(b) \in Nat \ {0}
        /\ \A k \in 1..Len(b) - 1 : c[k] = b[k]
        /\ c[Len(b)] = NewBlock("paragraph", b[Len(b)].content \o <<p>>,
                                b[Len(b)].first, i)
    BY <1>1, <1>2, <1>3, <2>1, <2>2, ExtendedIs
  <2>4. c[Len(c)].last = i /\ c[Len(c)].first = b[Len(b)].first
    BY <2>3 DEF NewBlock
  <2>5. ASSUME NEW k \in 1..Len(c) PROVE c[k].last <= i /\ c[k].first = b[k].first
    <3>1. CASE k = Len(c)  BY <1>1, <2>3, <2>4, <3>1
    <3>2. CASE k # Len(c)
      <4>1. k \in 1..Len(b) - 1 /\ k \in 1..Len(b)  BY <2>3, <3>2
      <4>2. QED  BY <1>1, <1>3, <1>5, <2>3, <4>1
    <3>3. QED  BY <3>1, <3>2
  <2>6. ASSUME OwnLines(c), NEW j \in DOMAIN b, NEW k \in DOMAIN b, j < k
        PROVE  b[j].last < b[k].first
    <3>1. j \in 1..Len(b) - 1 /\ k \in 1..Len(c) /\ j \in 1..Len(c)
      BY <1>4, <2>3, <2>6
    <3>2. DOMAIN c = 1..Len(c)  BY <2>3, BlocksAreSeqs
    <3>3. c[j].last < c[k].first  BY <2>6, <3>1, <3>2 DEF OwnLines
    <3>4. QED  BY <2>3, <2>5, <3>1, <3>3
  <2>7. OwnLines(c) => OwnLines(b)  BY <2>6 DEF OwnLines
  <2>8. c # <<>>  BY <2>3, BlocksAreSeqs
  <2>9. QED  BY <2>3, <2>4, <2>5, <2>7, <2>8 DEF c
<1>10. QED  BY <1>7, <1>8, <1>9

(* A line appends blocks or makes the last one longer; one of two parts    *)
(* makes two blocks that share it, and they keep sharing it.               *)
LEMMA LineWalks ==
  ASSUME NEW file \in Lines, NEW i \in DOMAIN file, NEW b, Walked(b, file, i - 1)
  PROVE  LET c == ParseLine(b, file, i)
         IN  /\ Walked(c, file, i)
             /\ OwnLines(c) => OwnLines(b) /\ Len(file[i].parts) <= 1
<1> DEFINE c == ParseLine(b, file, i)
<1>1. /\ i \in Nat \ {0} /\ file[i] \in Line /\ DOMAIN file = 1..Len(file)
      /\ b \in Blocks /\ \A k \in 1..Len(b) : b[k].last <= i - 1
  BY LineCases DEF Walked
<1>2. Len(b) \in Nat /\ DOMAIN b = 1..Len(b)  BY <1>1, BlocksAreSeqs
<1>3. \A k \in 1..Len(b) : b[k].last \in Nat /\ b[k].first \in Nat
  BY <1>1, BlockFields
<1>4. file[i].kind \in {"blank", "rule", "heading", "text"}  BY <1>1, LineIs
<1>5. CASE file[i].kind = "blank"
  <2>1. c = b  BY <1>5, LineCases
  <2>2. Len(file[i].parts) <= 1 /\ ~IsText(file, i)
    BY <1>1, <1>5, LineIs DEF IsText
  <2>3. \A k \in 1..Len(b) : b[k].last <= i  BY <1>1, <1>3
  <2>4. QED  BY <1>1, <2>1, <2>2, <2>3 DEF Walked
<1>6. CASE file[i].kind \in {"heading", "rule"}
  <2> DEFINE x == NewBlock(file[i].kind, file[i].parts, i, i)
  <2>1. c = Append(b, x)  BY <1>6, LineCases
  <2>2. /\ Len(file[i].parts) <= 1 /\ ~IsText(file, i)
        /\ file[i].parts \in Seq(Texts) /\ file[i].kind \in Kind
    BY <1>1, <1>6, LineIs DEF IsText, Kind
  <2>3. /\ Append(b, x) \in Blocks /\ Len(Append(b, x)) = Len(b) + 1
        /\ \A k \in 1..Len(b) : Append(b, x)[k] = b[k]
        /\ Append(b, x)[Len(b) + 1] = x
    BY <1>1, <2>2, AppendedIs
  <2>4. x.last = i  BY DEF NewBlock
  <2> HIDE DEF x, c
  <2>5. /\ c \in Blocks /\ Len(c) = Len(b) + 1
        /\ \A k \in 1..Len(b) : c[k] = b[k]
        /\ c[Len(b) + 1].last = i
    BY <2>1, <2>3, <2>4
  <2>6. DOMAIN c = 1..Len(c)  BY <2>5, BlocksAreSeqs
  <2>7. ASSUME NEW k \in 1..Len(c) PROVE c[k].last <= i
    <3>1. CASE k = Len(c)  BY <1>1, <2>5, <3>1
    <3>2. CASE k # Len(c)
      <4>1. k \in 1..Len(b)  BY <1>2, <2>5, <3>2
      <4>2. QED  BY <1>1, <1>3, <2>5, <4>1
    <3>3. QED  BY <3>1, <3>2
  <2>8. OwnLines(c) => OwnLines(b)
    <3>1. \A k \in DOMAIN b : k \in DOMAIN c /\ c[k] = b[k]  BY <1>2, <2>5, <2>6
    <3>2. QED  BY <3>1 DEF OwnLines
  <2>9. Walked(c, file, i)  BY <2>2, <2>5, <2>7 DEF Walked
  <2>10. QED  BY <2>2, <2>8, <2>9 DEF c
<1>7. CASE file[i].kind = "text"
  <2> DEFINE u == Continued(b, file, i)
  <2>1. /\ u \in Blocks /\ u # <<>> /\ u[Len(u)].last = i /\ Len(u) \in Nat \ {0}
        /\ \A k \in 1..Len(u) : u[k].last <= i
        /\ OwnLines(u) => OwnLines(b)
    BY <1>7, ContinuedIsWalked
  <2> HIDE DEF u
  <2>2. Len(file[i].parts) \in {1, 2}  BY <1>1, <1>7, LineIs
  <2>3. CASE Len(file[i].parts) = 1
    <3>1. c = u  BY <1>7, <2>3, LineCases DEF u
    <3>2. QED  BY <2>1, <2>3, <3>1 DEF Walked
  <2>4. CASE Len(file[i].parts) = 2
    <3> DEFINE q == <<file[i].parts[2]>>
               x == NewBlock("paragraph", q, i, i)
    <3>1. c = Append(u, x)  BY <1>7, <2>4, LineCases DEF u
    <3>2. "paragraph" \in Kind  BY DEF Kind
    <3>3. q \in Seq(Texts)
      <4>1. file[i].parts[2] \in Texts  BY <1>1, <2>4, LineIs
      <4>2. QED  BY <4>1
    <3> HIDE DEF q
    <3>4. /\ Append(u, x) \in Blocks /\ Len(Append(u, x)) = Len(u) + 1
          /\ \A k \in 1..Len(u) : Append(u, x)[k] = u[k]
          /\ Append(u, x)[Len(u) + 1] = x
      BY <1>1, <2>1, <3>2, <3>3, AppendedIs
    <3>5. x.last = i /\ x.first = i  BY DEF NewBlock
    <3> HIDE DEF x, c
    <3>6. /\ c \in Blocks /\ Len(c) = Len(u) + 1
          /\ \A k \in 1..Len(u) : c[k] = u[k]
          /\ c[Len(u) + 1].last = i /\ c[Len(u) + 1].first = i
      BY <3>1, <3>4, <3>5
    <3>7. DOMAIN c = 1..Len(c) /\ c # <<>>  BY <2>1, <3>6, BlocksAreSeqs
    <3>8. ASSUME NEW k \in 1..Len(c) PROVE c[k].last <= i
      <4>1. CASE k = Len(c)  BY <1>1, <3>6, <4>1
      <4>2. CASE k # Len(c)
        <5>1. k \in 1..Len(u)  BY <2>1, <3>6, <4>2
        <5>2. QED  BY <2>1, <3>6, <5>1
      <4>3. QED  BY <4>1, <4>2
    <3>9. ~OwnLines(c)
      <4>1. Len(u) \in DOMAIN c /\ Len(u) + 1 \in DOMAIN c /\ Len(u) < Len(u) + 1
            /\ c[Len(u)].last = i
        BY <2>1, <3>6, <3>7
      <4>2. ~(c[Len(u)].last < c[Len(u) + 1].first)  BY <1>1, <3>6, <4>1
      <4>3. QED  BY <4>1, <4>2 DEF OwnLines
    <3>10. c[Len(c)].last = i  BY <3>6
    <3>11. Walked(c, file, i)  BY <3>6, <3>7, <3>8, <3>10 DEF Walked
    <3>12. QED  BY <3>9, <3>11 DEF c
  <2>5. QED  BY <2>2, <2>3, <2>4
<1>8. QED  BY <1>4, <1>5, <1>6, <1>7

(* Files are sequences of lines. *)
LEMMA LinesAreSeqs ==
  /\ Lines = Seq(Line) /\ <<>> \in Lines /\ Len(<<>>) = 0
  /\ \A file \in Lines : Len(file) \in Nat /\ DOMAIN file = 1..Len(file)
BY EmptySeq, LenProperties DEF Lines

(* So it is before the first line, *)
LEMMA EmptyIsWalked ==
  ASSUME NEW file \in Lines
  PROVE  Walked(<<>>, file, 0)
<1>1. ~IsText(file, 0)  BY LinesAreSeqs DEF IsText
<1>2. QED  BY <1>1, BlocksAreSeqs DEF Walked

(* and after each line. *)
LEMMA WalksAreWalked ==
  ASSUME NEW file \in Lines, NEW f, Walks(f, file), NEW n \in 0..Len(file)
  PROVE  Walked(f[n], file, n)
<1> DEFINE T == {m \in 0..Len(file) : Walked(f[m], file, m)}
<1>1. Len(file) \in Nat /\ DOMAIN file = 1..Len(file)  BY LinesAreSeqs
<1>2. 0 \in T
  <2>1. f[0] = <<>>  BY DEF Walks
  <2>2. Walked(f[0], file, 0)  BY <2>1, EmptyIsWalked
  <2>3. QED  BY <1>1, <2>2
<1>3. ASSUME NEW m \in 1..Len(file), m - 1 \in T PROVE m \in T
  <2>1. f[m] = ParseLine(f[m - 1], file, m)  BY DEF Walks
  <2>2. Walked(f[m - 1], file, m - 1) /\ m \in DOMAIN file  BY <1>1, <1>3
  <2>3. Walked(ParseLine(f[m - 1], file, m), file, m)  BY <2>2, LineWalks
  <2>4. QED  BY <1>1, <2>1, <2>3
<1> HIDE DEF T
<1>4. 0..Len(file) \subseteq T  BY <1>1, <1>2, <1>3, UpTo
<1>5. QED  BY <1>4 DEF T

(* The lines of a file decide its blocks. *)
LEMMA WalksAgree ==
  ASSUME NEW file \in Lines, NEW f, Walks(f, file), NEW g, Walks(g, file),
         NEW n \in 0..Len(file)
  PROVE  f[n] = g[n]
<1> DEFINE T == {m \in 0..Len(file) : f[m] = g[m]}
<1>1. Len(file) \in Nat  BY LinesAreSeqs
<1>2. 0 \in T  BY <1>1 DEF Walks
<1>3. ASSUME NEW m \in 1..Len(file), m - 1 \in T PROVE m \in T
  BY <1>3 DEF Walks
<1> HIDE DEF T
<1>4. 0..Len(file) \subseteq T  BY <1>1, <1>2, <1>3, UpTo
<1>5. QED  BY <1>4 DEF T

(* What the parser finds are the blocks after the last line. *)
LEMMA ParseWalks ==
  ASSUME NEW file \in Lines
  PROVE  /\ \E f : Walks(f, file)
         /\ \A f : Walks(f, file) => Parse(file) = f[Len(file)]
<1> DEFINE N == Len(file)
           step == [n \in 1..N |-> [b \in Blocks |->
                      IF Walked(b, file, n - 1) THEN ParseLine(b, file, n) ELSE <<>>]]
           P(to) == to = [n \in 0..N |-> IF n = 0 THEN <<>>
                                         ELSE ParseLine(to[n - 1], file, n)]
<1>1. N \in Nat /\ DOMAIN file = 1..N /\ <<>> \in Blocks
  BY LinesAreSeqs, BlocksAreSeqs
<1>2. step \in [1..N -> [Blocks -> Blocks]]
  <2>1. ASSUME NEW n \in 1..N, NEW b \in Blocks, Walked(b, file, n - 1)
        PROVE  ParseLine(b, file, n) \in Blocks
    BY <1>1, <2>1, LineWalks DEF Walked
  <2>2. QED  BY <1>1, <2>1
<1>3. \A n \in 1..N : \A b \in Blocks :
        Walked(b, file, n - 1) => step[n][b] = ParseLine(b, file, n)
  OBVIOUS
<1> HIDE DEF step
<1>4. PICK f \in [0..N -> Blocks] :
        f[0] = <<>> /\ \A n \in 1..N : f[n] = step[n][f[n - 1]]
  <2> DEFINE e == <<>>
  <2>1. e \in Blocks  BY <1>1
  <2> HIDE DEF e, N, P
  <2>2. Steps(Blocks, N, e, step)  BY <1>1, <1>2, <2>1 DEF Steps
  <2>3. \E f : Iteration(Blocks, N, e, step, f)  BY <2>2, Iterates
  <2>4. QED  BY <2>3 DEF e, Iteration
<1> DEFINE T == {m \in 0..N : Walked(f[m], file, m)}
<1>5. 0..N \subseteq T
  <2>1. 0 \in T
    <3>1. Walked(f[0], file, 0)  BY <1>4, EmptyIsWalked
    <3>2. QED  BY <1>1, <3>1
  <2>2. ASSUME NEW m \in 1..N, m - 1 \in T PROVE m \in T
    <3>1. f[m - 1] \in Blocks /\ Walked(f[m - 1], file, m - 1)  BY <2>2 DEF Walked
    <3>2. f[m] = ParseLine(f[m - 1], file, m)  BY <1>3, <1>4, <3>1
    <3>3. QED  BY <1>1, <3>1, <3>2, LineWalks
  <2> HIDE DEF T
  <2>3. QED  BY <1>1, <2>1, <2>2, UpTo
<1>6. \A n \in 1..N : f[n] = ParseLine(f[n - 1], file, n)
  <2>1. ASSUME NEW n \in 1..N PROVE f[n] = ParseLine(f[n - 1], file, n)
    <3>1. n - 1 \in 0..N  BY <1>1
    <3>2. f[n - 1] \in Blocks /\ Walked(f[n - 1], file, n - 1)  BY <1>5, <3>1
    <3>3. QED  BY <1>3, <1>4, <3>2
  <2>2. QED  BY <2>1
<1>7. Walks(f, file)  BY <1>4, <1>6 DEF Walks
<1>8. P(f)
  <2>1. \A n \in 0..N : f[n] = IF n = 0 THEN <<>> ELSE ParseLine(f[n - 1], file, n)
    BY <1>4, <1>6
  <2>2. f = [n \in 0..N |-> f[n]]  BY <1>4
  <2>3. QED  BY <2>1, <2>2
<1>9. Parse(file) = (CHOOSE to : P(to))[N]  BY DEF Parse
<1>10. ASSUME NEW to, P(to) PROVE Walks(to, file)
  BY <1>1, <1>10 DEF Walks
<1> HIDE DEF P
<1>11. Walks(CHOOSE to : P(to), file)  BY <1>8, <1>10
<1>12. \A g : Walks(g, file) => Parse(file) = g[N]
  BY <1>1, <1>9, <1>11, WalksAgree
<1>13. QED  BY <1>7, <1>12

-----------------------------------------------------------------------------
(* What a file says, line by line, where no line has two parts.            *)

Plain(file) == \A i \in DOMAIN file : Len(file[i].parts) <= 1

(* Where no two blocks share a line, no line has two parts. *)
LEMMA OwnLinesArePlain ==
  ASSUME NEW file \in Lines, OwnLines(Parse(file))
  PROVE  Plain(file)
<1>1. Len(file) \in Nat /\ DOMAIN file = 1..Len(file)  BY LinesAreSeqs
<1>2. PICK f : Walks(f, file)  BY ParseWalks
<1>3. OwnLines(f[Len(file)])  BY <1>2, ParseWalks
<1> DEFINE T == {m \in 0..Len(file) :
                   OwnLines(f[m]) => \A i \in 1..m : Len(file[i].parts) <= 1}
<1>4. 0 \in T  BY <1>1
<1>5. ASSUME NEW m \in 1..Len(file), m - 1 \in T PROVE m \in T
  <2>1. Walked(f[m - 1], file, m - 1) /\ m \in DOMAIN file
    BY <1>1, <1>2, WalksAreWalked
  <2>2. OwnLines(f[m]) => OwnLines(f[m - 1]) /\ Len(file[m].parts) <= 1
    <3>1. f[m] = ParseLine(f[m - 1], file, m)  BY <1>2 DEF Walks
    <3>2. QED  BY <2>1, <3>1, LineWalks
  <2>3. \A i \in 1..m : i = m \/ i \in 1..m - 1  BY <1>1
  <2>4. QED  BY <1>5, <2>2, <2>3
<1> HIDE DEF T
<1>6. 0..Len(file) \subseteq T  BY <1>1, <1>4, <1>5, UpTo
<1>7. QED  BY <1>1, <1>3, <1>6 DEF T, Plain

Said(kind, parts) == [kind |-> kind, content |-> parts]

Sayings == [kind : Kind, content : Seq(Texts)]

(* How a line changes what the lines before it said. *)
Says(o, goesOn, line) ==
  CASE line.kind = "blank" -> o
    [] line.kind \in {"heading", "rule"} -> Append(o, Said(line.kind, line.parts))
    [] line.kind = "text" /\ ~goesOn ->
         Append(o, Said("paragraph", <<line.parts[1]>>))
    [] line.kind = "text" /\ goesOn ->
         [o EXCEPT ![Len(o)] =
            Said("paragraph", @.content \o <<line.parts[1]>>)]

(* An outline has the kinds and contents of the blocks. *)
LEMMA OutlineIs ==
  ASSUME NEW b \in Blocks
  PROVE  /\ Outline(b) \in Seq(Sayings) /\ Len(Outline(b)) = Len(b)
         /\ Len(b) \in Nat
         /\ \A k \in 1..Len(b) : Outline(b)[k] = Said(b[k].kind, b[k].content)
<1>1. Len(b) \in Nat /\ DOMAIN b = 1..Len(b)  BY BlocksAreSeqs
<1>2. Outline(b) = [k \in 1..Len(b) |-> Said(b[k].kind, b[k].content)]
  BY <1>1 DEF Outline, Said
<1>3. \A k \in 1..Len(b) : Said(b[k].kind, b[k].content) \in Sayings
  BY BlockFields DEF Said, Sayings
<1>4. QED  BY <1>1, <1>2, <1>3

(* What one more block says. *)
LEMMA OutlineAppends ==
  ASSUME NEW b \in Blocks, NEW kind \in Kind, NEW parts \in Seq(Texts),
         NEW first \in Nat \ {0}, NEW last \in Nat \ {0}
  PROVE  Outline(Append(b, NewBlock(kind, parts, first, last))) =
           Append(Outline(b), Said(kind, parts))
<1> DEFINE x == NewBlock(kind, parts, first, last)
           y == Said(kind, parts)
           c == Append(b, x)
           s == Outline(c)
           t == Append(Outline(b), y)
<1>1. /\ c \in Blocks /\ Len(c) = Len(b) + 1 /\ Len(b) \in Nat
      /\ \A k \in 1..Len(b) : c[k] = b[k]
      /\ c[Len(b) + 1] = x
  BY AppendedIs
<1>2. x.kind = kind /\ x.content = parts  BY DEF NewBlock
<1> HIDE DEF c, x
<1>3. y \in Sayings  BY DEF Said, Sayings
<1>4. Said(x.kind, x.content) = y  BY <1>2
<1> HIDE DEF y
<1>5. /\ Outline(b) \in Seq(Sayings) /\ Len(Outline(b)) = Len(b)
      /\ \A k \in 1..Len(b) : Outline(b)[k] = Said(b[k].kind, b[k].content)
  BY OutlineIs
<1>6. /\ s \in Seq(Sayings) /\ Len(s) = Len(b) + 1
      /\ \A k \in 1..Len(b) + 1 : s[k] = Said(c[k].kind, c[k].content)
  BY <1>1, OutlineIs
<1>7. /\ t \in Seq(Sayings) /\ Len(t) = Len(b) + 1
      /\ \A k \in 1..Len(b) : t[k] = Outline(b)[k]
      /\ t[Len(b) + 1] = y
  BY <1>3, <1>5, AppendProperties
<1> HIDE DEF s, t
<1>8. ASSUME NEW k \in 1..Len(s) PROVE s[k] = t[k]
  <2>1. CASE k = Len(b) + 1  BY <1>1, <1>4, <1>6, <1>7, <2>1
  <2>2. CASE k # Len(b) + 1
    <3>1. k \in 1..Len(b) /\ k \in 1..Len(b) + 1  BY <1>1, <1>6, <2>2
    <3>2. QED  BY <1>1, <1>5, <1>6, <1>7, <3>1
  <2>3. QED  BY <2>1, <2>2
<1>9. s = t  BY <1>6, <1>7, <1>8, SeqEqual
<1>10. QED  BY <1>9 DEF s, t, c, x, y

(* What a longer block says. *)
LEMMA OutlineExtends ==
  ASSUME NEW b \in Blocks, b # <<>>, NEW part \in Texts, NEW i \in Nat \ {0}
  PROVE  /\ Outline(b) # <<>>
         /\ Outline(Extended(b, part, i)) =
              [Outline(b) EXCEPT ![Len(Outline(b))] =
                 Said("paragraph", @.content \o <<part>>)]
<1> DEFINE o == Outline(b)
           n == Len(b)
           e == Said("paragraph", o[n].content \o <<part>>)
           c == Extended(b, part, i)
           s == Outline(c)
           t == [o EXCEPT ![n] = e]
<1>1. /\ c \in Blocks /\ Len(c) = n /\ n \in Nat \ {0}
      /\ \A k \in 1..n - 1 : c[k] = b[k]
      /\ c[n] = NewBlock("paragraph", b[n].content \o <<part>>, b[n].first, i)
  BY ExtendedIs
<1>2. /\ o \in Seq(Sayings) /\ Len(o) = n
      /\ \A k \in 1..n : o[k] = Said(b[k].kind, b[k].content)
  BY OutlineIs
<1> HIDE DEF o, c
<1>3. o[n].content = b[n].content
  <2>1. o[n] = Said(b[n].kind, b[n].content)  BY <1>1, <1>2
  <2>2. QED  BY <2>1 DEF Said
<1>4. e \in Sayings
  <2>1. b[n].content \in Seq(Texts)  BY <1>1, BlockFields
  <2>2. b[n].content \o <<part>> \in Seq(Texts)
    <3>1. <<part>> \in Seq(Texts)  OBVIOUS
    <3>2. QED  BY <2>1, <3>1, ConcatProperties
  <2>3. QED  BY <1>3, <2>2 DEF Said, Sayings, Kind
<1>5. /\ s \in Seq(Sayings) /\ Len(s) = n
      /\ \A k \in 1..n : s[k] = Said(c[k].kind, c[k].content)
  BY <1>1, OutlineIs
<1>6. s[n] = e
  <2>1. /\ c[n].kind = "paragraph"
        /\ c[n].content = b[n].content \o <<part>>
    BY <1>1 DEF NewBlock
  <2>2. n \in 1..n  BY <1>1
  <2>3. s[n] = Said(c[n].kind, c[n].content)  BY <1>5, <2>2
  <2>4. s[n] = Said("paragraph", b[n].content \o <<part>>)  BY <2>1, <2>3
  <2>5. QED  BY <1>3, <2>4
<1> HIDE DEF e, n
<1>7. t \in Seq(Sayings) /\ Len(t) = n
      /\ \A k \in 1..n : t[k] = IF k = n THEN e ELSE o[k]
  <2>1. n \in 1..Len(o)  BY <1>1, <1>2
  <2>2. QED  BY <1>2, <1>4, <2>1, ExceptSeq
<1> HIDE DEF s, t
<1>8. ASSUME NEW k \in 1..Len(s) PROVE s[k] = t[k]
  <2>1. k \in 1..n  BY <1>5
  <2>2. CASE k = n  BY <1>6, <1>7, <2>1, <2>2
  <2>3. CASE k # n
    <3>1. k \in 1..n - 1  BY <1>1, <2>1, <2>3
    <3>2. QED  BY <1>1, <1>2, <1>5, <1>7, <2>1, <2>3, <3>1
  <2>4. QED  BY <2>2, <2>3
<1>9. s = t  BY <1>5, <1>7, <1>8, SeqEqual
<1>10. o # <<>>  BY <1>1, <1>2, EmptySeq
<1>11. t = [o EXCEPT ![Len(o)] = Said("paragraph", @.content \o <<part>>)]
  BY <1>2 DEF t, e
<1>12. QED  BY <1>9, <1>10, <1>11 DEF s, o, c

(* What the blocks say after a line, by what they said before it. *)
LEMMA OutlineStep ==
  ASSUME NEW file \in Lines, Plain(file), NEW i \in DOMAIN file, NEW b,
         Walked(b, file, i - 1)
  PROVE  /\ Outline(ParseLine(b, file, i)) =
              Says(Outline(b), IsText(file, i - 1), file[i])
         /\ IsText(file, i - 1) => Outline(b) # <<>>
<1>1. /\ i \in Nat \ {0} /\ file[i] \in Line /\ DOMAIN file = 1..Len(file)
      /\ b \in Blocks
  BY LineCases DEF Walked
<1>2. file[i].kind \in {"blank", "rule", "heading", "text"}  BY <1>1, LineIs
<1>3. IsText(file, i - 1) => Outline(b) # <<>>
  <2>1. IsText(file, i - 1) => b # <<>>  BY DEF Walked
  <2>2. Len(b) \in Nat /\ (b # <<>> => Len(b) # 0)  BY <1>1, BlocksAreSeqs
  <2>3. Len(Outline(b)) = Len(b) /\ Outline(b) \in Seq(Sayings)  BY <1>1, OutlineIs
  <2>4. QED  BY <2>1, <2>2, <2>3, EmptySeq
<1>4. CASE file[i].kind = "blank"
  BY <1>3, <1>4, LineCases DEF Says
<1>5. CASE file[i].kind \in {"heading", "rule"}
  <2>1. file[i].parts \in Seq(Texts) /\ file[i].kind \in Kind
    BY <1>1, <1>5, LineIs DEF Kind
  <2>2. ParseLine(b, file, i) = Append(b, NewBlock(file[i].kind, file[i].parts, i, i))
    BY <1>5, LineCases
  <2>3. Outline(ParseLine(b, file, i)) =
          Append(Outline(b), Said(file[i].kind, file[i].parts))
    BY <1>1, <2>1, <2>2, OutlineAppends
  <2>4. QED  BY <1>3, <1>5, <2>3 DEF Says
<1>6. CASE file[i].kind = "text"
  <2> DEFINE p == file[i].parts[1]
             q == <<p>>
  <2>1. Len(file[i].parts) = 1 /\ p \in Texts
    <3>1. Len(file[i].parts) \in {1, 2}  BY <1>1, <1>6, LineIs
    <3>2. Len(file[i].parts) <= 1  BY DEF Plain
    <3>3. Len(file[i].parts) = 1  BY <3>1, <3>2
    <3>4. QED  BY <1>1, <3>3, LineIs
  <2>2. ParseLine(b, file, i) = Continued(b, file, i)  BY <1>6, <2>1, LineCases
  <2>3. CASE ~IsText(file, i - 1)
    <3>1. ParseLine(b, file, i) = Append(b, NewBlock("paragraph", q, i, i))
      BY <2>2, <2>3 DEF Continued
    <3>2. q \in Seq(Texts)  BY <2>1
    <3>3. Says(Outline(b), IsText(file, i - 1), file[i]) =
            Append(Outline(b), Said("paragraph", q))
      BY <1>6, <2>3 DEF Says
    <3> HIDE DEF q
    <3>4. "paragraph" \in Kind  BY DEF Kind
    <3>5. Outline(ParseLine(b, file, i)) = Append(Outline(b), Said("paragraph", q))
      BY <1>1, <3>1, <3>2, <3>4, OutlineAppends
    <3>6. QED  BY <1>3, <3>3, <3>5
  <2>4. CASE IsText(file, i - 1)
    <3>1. Len(file[i - 1].parts) # 2
      <4>1. i - 1 \in DOMAIN file  BY <2>4 DEF IsText
      <4>2. Len(file[i - 1].parts) <= 1  BY <4>1 DEF Plain
      <4>3. file[i - 1] \in Line  BY <4>1, LineCases
      <4>4. Len(file[i - 1].parts) \in {0, 1, 2}  BY <4>3, LineIs
      <4>5. QED  BY <4>2, <4>4
    <3>2. ParseLine(b, file, i) = Extended(b, p, i)
      BY <2>2, <2>4, <3>1 DEF Continued
    <3>3. b # <<>>  BY <2>4 DEF Walked
    <3>4. Says(Outline(b), IsText(file, i - 1), file[i]) =
            [Outline(b) EXCEPT ![Len(Outline(b))] = Said("paragraph", @.content \o <<p>>)]
      BY <1>6, <2>4 DEF Says
    <3> HIDE DEF p
    <3>5. Outline(Extended(b, p, i)) =
            [Outline(b) EXCEPT ![Len(Outline(b))] = Said("paragraph", @.content \o <<p>>)]
      BY <1>1, <2>1, <3>3, OutlineExtends
    <3>6. QED  BY <1>3, <3>2, <3>4, <3>5
  <2>5. QED  BY <2>3, <2>4
<1>7. QED  BY <1>2, <1>4, <1>5, <1>6

(* A part of a sequence, element by element. *)
LEMMA Segments ==
  ASSUME NEW S, NEW s \in Seq(S), NEW i \in 0..Len(s), NEW j \in i..Len(s)
  PROVE  /\ SubSeq(s, i + 1, j) \in Seq(S)
         /\ Len(SubSeq(s, i + 1, j)) = j - i
         /\ \A m \in 1..j - i : SubSeq(s, i + 1, j)[m] = s[i + m]
<1>1. Len(s) \in Nat  BY LenProperties
<1>2. \A m \in i + 1..j : s[m] \in S
  <2>1. \A m \in i + 1..j : m \in 1..Len(s)  BY <1>1
  <2>2. QED  BY <2>1, ElementOfSeq
<1>3. i + 1 \in Int /\ j \in Int  BY <1>1
<1> DEFINE k == i + 1
<1> HIDE DEF k
<1>4. /\ SubSeq(s, k, j) \in Seq(S)
      /\ Len(SubSeq(s, k, j)) = IF k <= j THEN j - k + 1 ELSE 0
      /\ \A m \in 1..j - k + 1 : SubSeq(s, k, j)[m] = s[k + m - 1]
  BY <1>2, <1>3, SubSeqProperties DEF k
<1>5. \A m \in 1..j - i : m \in 1..j - k + 1 /\ k + m - 1 = i + m
  BY <1>1 DEF k
<1>6. Len(SubSeq(s, k, j)) = j - i  BY <1>1, <1>4 DEF k
<1>7. QED  BY <1>4, <1>5, <1>6 DEF k

(* A line says the same after more blocks, if it goes on in both or in none. *)
LEMMA SaysConcat ==
  ASSUME NEW o \in Seq(Sayings), NEW p \in Seq(Sayings), NEW l \in Line,
         NEW g \in BOOLEAN, NEW h \in BOOLEAN,
         l.kind = "text" => (g <=> h) /\ (g => p # <<>>)
  PROVE  Says(o \o p, g, l) = o \o Says(p, h, l)
<1>1. l.kind \in {"blank", "rule", "heading", "text"}  BY LineIs
<1>2. CASE l.kind = "blank"  BY <1>2 DEF Says
<1>3. ASSUME NEW e \in Sayings
      PROVE  Append(o \o p, e) = o \o Append(p, e)
  <2>1. o \o p \in Seq(Sayings) /\ <<e>> \in Seq(Sayings)  BY ConcatProperties
  <2>2. Append(o \o p, e) = (o \o p) \o <<e>> /\ Append(p, e) = p \o <<e>>
    BY <2>1, AppendIsConcat
  <2>3. (o \o p) \o <<e>> = o \o (p \o <<e>>)  BY <2>1, ConcatAssociative
  <2>4. QED  BY <2>2, <2>3
<1>4. CASE l.kind \in {"heading", "rule"}
  <2>1. Said(l.kind, l.parts) \in Sayings  BY <1>4, LineIs DEF Said, Sayings, Kind
  <2>2. /\ Says(o \o p, g, l) = Append(o \o p, Said(l.kind, l.parts))
        /\ Says(p, h, l) = Append(p, Said(l.kind, l.parts))
    BY <1>4 DEF Says
  <2>3. QED  BY <1>3, <2>1, <2>2
<1>5. CASE l.kind = "text"
  <2> DEFINE q == <<l.parts[1]>>
  <2>0. q \in Seq(Texts)
    <3>1. Len(l.parts) \in {1, 2}  BY <1>5, LineIs
    <3>2. l.parts[1] \in Texts  BY <3>1, LineIs
    <3>3. QED  BY <3>2
  <2>1. CASE ~g
    <3>1. /\ Says(o \o p, g, l) = Append(o \o p, Said("paragraph", q))
          /\ Says(p, h, l) = Append(p, Said("paragraph", q))
      BY <1>5, <2>1 DEF Says
    <3> HIDE DEF q
    <3>2. Said("paragraph", q) \in Sayings  BY <2>0 DEF Said, Sayings, Kind
    <3>3. QED  BY <1>3, <3>1, <3>2
  <2>2. CASE g
    <3> DEFINE op == o \o p
               n == Len(p)
               e == Said("paragraph", p[n].content \o q)
               s == [op EXCEPT ![Len(op)] = e]
               t == [p EXCEPT ![n] = e]
               u == o \o t
    <3>1. n \in Nat \ {0} /\ Len(o) \in Nat
      BY <1>5, <2>2, EmptySeq, LenProperties
    <3>2. /\ op \in Seq(Sayings) /\ Len(op) = Len(o) + n
          /\ \A i \in 1..Len(o) + n : op[i] = IF i <= Len(o) THEN o[i] ELSE p[i - Len(o)]
      BY ConcatProperties
    <3>3. op[Len(op)] = p[n]
      <4>1. Len(op) \in 1..Len(o) + n /\ ~(Len(op) <= Len(o)) /\ Len(op) - Len(o) = n
        BY <3>1, <3>2
      <4>2. QED  BY <3>2, <4>1
    <3>4. Says(op, g, l) = [op EXCEPT ![Len(op)] =
                              Said("paragraph", op[Len(op)].content \o q)]
      BY <1>5, <2>2 DEF Says
    <3>5. Says(p, h, l) = t
      BY <1>5, <2>2 DEF Says
    <3>6. e \in Sayings
      <4>1. p[n] \in Sayings  BY <3>1, ElementOfSeq
      <4>2. p[n].content \in Seq(Texts)  BY <4>1 DEF Sayings
      <4> HIDE DEF q
      <4>3. p[n].content \o q \in Seq(Texts)  BY <2>0, <4>2, ConcatProperties
      <4>4. QED  BY <4>3 DEF Said, Sayings, Kind
    <3>7. Says(op, g, l) = s  BY <3>3, <3>4
    <3> HIDE DEF op, n, e
    <3>8. /\ s \in Seq(Sayings) /\ Len(s) = Len(o) + n
          /\ \A i \in 1..Len(o) + n : s[i] = IF i = Len(op) THEN e ELSE op[i]
      <4>1. Len(op) \in 1..Len(op)  BY <3>1, <3>2
      <4>2. QED  BY <3>2, <3>6, <4>1, ExceptSeq
    <3>9. /\ t \in Seq(Sayings) /\ Len(t) = n
          /\ \A i \in 1..n : t[i] = IF i = n THEN e ELSE p[i]
      <4>1. n \in 1..Len(p)  BY <3>1 DEF n
      <4>2. QED  BY <3>6, <4>1, ExceptSeq DEF n
    <3> HIDE DEF s, t
    <3>10. /\ u \in Seq(Sayings) /\ Len(u) = Len(o) + n
           /\ \A i \in 1..Len(o) + n : u[i] = IF i <= Len(o) THEN o[i] ELSE t[i - Len(o)]
      BY <3>9, ConcatProperties
    <3> HIDE DEF u
    <3>11. ASSUME NEW i \in 1..Len(s) PROVE s[i] = u[i]
      <4>1. i \in 1..Len(o) + n  BY <3>8
      <4>2. CASE i <= Len(o)
        <5>1. i # Len(op)  BY <3>1, <3>2, <4>2
        <5>2. QED  BY <3>2, <3>8, <3>10, <4>1, <4>2, <5>1
      <4>3. CASE ~(i <= Len(o))
        <5>1. i - Len(o) \in 1..n /\ (i = Len(op) <=> i - Len(o) = n)
          BY <3>1, <3>2, <4>1, <4>3
        <5>2. u[i] = t[i - Len(o)] /\ op[i] = p[i - Len(o)]
          BY <3>2, <3>10, <4>1, <4>3
        <5>3. QED  BY <3>8, <3>9, <4>1, <5>1, <5>2
      <4>4. QED  BY <4>2, <4>3
    <3>12. s = u  BY <3>8, <3>10, <3>11, SeqEqual
    <3>13. QED  BY <3>5, <3>7, <3>12 DEF u, op
  <2>3. QED  BY <2>1, <2>2
<1>6. QED  BY <1>1, <1>2, <1>4, <1>5

(* What a file says, by block. *)
Told(file) == Outline(Parse(file))

(* No text goes on over the cut between two files. *)
Apart(A, C) == ~(IsText(A, Len(A)) /\ IsText(C, 1))

(* The lines of two files, one after the other. *)
LEMMA Joined ==
  ASSUME NEW A \in Lines, NEW C \in Lines
  PROVE  /\ A \o C \in Lines /\ Len(A \o C) = Len(A) + Len(C)
         /\ Len(A) \in Nat /\ Len(C) \in Nat
         /\ DOMAIN A = 1..Len(A) /\ DOMAIN C = 1..Len(C)
         /\ DOMAIN (A \o C) = 1..Len(A) + Len(C)
         /\ \A i \in 1..Len(A) : (A \o C)[i] = A[i]
         /\ \A n \in 1..Len(C) : (A \o C)[Len(A) + n] = C[n]
<1>1. A \in Seq(Line) /\ C \in Seq(Line)  BY DEF Lines
<1>2. /\ A \o C \in Seq(Line) /\ Len(A \o C) = Len(A) + Len(C)
      /\ \A i \in 1..Len(A) + Len(C) :
           (A \o C)[i] = IF i <= Len(A) THEN A[i] ELSE C[i - Len(A)]
  BY <1>1, ConcatProperties
<1>3. /\ Len(A) \in Nat /\ Len(C) \in Nat
      /\ DOMAIN A = 1..Len(A) /\ DOMAIN C = 1..Len(C)
      /\ DOMAIN (A \o C) = 1..Len(A) + Len(C)
  BY <1>1, <1>2, LenProperties
<1>4. ASSUME NEW i \in 1..Len(A) PROVE (A \o C)[i] = A[i]
  BY <1>2, <1>3
<1>5. ASSUME NEW n \in 1..Len(C) PROVE (A \o C)[Len(A) + n] = C[n]
  <2>1. /\ Len(A) + n \in 1..Len(A) + Len(C) /\ ~(Len(A) + n <= Len(A))
        /\ Len(A) + n - Len(A) = n
    BY <1>3
  <2>2. QED  BY <1>2, <2>1
<1>6. QED  BY <1>1, <1>2, <1>3, <1>4, <1>5 DEF Lines

(* Where there is text in two files, one after the other. *)
LEMMA JoinedText ==
  ASSUME NEW A \in Lines, NEW C \in Lines
  PROVE  /\ \A i \in 0..Len(A) : IsText(A \o C, i) <=> IsText(A, i)
         /\ \A n \in 1..Len(C) : IsText(A \o C, Len(A) + n) <=> IsText(C, n)
         /\ ~IsText(A, 0) /\ ~IsText(C, 0)
<1>1. /\ Len(A) \in Nat /\ Len(C) \in Nat
      /\ DOMAIN A = 1..Len(A) /\ DOMAIN C = 1..Len(C)
      /\ DOMAIN (A \o C) = 1..Len(A) + Len(C)
      /\ \A i \in 1..Len(A) : (A \o C)[i] = A[i]
      /\ \A n \in 1..Len(C) : (A \o C)[Len(A) + n] = C[n]
  BY Joined
<1> DEFINE F == A \o C
<1> HIDE DEF F
<1>2. ASSUME NEW i \in 0..Len(A) PROVE IsText(F, i) <=> IsText(A, i)
  <2>1. CASE i = 0  BY <1>1, <2>1 DEF IsText, F
  <2>2. CASE i # 0
    <3>1. i \in 1..Len(A) /\ i \in 1..Len(A) + Len(C)  BY <1>1, <2>2
    <3>2. QED  BY <1>1, <3>1 DEF IsText, F
  <2>3. QED  BY <2>1, <2>2
<1>3. ASSUME NEW n \in 1..Len(C) PROVE IsText(F, Len(A) + n) <=> IsText(C, n)
  <2>1. Len(A) + n \in 1..Len(A) + Len(C)  BY <1>1
  <2>2. QED  BY <1>1, <2>1 DEF IsText, F
<1>4. QED  BY <1>1, <1>2, <1>3 DEF IsText, F

(* A line is read by itself and the line before it. *)
LEMMA SameLines ==
  ASSUME NEW file \in Lines, NEW other \in Lines, NEW i \in 1..Len(file), i \in 1..Len(other),
         file[i] = other[i], i > 1 => file[i - 1] = other[i - 1], NEW b
  PROVE  ParseLine(b, file, i) = ParseLine(b, other, i)
<1>1. /\ DOMAIN file = 1..Len(file) /\ DOMAIN other = 1..Len(other)
      /\ Len(file) \in Nat /\ Len(other) \in Nat
  BY LinesAreSeqs
<1>2. IsText(file, i - 1) <=> IsText(other, i - 1)
  <2>1. CASE i = 1  BY <1>1, <2>1 DEF IsText
  <2>2. CASE i # 1
    <3>1. i > 1 /\ i - 1 \in 1..Len(file) /\ i - 1 \in 1..Len(other)  BY <1>1, <2>2
    <3>2. QED  BY <1>1, <3>1 DEF IsText
  <2>3. QED  BY <2>1, <2>2
<1>3. IsText(file, i - 1) => file[i - 1] = other[i - 1]
  <2>1. IsText(file, i - 1) => i > 1  BY <1>1 DEF IsText
  <2>2. QED  BY <2>1
<1>4. QED  BY <1>2, <1>3 DEF ParseLine

(* The walk of a file begins with that of its first lines. *)
LEMMA WalkBegins ==
  ASSUME NEW A \in Lines, NEW C \in Lines, NEW f, Walks(f, A \o C), NEW a, Walks(a, A),
         NEW n \in 0..Len(A)
  PROVE  f[n] = a[n]
<1> DEFINE T == {m \in 0..Len(A) : f[m] = a[m]}
           F == A \o C
<1>1. /\ F \in Lines /\ Len(F) = Len(A) + Len(C) /\ Len(A) \in Nat /\ Len(C) \in Nat
      /\ \A i \in 1..Len(A) : F[i] = A[i]
  BY Joined
<1>2. 0 \in T  BY <1>1 DEF Walks
<1> HIDE DEF F
<1>3. ASSUME NEW m \in 1..Len(A), m - 1 \in T PROVE m \in T
  <2>1. m \in 1..Len(F) /\ F[m] = A[m] /\ (m > 1 => F[m - 1] = A[m - 1])
    <3>1. m > 1 => m - 1 \in 1..Len(A)  BY <1>1
    <3>2. QED  BY <1>1, <3>1
  <2>2. f[m] = ParseLine(f[m - 1], F, m) /\ a[m] = ParseLine(a[m - 1], A, m)
    BY <2>1 DEF Walks, F
  <2>3. ParseLine(a[m - 1], F, m) = ParseLine(a[m - 1], A, m)
    BY <1>1, <2>1, SameLines
  <2>4. QED  BY <1>1, <1>3, <2>2, <2>3
<1> HIDE DEF T
<1>4. 0..Len(A) \subseteq T  BY <1>1, <1>2, <1>3, UpTo
<1>5. QED  BY <1>4 DEF T

(* The type of what a file says. *)
LEMMA ToldIs ==
  ASSUME NEW file \in Lines
  PROVE  /\ Told(file) \in Seq(Sayings) /\ Len(Told(file)) \in Nat
         /\ Parse(file) \in Blocks /\ Len(Told(file)) = Len(Parse(file))
         /\ \A f : Walks(f, file) => Told(file) = Outline(f[Len(file)])
<1>1. PICK f : Walks(f, file)  BY ParseWalks
<1>2. Len(file) \in 0..Len(file)  BY LinesAreSeqs
<1>3. Parse(file) = f[Len(file)] /\ f[Len(file)] \in Blocks
  BY <1>1, <1>2, ParseWalks, WalksAreWalked DEF Walked
<1>4. QED  BY <1>3, OutlineIs, ParseWalks DEF Told

(* No line has two parts, in neither of two files. *)
LEMMA PlainJoins ==
  ASSUME NEW A \in Lines, NEW C \in Lines
  PROVE  Plain(A \o C) <=> Plain(A) /\ Plain(C)
<1>1. /\ Len(A) \in Nat /\ Len(C) \in Nat
      /\ DOMAIN A = 1..Len(A) /\ DOMAIN C = 1..Len(C)
      /\ DOMAIN (A \o C) = 1..Len(A) + Len(C)
      /\ \A i \in 1..Len(A) : (A \o C)[i] = A[i]
      /\ \A n \in 1..Len(C) : (A \o C)[Len(A) + n] = C[n]
  BY Joined
<1> DEFINE F == A \o C
<1> HIDE DEF F
<1>2. ASSUME Plain(F) PROVE Plain(A) /\ Plain(C)
  <2>1. \A i \in 1..Len(A) : i \in 1..Len(A) + Len(C)  BY <1>1
  <2>2. \A n \in 1..Len(C) : Len(A) + n \in 1..Len(A) + Len(C)  BY <1>1
  <2>3. Plain(A)  BY <1>1, <1>2, <2>1 DEF Plain, F
  <2>4. Plain(C)
    <3>1. ASSUME NEW n \in 1..Len(C) PROVE Len(C[n].parts) <= 1
      <4>1. Len(F[Len(A) + n].parts) <= 1  BY <1>1, <1>2, <2>2 DEF Plain, F
      <4>2. F[Len(A) + n] = C[n]  BY <1>1 DEF F
      <4>3. QED  BY <4>1, <4>2
    <3>2. QED  BY <1>1, <3>1 DEF Plain
  <2>5. QED  BY <2>3, <2>4
<1>3. ASSUME Plain(A), Plain(C) PROVE Plain(F)
  <2>1. ASSUME NEW i \in 1..Len(A) + Len(C) PROVE Len(F[i].parts) <= 1
    <3>1. CASE i \in 1..Len(A)  BY <1>1, <1>3, <3>1 DEF Plain, F
    <3>2. CASE i \notin 1..Len(A)
      <4>1. i - Len(A) \in 1..Len(C) /\ Len(A) + (i - Len(A)) = i  BY <1>1, <3>2
      <4>2. F[i] = C[i - Len(A)]  BY <1>1, <4>1 DEF F
      <4>3. QED  BY <1>1, <1>3, <4>1, <4>2 DEF Plain
    <3>3. QED  BY <3>1, <3>2
  <2>2. QED  BY <1>1, <2>1 DEF Plain, F
<1>4. QED  BY <1>2, <1>3 DEF F

(* Two files one after the other say what the one says and then what the   *)
(* other says, unless a text goes on over the cut.                         *)
LEMMA Join ==
  ASSUME NEW A \in Lines, NEW C \in Lines, Plain(A), Plain(C), Apart(A, C)
  PROVE  Told(A \o C) = Told(A) \o Told(C)
<1> DEFINE F == A \o C
<1>1. /\ F \in Lines /\ Len(F) = Len(A) + Len(C)
      /\ Len(A) \in Nat /\ Len(C) \in Nat
      /\ DOMAIN C = 1..Len(C) /\ DOMAIN F = 1..Len(A) + Len(C)
      /\ \A n \in 1..Len(C) : F[Len(A) + n] = C[n]
  BY Joined
<1>2. Plain(F)  BY PlainJoins
<1>3. /\ \A i \in 0..Len(A) : IsText(F, i) <=> IsText(A, i)
      /\ \A n \in 1..Len(C) : IsText(F, Len(A) + n) <=> IsText(C, n)
      /\ ~IsText(C, 0)
  BY JoinedText
<1>4. PICK f : Walks(f, F)  BY <1>1, ParseWalks
<1>5. PICK a : Walks(a, A)  BY ParseWalks
<1>6. PICK c : Walks(c, C)  BY ParseWalks
<1>7. f[Len(A)] = a[Len(A)]  BY <1>1, <1>4, <1>5, WalkBegins
<1>8. Told(A) \in Seq(Sayings) /\ Told(A) = Outline(a[Len(A)])  BY <1>5, ToldIs
<1> HIDE DEF F
<1> DEFINE T == {m \in 0..Len(C) : Outline(f[Len(A) + m]) = Told(A) \o Outline(c[m])}
<1>9. 0 \in T
  <2>1. c[0] = <<>>  BY <1>6 DEF Walks
  <2>2. Outline(c[0]) = <<>>
    <3>1. Outline(c[0]) \in Seq(Sayings) /\ Len(Outline(c[0])) = 0
      BY <2>1, BlocksAreSeqs, OutlineIs
    <3>2. QED  BY <3>1, EmptySeq
  <2>3. Told(A) \o <<>> = Told(A)  BY <1>8, ConcatEmptySeq
  <2>4. Len(A) + 0 = Len(A)  BY <1>1
  <2>5. QED  BY <1>1, <1>7, <1>8, <2>2, <2>3, <2>4
<1>10. ASSUME NEW m \in 1..Len(C), m - 1 \in T PROVE m \in T
  <2> DEFINE i == Len(A) + m
  <2>1. /\ i \in 1..Len(F) /\ i \in DOMAIN F /\ i - 1 = Len(A) + (m - 1) /\ m \in DOMAIN C
        /\ i - 1 \in 0..Len(F) /\ m - 1 \in 0..Len(C) /\ F[i] = C[m]
        /\ C[m] \in Line
    <3>1. C \in Seq(Line)  BY DEF Lines
    <3>2. QED  BY <1>1, <3>1, ElementOfSeq
  <2> HIDE DEF i
  <2>2. Walked(f[i - 1], F, i - 1) /\ Walked(c[m - 1], C, m - 1)
    BY <1>1, <1>4, <1>6, <2>1, WalksAreWalked
  <2>3. /\ Outline(f[i]) = Says(Outline(f[i - 1]), IsText(F, i - 1), C[m])
    <3>1. f[i] = ParseLine(f[i - 1], F, i)  BY <1>4, <2>1 DEF Walks
    <3>2. QED  BY <1>1, <1>2, <2>1, <2>2, <3>1, OutlineStep
  <2>4. /\ Outline(c[m]) = Says(Outline(c[m - 1]), IsText(C, m - 1), C[m])
        /\ IsText(C, m - 1) => Outline(c[m - 1]) # <<>>
    <3>1. c[m] = ParseLine(c[m - 1], C, m)  BY <1>6 DEF Walks
    <3>2. QED  BY <2>1, <2>2, <3>1, OutlineStep
  <2>5. Outline(c[m - 1]) \in Seq(Sayings)  BY <2>2, OutlineIs DEF Walked
  <2>6. C[m].kind = "text" => (IsText(F, i - 1) <=> IsText(C, m - 1))
    <3>1. CASE m = 1
      <4>1. i - 1 = Len(A) /\ m - 1 = 0  BY <1>1, <2>1, <3>1
      <4>2. IsText(F, i - 1) <=> IsText(A, Len(A))  BY <1>1, <1>3, <4>1
      <4>3. C[m].kind = "text" => IsText(C, 1)  BY <1>1, <3>1, <2>1 DEF IsText
      <4>4. QED  BY <1>3, <4>1, <4>2, <4>3 DEF Apart
    <3>2. CASE m # 1
      <4>1. m - 1 \in 1..Len(C)  BY <1>1, <3>2
      <4>2. QED  BY <1>3, <2>1, <4>1
    <3>3. QED  BY <3>1, <3>2
  <2>7. Outline(f[i - 1]) = Told(A) \o Outline(c[m - 1])  BY <1>10, <2>1
  <2>8. IsText(F, i - 1) \in BOOLEAN /\ IsText(C, m - 1) \in BOOLEAN  BY DEF IsText
  <2>9. Says(Told(A) \o Outline(c[m - 1]), IsText(F, i - 1), C[m]) =
          Told(A) \o Says(Outline(c[m - 1]), IsText(C, m - 1), C[m])
    <3> DEFINE g == IsText(F, i - 1)
               h == IsText(C, m - 1)
               p == Outline(c[m - 1])
    <3>1. g \in BOOLEAN /\ h \in BOOLEAN /\ p \in Seq(Sayings)
          /\ (C[m].kind = "text" => (g <=> h) /\ (g => p # <<>>))
      BY <2>4, <2>5, <2>6, <2>8
    <3> HIDE DEF g, h, p
    <3>2. Says(Told(A) \o p, g, C[m]) = Told(A) \o Says(p, h, C[m])
      BY <1>8, <2>1, <3>1, SaysConcat
    <3>3. QED  BY <3>2 DEF g, h, p
  <2>10. Outline(f[i]) = Told(A) \o Outline(c[m])  BY <2>3, <2>4, <2>7, <2>9
  <2>11. QED  BY <1>1, <2>10 DEF i
<1> HIDE DEF T
<1>11. 0..Len(C) \subseteq T  BY <1>1, <1>9, <1>10, UpTo
<1>12. Outline(f[Len(F)]) = Told(A) \o Outline(c[Len(C)])
  <2>1. Len(C) \in T  BY <1>1, <1>11
  <2>2. QED  BY <1>1, <2>1 DEF T
<1>13. Told(F) = Outline(f[Len(F)]) /\ Told(C) = Outline(c[Len(C)])
  BY <1>1, <1>4, <1>6, ToldIs
<1>14. QED  BY <1>12, <1>13 DEF F

-----------------------------------------------------------------------------
(* Where the blocks of a file lie, where no line has two parts.            *)

(* A block begins where a text does not go on, and so it ends; a line that *)
(* no block has is blank.                                                  *)
PlacedBlock(b, file, n, k) ==
  /\ b[k].first <= b[k].last /\ b[k].last <= n
  /\ IF b[k].kind = "paragraph"
     THEN /\ IsText(file, b[k].first) /\ IsText(file, b[k].last)
          /\ ~IsText(file, b[k].first - 1)
     ELSE ~IsText(file, b[k].first) /\ ~IsText(file, b[k].last)
  /\ b[k].last < n => ~(IsText(file, b[k].last) /\ IsText(file, b[k].last + 1))

Covered(b, i) == \E k \in 1..Len(b) : b[k].first <= i /\ i <= b[k].last

Placed(b, file, n) ==
  /\ \A k \in 1..Len(b) : PlacedBlock(b, file, n, k)
  /\ \A j, k \in 1..Len(b) : j < k => b[j].last < b[k].first
  /\ \A i \in 1..n : file[i].kind = "blank" \/ Covered(b, i)

(* What a line does: nothing, a block of its own, or the last block goes on. *)
Appends(c, b, file, i) ==
  \E kind \in Kind : \E parts \in Seq(Texts) :
    /\ c = Append(b, NewBlock(kind, parts, i, i))
    /\ kind = "paragraph" <=> IsText(file, i)
    /\ kind = "paragraph" => ~IsText(file, i - 1)

Extends(c, b, file, i) ==
  /\ \E part \in Texts : c = Extended(b, part, i)
  /\ IsText(file, i - 1) /\ IsText(file, i)
  /\ b # <<>> /\ b[Len(b)].last = i - 1

(* A line does one of these, where no line has two parts. *)
LEMMA PlainLine ==
  ASSUME NEW file \in Lines, Plain(file), NEW i \in DOMAIN file, NEW b,
         Walked(b, file, i - 1)
  PROVE  LET c == ParseLine(b, file, i)
         IN  \/ c = b /\ file[i].kind = "blank" /\ ~IsText(file, i)
             \/ Appends(c, b, file, i)
             \/ Extends(c, b, file, i)
<1>1. i \in Nat \ {0} /\ file[i] \in Line  BY LineCases
<1>2. file[i].kind \in {"blank", "rule", "heading", "text"}  BY <1>1, LineIs
<1>3. IsText(file, i) <=> file[i].kind = "text"  BY DEF IsText
<1>4. CASE file[i].kind = "blank"  BY <1>3, <1>4, LineCases
<1>5. CASE file[i].kind \in {"heading", "rule"}
  <2>1. file[i].parts \in Seq(Texts) /\ file[i].kind \in Kind /\ file[i].kind # "paragraph"
    BY <1>1, <1>5, LineIs DEF Kind
  <2>2. ParseLine(b, file, i) = Append(b, NewBlock(file[i].kind, file[i].parts, i, i))
    BY <1>5, LineCases
  <2>3. ~IsText(file, i)  BY <1>3, <1>5
  <2>4. QED  BY <2>1, <2>2, <2>3 DEF Appends
<1>6. CASE file[i].kind = "text"
  <2> DEFINE p == file[i].parts[1]
             q == <<p>>
  <2>1. Len(file[i].parts) = 1 /\ p \in Texts
    <3>1. Len(file[i].parts) \in {1, 2}  BY <1>1, <1>6, LineIs
    <3>2. Len(file[i].parts) <= 1  BY DEF Plain
    <3>3. Len(file[i].parts) = 1  BY <3>1, <3>2
    <3>4. QED  BY <1>1, <3>3, LineIs
  <2>2. ParseLine(b, file, i) = Continued(b, file, i)  BY <1>6, <2>1, LineCases
  <2>3. CASE ~IsText(file, i - 1)
    <3>1. ParseLine(b, file, i) = Append(b, NewBlock("paragraph", q, i, i))
      BY <2>2, <2>3 DEF Continued
    <3>2. q \in Seq(Texts) /\ "paragraph" \in Kind  BY <2>1 DEF Kind
    <3> HIDE DEF q
    <3>3. Appends(ParseLine(b, file, i), b, file, i)
      BY <1>3, <1>6, <2>3, <3>1, <3>2 DEF Appends
    <3>4. QED  BY <3>3
  <2>4. CASE IsText(file, i - 1)
    <3>1. Len(file[i - 1].parts) # 2
      <4>1. i - 1 \in DOMAIN file  BY <2>4 DEF IsText
      <4>2. Len(file[i - 1].parts) <= 1  BY <4>1 DEF Plain
      <4>3. file[i - 1] \in Line  BY <4>1, LineCases
      <4>4. Len(file[i - 1].parts) \in {0, 1, 2}  BY <4>3, LineIs
      <4>5. QED  BY <4>2, <4>4
    <3>2. ParseLine(b, file, i) = Extended(b, p, i)
      BY <2>2, <2>4, <3>1 DEF Continued
    <3>3. b # <<>> /\ b[Len(b)].last = i - 1  BY <2>4 DEF Walked
    <3> HIDE DEF p
    <3>4. Extends(ParseLine(b, file, i), b, file, i)
      BY <1>3, <1>6, <2>1, <2>4, <3>2, <3>3 DEF Extends
    <3>5. QED  BY <3>4
  <2>5. QED  BY <2>3, <2>4
<1>7. QED  BY <1>2, <1>4, <1>5, <1>6

(* A block that ends before line n stays as it is. *)
LEMMA AppendsIsPlaced ==
  ASSUME NEW file \in Lines, NEW n \in Nat \ {0}, NEW b \in Blocks,
         Placed(b, file, n - 1), NEW c, Appends(c, b, file, n)
  PROVE  /\ Placed(c, file, n)
         /\ \A k \in 1..Len(c) : c[k].last < n => k \in 1..Len(b) /\ c[k] = b[k]
<1>1. PICK kind \in Kind, parts \in Seq(Texts) :
        /\ c = Append(b, NewBlock(kind, parts, n, n))
        /\ kind = "paragraph" <=> IsText(file, n)
        /\ kind = "paragraph" => ~IsText(file, n - 1)
  BY DEF Appends
<1>2. /\ c \in Blocks /\ Len(c) = Len(b) + 1 /\ Len(b) \in Nat
      /\ \A k \in 1..Len(b) : c[k] = b[k]
      /\ c[Len(b) + 1] = NewBlock(kind, parts, n, n)
  BY <1>1, AppendedIs
<1> DEFINE m == Len(b) + 1
<1>3. /\ c[m].kind = kind /\ c[m].first = n /\ c[m].last = n
  BY <1>2 DEF NewBlock
<1>4. \A k \in 1..m : k = m \/ k \in 1..Len(b)  BY <1>2
<1>5. ASSUME NEW k \in 1..Len(b)
      PROVE  /\ PlacedBlock(b, file, n - 1, k) /\ b[k].first \in Nat /\ b[k].last \in Nat
             /\ c[k] = b[k] /\ b[k].last < n /\ b[k].last <= n - 1
  <2>1. PlacedBlock(b, file, n - 1, k)  BY DEF Placed
  <2>2. b[k].first \in Nat /\ b[k].last \in Nat  BY BlockFields
  <2>3. QED  BY <1>2, <2>1, <2>2 DEF PlacedBlock
<1> HIDE DEF m
<1>6. ASSUME NEW k \in 1..m PROVE PlacedBlock(c, file, n, k)
  <2>1. CASE k = m
    <3>1. c[k].first = n /\ c[k].last = n /\ c[k].kind = kind  BY <1>3, <2>1
    <3>2. n <= n /\ ~(n < n)  OBVIOUS
    <3>3. QED  BY <1>1, <3>1, <3>2 DEF PlacedBlock
  <2>2. CASE k \in 1..Len(b)
    <3>1. c[k] = b[k] /\ b[k].first <= b[k].last /\ b[k].last <= n  BY <1>5, <2>2 DEF PlacedBlock
    <3>2. IF b[k].kind = "paragraph"
          THEN /\ IsText(file, b[k].first) /\ IsText(file, b[k].last)
               /\ ~IsText(file, b[k].first - 1)
          ELSE ~IsText(file, b[k].first) /\ ~IsText(file, b[k].last)
      BY <1>5, <2>2 DEF PlacedBlock
    <3>3. ~(IsText(file, b[k].last) /\ IsText(file, b[k].last + 1))
      <4>1. CASE b[k].last < n - 1  BY <1>5, <2>2, <4>1 DEF PlacedBlock
      <4>2. CASE ~(b[k].last < n - 1)
        <5>1. b[k].last \in Nat /\ b[k].last <= n - 1  BY <1>5, <2>2
        <5>2. b[k].last = n - 1 /\ b[k].last + 1 = n  BY <4>2, <5>1
        <5>3. QED  BY <1>1, <5>2
      <4>3. QED  BY <4>1, <4>2
    <3>4. QED  BY <3>1, <3>2, <3>3 DEF PlacedBlock
  <2>3. QED  BY <1>4, <2>1, <2>2 DEF m
<1>7. ASSUME NEW j \in 1..m, NEW k \in 1..m, j < k PROVE c[j].last < c[k].first
  <2>1. j \in 1..Len(b)  BY <1>2, <1>7 DEF m
  <2>2. CASE k = m  BY <1>3, <1>5, <2>1, <2>2
  <2>3. CASE k \in 1..Len(b)
    <3>1. b[j].last < b[k].first  BY <1>7, <2>1, <2>3 DEF Placed
    <3>2. QED  BY <1>2, <2>1, <2>3, <3>1
  <2>4. QED  BY <1>4, <2>2, <2>3 DEF m
<1>8. ASSUME NEW i \in 1..n PROVE file[i].kind = "blank" \/ Covered(c, i)
  <2>1. CASE i = n
    <3>1. m \in 1..Len(c) /\ n <= n  BY <1>2 DEF m
    <3>2. c[m].first <= i /\ i <= c[m].last  BY <1>3, <2>1, <3>1
    <3>3. QED  BY <3>1, <3>2 DEF Covered
  <2>2. CASE i # n
    <3>1. i \in 1..n - 1  BY <2>2
    <3>2. Covered(b, i) => Covered(c, i)
      <4>1. \A k \in 1..Len(b) : k \in 1..Len(c) /\ c[k] = b[k]  BY <1>2
      <4>2. QED  BY <4>1 DEF Covered
    <3>3. QED  BY <3>1, <3>2 DEF Placed
  <2>3. QED  BY <2>1, <2>2
<1>9. Len(c) = m  BY <1>2 DEF m
<1>10. ASSUME NEW k \in 1..Len(c), c[k].last < n PROVE k \in 1..Len(b) /\ c[k] = b[k]
  <2>1. k # m  BY <1>3, <1>10
  <2>2. k \in 1..Len(b)  BY <1>4, <1>9, <2>1 DEF m
  <2>3. QED  BY <1>2, <2>2
<1>11. Placed(c, file, n)  BY <1>6, <1>7, <1>8, <1>9 DEF Placed
<1>12. QED  BY <1>10, <1>11

(* The same for a line on which the last block goes on. *)
LEMMA ExtendsIsPlaced ==
  ASSUME NEW file \in Lines, NEW n \in Nat \ {0}, NEW b \in Blocks,
         Placed(b, file, n - 1), NEW c, Extends(c, b, file, n)
  PROVE  /\ Placed(c, file, n)
         /\ \A k \in 1..Len(c) : c[k].last < n => k \in 1..Len(b) /\ c[k] = b[k]
<1>1. PICK part \in Texts : c = Extended(b, part, n)  BY DEF Extends
<1>2. /\ IsText(file, n - 1) /\ IsText(file, n) /\ b # <<>> /\ b[Len(b)].last = n - 1
  BY DEF Extends
<1> DEFINE m == Len(b)
<1>3. /\ c \in Blocks /\ Len(c) = m /\ m \in Nat \ {0}
      /\ \A k \in 1..m - 1 : c[k] = b[k]
      /\ c[m] = NewBlock("paragraph", b[m].content \o <<part>>, b[m].first, n)
  BY <1>1, <1>2, ExtendedIs
<1>4. c[m].kind = "paragraph" /\ c[m].first = b[m].first /\ c[m].last = n
  BY <1>3 DEF NewBlock
<1>5. ASSUME NEW k \in 1..m
      PROVE  PlacedBlock(b, file, n - 1, k) /\ b[k].first \in Nat /\ b[k].last \in Nat
  <2>1. PlacedBlock(b, file, n - 1, k)  BY DEF Placed
  <2>2. b[k].first \in Nat /\ b[k].last \in Nat  BY BlockFields
  <2>3. QED  BY <2>1, <2>2
<1>6. b[m].kind = "paragraph"
  <2>1. m \in 1..m  BY <1>3
  <2>2. QED  BY <1>2, <1>5, <2>1 DEF PlacedBlock
<1>7. b[m].first <= n - 1 /\ m \in 1..m
  <2>1. m \in 1..m  BY <1>3
  <2>2. QED  BY <1>2, <1>5, <2>1 DEF PlacedBlock
<1>8. ASSUME NEW k \in 1..m - 1
      PROVE  c[k] = b[k] /\ k \in 1..m /\ b[k].last < n - 1
  <2>1. k \in 1..m /\ k < m  BY <1>3
  <2>2. b[k].last < b[m].first  BY <1>7, <2>1 DEF Placed
  <2>3. b[k].last \in Nat /\ b[m].first \in Nat  BY <1>5, <1>7, <2>1
  <2>4. QED  BY <1>3, <1>7, <2>1, <2>2, <2>3
<1>9. \A k \in 1..m : k = m \/ k \in 1..m - 1  BY <1>3
<1> HIDE DEF m
<1>10. ASSUME NEW k \in 1..m PROVE PlacedBlock(c, file, n, k)
  <2>1. CASE k = m
    <3>1. PlacedBlock(b, file, n - 1, m) /\ b[m].first \in Nat  BY <1>5, <1>7
    <3>2. b[m].first <= n /\ n <= n /\ ~(n < n)  BY <1>7, <3>1
    <3>3. IsText(file, b[m].first) /\ ~IsText(file, b[m].first - 1)
      BY <1>6, <3>1 DEF PlacedBlock
    <3>4. QED  BY <1>2, <1>4, <2>1, <3>2, <3>3 DEF PlacedBlock
  <2>2. CASE k \in 1..m - 1
    <3>1. /\ PlacedBlock(b, file, n - 1, k) /\ c[k] = b[k] /\ b[k].last < n - 1
          /\ b[k].last \in Nat
      BY <1>5, <1>8, <2>2
    <3>2. b[k].last <= n  BY <3>1
    <3>3. QED  BY <3>1, <3>2 DEF PlacedBlock
  <2>3. QED  BY <1>9, <2>1, <2>2
<1>11. ASSUME NEW j \in 1..m, NEW k \in 1..m, j < k PROVE c[j].last < c[k].first
  <2>1. j \in 1..m - 1  BY <1>3, <1>11
  <2>2. c[k].first = b[k].first /\ c[j] = b[j]  BY <1>4, <1>8, <1>9, <2>1
  <2>3. b[j].last < b[k].first  BY <1>11 DEF Placed, m
  <2>4. QED  BY <2>2, <2>3
<1>12. ASSUME NEW i \in 1..n PROVE file[i].kind = "blank" \/ Covered(c, i)
  <2>1. CASE i = n
    <3>1. m \in 1..Len(c) /\ b[m].first <= n /\ n <= n  BY <1>3, <1>5, <1>7
    <3>2. c[m].first <= i /\ i <= c[m].last  BY <1>4, <2>1, <3>1
    <3>3. QED  BY <3>1, <3>2 DEF Covered
  <2>2. CASE i # n
    <3>1. i \in 1..n - 1  BY <2>2
    <3>2. ASSUME NEW k \in 1..m, b[k].first <= i, i <= b[k].last
          PROVE  c[k].first <= i /\ i <= c[k].last
      <4>1. CASE k = m
        <5>1. i <= n  BY <3>1
        <5>2. QED  BY <1>4, <3>2, <4>1, <5>1
      <4>2. CASE k \in 1..m - 1  BY <1>8, <3>2, <4>2
      <4>3. QED  BY <1>9, <4>1, <4>2
    <3>3. Covered(b, i) => Covered(c, i)  BY <1>3, <3>2 DEF Covered, m
    <3>4. QED  BY <3>1, <3>3 DEF Placed
  <2>3. QED  BY <2>1, <2>2
<1>13. ASSUME NEW k \in 1..Len(c), c[k].last < n PROVE k \in 1..Len(b) /\ c[k] = b[k]
  <2>1. k # m  BY <1>4, <1>13
  <2>2. k \in 1..m - 1  BY <1>3, <1>9, <2>1
  <2>3. QED  BY <1>8, <2>2 DEF m
<1>14. Placed(c, file, n)  BY <1>3, <1>10, <1>11, <1>12 DEF Placed
<1>15. QED  BY <1>13, <1>14

(* Up to the last line of block k, the file says what the blocks to k say. *)
SaidBefore(b, f) ==
  \A k \in 1..Len(b) : Outline(f[b[k].last]) = SubSeq(Outline(b), 1, k)

(* Every block lies where it should, after each line. *)
LEMMA WalkIsPlaced ==
  ASSUME NEW file \in Lines, Plain(file), NEW f, Walks(f, file), NEW n \in 0..Len(file)
  PROVE  Placed(f[n], file, n) /\ SaidBefore(f[n], f)
<1> DEFINE T == {m \in 0..Len(file) : Placed(f[m], file, m) /\ SaidBefore(f[m], f)}
<1>1. Len(file) \in Nat /\ DOMAIN file = 1..Len(file)  BY LinesAreSeqs
<1>2. 0 \in T
  <2>1. f[0] = <<>> /\ Len(f[0]) = 0  BY BlocksAreSeqs DEF Walks
  <2>2. Placed(f[0], file, 0) /\ SaidBefore(f[0], f)  BY <2>1 DEF Placed, SaidBefore
  <2>3. QED  BY <1>1, <2>2
<1>3. ASSUME NEW m \in 1..Len(file), m - 1 \in T PROVE m \in T
  <2> DEFINE b == f[m - 1]
             c == f[m]
  <2>1. m - 1 \in 0..Len(file) /\ m \in 0..Len(file) /\ m \in DOMAIN file /\ m \in Nat \ {0}
    BY <1>1
  <2>2. Walked(b, file, m - 1) /\ b \in Blocks  BY <2>1, WalksAreWalked DEF Walked
  <2>3. c \in Blocks  BY <2>1, WalksAreWalked DEF Walked
  <2>4. c = ParseLine(b, file, m)  BY DEF Walks
  <2>5. Placed(b, file, m - 1) /\ SaidBefore(b, f)  BY <1>3
  <2> HIDE DEF b, c
  <2>6. \/ c = b /\ file[m].kind = "blank" /\ ~IsText(file, m)
        \/ Appends(c, b, file, m)
        \/ Extends(c, b, file, m)
    BY <2>1, <2>2, <2>4, PlainLine
  <2>7. /\ Placed(c, file, m)
        /\ \A k \in 1..Len(c) : c[k].last < m => k \in 1..Len(b) /\ c[k] = b[k]
    <3>1. CASE Appends(c, b, file, m)  BY <2>1, <2>2, <2>5, <3>1, AppendsIsPlaced
    <3>2. CASE Extends(c, b, file, m)  BY <2>1, <2>2, <2>5, <3>2, ExtendsIsPlaced
    <3>3. CASE c = b /\ file[m].kind = "blank" /\ ~IsText(file, m)
      <4>1. ASSUME NEW k \in 1..Len(b) PROVE PlacedBlock(b, file, m, k)
        <5>1. PlacedBlock(b, file, m - 1, k)  BY <2>5 DEF Placed
        <5>2. b[k].last \in Nat /\ b[k].last <= m - 1
          BY <2>2, <5>1, BlockFields DEF PlacedBlock
        <5>3. b[k].last <= m /\ (b[k].last < m - 1 \/ b[k].last + 1 = m)  BY <2>1, <5>2
        <5>4. QED  BY <3>3, <5>1, <5>3 DEF PlacedBlock
      <4>2. \A i \in 1..m : i = m \/ i \in 1..m - 1  BY <2>1
      <4>3. Placed(c, file, m)  BY <2>5, <3>3, <4>1, <4>2 DEF Placed
      <4>4. QED  BY <3>3, <4>3
    <3>4. QED  BY <2>6, <3>1, <3>2, <3>3
  <2>8. ASSUME NEW k \in 1..Len(c) PROVE Outline(f[c[k].last]) = SubSeq(Outline(c), 1, k)
    <3>1. /\ Outline(c) \in Seq(Sayings) /\ Len(Outline(c)) = Len(c) /\ Len(c) \in Nat
          /\ \A j \in 1..Len(c) : Outline(c)[j] = Said(c[j].kind, c[j].content)
      BY <2>3, OutlineIs
    <3>2. ASSUME NEW j \in 1..Len(c)
          PROVE  /\ c[j].last \in Nat /\ c[j].first \in Nat /\ c[j].last <= m
                 /\ c[j].first <= c[j].last
      <4>1. PlacedBlock(c, file, m, j)  BY <2>7 DEF Placed
      <4>2. QED  BY <2>3, <4>1, BlockFields DEF PlacedBlock
    <3>3. ASSUME NEW j \in 1..Len(c), j < k PROVE c[j].last < c[k].last
      <4>1. c[j].last < c[k].first  BY <2>7, <3>3 DEF Placed
      <4>2. QED  BY <3>2, <4>1
    <3>4. CASE c[k].last = m
      <4>1. k = Len(c)
        <5>1. Len(c) \in 1..Len(c) /\ c[Len(c)].last <= m  BY <3>1, <3>2
        <5>2. ~(k < Len(c))
          <6>1. SUFFICES ASSUME k < Len(c) PROVE FALSE  OBVIOUS
          <6>2. c[k].last < c[Len(c)].first  BY <2>7, <5>1, <6>1 DEF Placed
          <6>3. c[Len(c)].first \in Nat /\ c[Len(c)].first <= c[Len(c)].last /\ c[Len(c)].last \in Nat
            BY <3>2, <5>1
          <6>4. QED  BY <2>1, <3>4, <5>1, <6>2, <6>3
        <5>3. QED  BY <3>1, <5>2
      <4>2. SubSeq(Outline(c), 1, Len(Outline(c))) = Outline(c)  BY <3>1, SubSeqFull
      <4>3. QED  BY <3>1, <3>4, <4>1, <4>2 DEF c
    <3>5. CASE c[k].last # m
      <4>1. c[k].last < m  BY <2>1, <3>2, <3>5
      <4>2. k \in 1..Len(b) /\ c[k] = b[k]  BY <2>7, <4>1
      <4>3. /\ Outline(b) \in Seq(Sayings) /\ Len(Outline(b)) = Len(b) /\ Len(b) \in Nat
            /\ \A j \in 1..Len(b) : Outline(b)[j] = Said(b[j].kind, b[j].content)
        BY <2>2, OutlineIs
      <4>4. Outline(f[b[k].last]) = SubSeq(Outline(b), 1, k)  BY <2>5, <4>2 DEF SaidBefore
      <4>5. ASSUME NEW j \in 1..k PROVE Outline(b)[j] = Outline(c)[j]
        <5>1. j \in 1..Len(c) /\ j \in 1..Len(b)  BY <3>1, <4>2, <4>3
        <5>2. c[j].last < m
          <6>1. j = k \/ j < k  BY <4>2, <4>3
          <6>2. j < k => c[j].last < c[k].last  BY <3>3, <5>1
          <6>3. QED  BY <2>1, <3>2, <4>1, <5>1, <6>1, <6>2
        <5>3. c[j] = b[j]  BY <2>7, <5>1, <5>2
        <5>4. QED  BY <3>1, <4>3, <5>1, <5>3
      <4>6. SubSeq(Outline(b), 1, k) = SubSeq(Outline(c), 1, k)
        <5> DEFINE s == SubSeq(Outline(b), 1, k)
                   t == SubSeq(Outline(c), 1, k)
        <5>1. 0 + 1 = 1 /\ k - 0 = k /\ 0 \in 0..Len(Outline(b)) /\ 0 \in 0..Len(Outline(c))
              /\ k \in 0..Len(Outline(b)) /\ k \in 0..Len(Outline(c))
          BY <3>1, <4>2, <4>3
        <5>2. /\ s \in Seq(Sayings) /\ Len(s) = k
              /\ \A i \in 1..k : s[i] = Outline(b)[0 + i]
          BY <4>3, <5>1, Segments
        <5>3. /\ t \in Seq(Sayings) /\ Len(t) = k
              /\ \A i \in 1..k : t[i] = Outline(c)[0 + i]
          BY <3>1, <5>1, Segments
        <5>4. \A i \in 1..k : 0 + i = i  BY <4>2
        <5> HIDE DEF s, t
        <5>5. \A i \in 1..Len(s) : s[i] = t[i]  BY <4>5, <5>2, <5>3, <5>4
        <5>6. s = t  BY <5>2, <5>3, <5>5, SeqEqual
        <5>7. QED  BY <5>6 DEF s, t
      <4>7. QED  BY <4>2, <4>4, <4>6
    <3>6. QED  BY <3>4, <3>5
  <2>9. SaidBefore(c, f)  BY <2>8 DEF SaidBefore
  <2>10. QED  BY <2>1, <2>7, <2>9 DEF c
<1> HIDE DEF T
<1>4. 0..Len(file) \subseteq T  BY <1>1, <1>2, <1>3, UpTo
<1>5. QED  BY <1>4 DEF T

-----------------------------------------------------------------------------
(* A file in two: its first lines, and lines of which it is known what     *)
(* they say.                                                               *)

Part(s, i, j) == SubSeq(s, i + 1, j)

(* The part of a sequence behind i, up to j. *)
LEMMA Parts ==
  ASSUME NEW S, NEW s \in Seq(S), NEW i \in 0..Len(s), NEW j \in i..Len(s)
  PROVE  /\ Part(s, i, j) \in Seq(S) /\ Len(Part(s, i, j)) = j - i
         /\ \A m \in 1..j - i : Part(s, i, j)[m] = s[i + m]
         /\ Part(s, 0, Len(s)) = s /\ Part(s, i, i) = <<>>
<1>1. Len(s) \in Nat  BY LenProperties
<1>2. /\ Part(s, i, j) \in Seq(S) /\ Len(Part(s, i, j)) = j - i
      /\ \A m \in 1..j - i : Part(s, i, j)[m] = s[i + m]
  BY Segments DEF Part
<1>3. Part(s, 0, Len(s)) = s
  <2>1. SubSeq(s, 1, Len(s)) = s  BY SubSeqFull
  <2>2. 0 + 1 = 1  OBVIOUS
  <2>3. QED  BY <2>1, <2>2 DEF Part
<1>4. Part(s, i, i) = <<>>
  <2>1. i + 1 \in Int /\ i \in Int /\ i < i + 1  BY <1>1
  <2>2. QED  BY <2>1, SubSeqEmpty DEF Part
<1>5. QED  BY <1>2, <1>3, <1>4

(* Two parts next to each other are one. *)
LEMMA PartsJoin ==
  ASSUME NEW S, NEW s \in Seq(S), NEW h \in 0..Len(s), NEW i \in h..Len(s),
         NEW j \in i..Len(s)
  PROVE  Part(s, h, i) \o Part(s, i, j) = Part(s, h, j)
<1>1. Len(s) \in Nat  BY LenProperties
<1>2. h + 1 \in 1..Len(s) + 1 /\ i \in (h + 1) - 1..Len(s) /\ j \in i..Len(s)
  BY <1>1
<1>3. QED  BY <1>2, ConcatAdjacentSubSeq DEF Part

(* A part of a file is a file. *)
LEMMA PartOfFile ==
  ASSUME NEW file \in Lines, NEW i \in 0..Len(file), NEW j \in i..Len(file)
  PROVE  /\ Part(file, i, j) \in Lines /\ Len(Part(file, i, j)) = j - i /\ j - i \in Nat
         /\ i \in Nat /\ j \in Nat
         /\ \A m \in 1..j - i : Part(file, i, j)[m] = file[i + m]
         /\ \A m \in 1..j - i : IsText(Part(file, i, j), m) <=> IsText(file, i + m)
         /\ Plain(file) => Plain(Part(file, i, j))
<1>1. file \in Seq(Line) /\ Len(file) \in Nat /\ DOMAIN file = 1..Len(file)
  BY LinesAreSeqs
<1>2. /\ Part(file, i, j) \in Lines /\ Len(Part(file, i, j)) = j - i
      /\ \A m \in 1..j - i : Part(file, i, j)[m] = file[i + m]
  <2>1. Lines = Seq(Line)  BY DEF Lines
  <2>2. /\ Part(file, i, j) \in Seq(Line) /\ Len(Part(file, i, j)) = j - i
        /\ \A m \in 1..j - i : Part(file, i, j)[m] = file[i + m]
    <3>1. file \in Seq(Line)  BY <1>1
    <3>2. QED  BY ONLY <3>1, i \in 0..Len(file), j \in i..Len(file), Parts
  <2>3. QED  BY <2>1, <2>2
<1>3. j - i \in Nat /\ i \in Nat /\ j \in Nat  BY <1>1
<1>4. \A m \in 1..j - i : i + m \in 1..Len(file)  BY <1>1
<1>5. DOMAIN Part(file, i, j) = 1..j - i  BY <1>2, LinesAreSeqs
<1>6. \A m \in 1..j - i : IsText(Part(file, i, j), m) <=> IsText(file, i + m)
  BY <1>1, <1>2, <1>4, <1>5 DEF IsText
<1>7. Plain(file) => Plain(Part(file, i, j))
  BY <1>1, <1>2, <1>4, <1>5 DEF Plain
<1>8. QED  BY <1>2, <1>3, <1>6, <1>7

(* Blank lines say nothing. *)
LEMMA BlankTold ==
  ASSUME NEW C \in Lines, \A i \in DOMAIN C : C[i].kind = "blank"
  PROVE  Told(C) = <<>> /\ Plain(C)
<1>1. Len(C) \in Nat /\ DOMAIN C = 1..Len(C)  BY LinesAreSeqs
<1>2. PICK f : Walks(f, C)  BY ParseWalks
<1> DEFINE T == {m \in 0..Len(C) : f[m] = <<>>}
<1>3. 0 \in T  BY <1>1, <1>2 DEF Walks
<1>4. ASSUME NEW m \in 1..Len(C), m - 1 \in T PROVE m \in T
  <2>1. m \in DOMAIN C /\ C[m].kind = "blank" /\ m \in 0..Len(C)  BY <1>1
  <2>2. f[m] = ParseLine(f[m - 1], C, m)  BY <1>2 DEF Walks
  <2>3. f[m] = f[m - 1]  BY <2>1, <2>2, LineCases
  <2>4. QED  BY <1>4, <2>1, <2>3
<1> HIDE DEF T
<1>5. 0..Len(C) \subseteq T  BY <1>1, <1>3, <1>4, UpTo
<1>6. f[Len(C)] = <<>>  BY <1>1, <1>5 DEF T
<1>7. Told(C) = Outline(<<>>)  BY <1>2, <1>6, ToldIs
<1>8. Outline(<<>>) \in Seq(Sayings) /\ Len(Outline(<<>>)) = 0  BY BlocksAreSeqs, OutlineIs
<1>9. Plain(C)
  <2>1. ASSUME NEW i \in DOMAIN C PROVE Len(C[i].parts) <= 1
    <3>1. C[i] \in Line /\ C[i].kind = "blank"  BY LineCases
    <3>2. QED  BY <3>1, LineIs
  <2>2. QED  BY <2>1 DEF Plain
<1>10. QED  BY <1>7, <1>8, <1>9, EmptySeq

(* No text goes on over line i. *)
Clean(file, i) == ~(IsText(file, i) /\ IsText(file, i + 1))

(* T may follow the first c lines of the file, and says e. *)
Rest(T, file, c, e) ==
  T \in Lines /\ Plain(T) /\ Told(T) = e /\ (IsText(file, c) => ~IsText(T, 1))

(* What follows earlier lines, if the lines between are kept. *)
LEMMA MoveLeft ==
  ASSUME NEW file \in Lines, Plain(file), NEW c \in 0..Len(file), NEW d \in 0..c,
         Clean(file, d), NEW T, NEW e, Rest(T, file, c, e)
  PROVE  /\ Rest(Part(file, d, c) \o T, file, d, Told(Part(file, d, c)) \o e)
         /\ Part(file, 0, d) \o (Part(file, d, c) \o T) = Part(file, 0, c) \o T
<1> DEFINE P == Part(file, d, c)
<1>1. Len(file) \in Nat /\ DOMAIN file = 1..Len(file) /\ file \in Seq(Line)  BY LinesAreSeqs
<1>2. d \in 0..Len(file) /\ c \in d..Len(file) /\ d \in Nat /\ c \in Nat  BY <1>1
<1>3. /\ P \in Lines /\ Len(P) = c - d /\ c - d \in Nat /\ Plain(P)
      /\ \A m \in 1..c - d : IsText(P, m) <=> IsText(file, d + m)
  BY <1>2, PartOfFile
<1>4. T \in Lines /\ Plain(T) /\ Told(T) = e /\ (IsText(file, c) => ~IsText(T, 1))
  BY DEF Rest
<1>5. Part(file, 0, d) \o (P \o T) = Part(file, 0, c) \o T
  <2>1. 0 \in 0..d /\ 0 \in 0..Len(file)  BY <1>2
  <2>2. Part(file, 0, d) \o P = Part(file, 0, c)
    <3>1. d \in 0..Len(file) /\ 0 \in 0..Len(file)  BY <1>2
    <3>2. QED  BY <1>1, <1>2, <3>1, PartsJoin
  <2>3. Part(file, 0, d) \in Seq(Line)
    <3>1. d \in 0..Len(file)  BY <1>2
    <3>2. QED  BY <1>1, <2>1, <3>1, Parts
  <2>4. P \in Seq(Line) /\ T \in Seq(Line)  BY <1>3, <1>4 DEF Lines
  <2> DEFINE R == Part(file, 0, d)
  <2>5. R \in Seq(Line)  BY <2>3
  <2> HIDE DEF P, R
  <2>6. (R \o P) \o T = R \o (P \o T)  BY <2>4, <2>5, ConcatAssociative
  <2>7. QED  BY <2>2, <2>6 DEF R
<1> HIDE DEF P
<1>6. Apart(P, T)
  <2>1. CASE c = d
    <3>1. Len(P) = 0  BY <1>2, <1>3, <2>1
    <3>2. QED  BY <1>3, <1>4, <3>1, JoinedText DEF Apart
  <2>2. CASE c # d
    <3>1. Len(P) \in 1..c - d /\ d + Len(P) = c  BY <1>2, <1>3, <2>2
    <3>2. QED  BY <1>3, <1>4, <3>1 DEF Apart
  <2>3. QED  BY <2>1, <2>2
<1>7. Told(P \o T) = Told(P) \o e  BY <1>3, <1>4, <1>6, Join
<1>8. P \o T \in Lines /\ Plain(P \o T)  BY <1>3, <1>4, Joined, PlainJoins
<1>9. IsText(file, d) => ~IsText(P \o T, 1)
  <2>1. CASE c = d
    <3>1. P \in Seq(Line) /\ T \in Seq(Line) /\ Len(P) = 0  BY <1>2, <1>3, <1>4, <2>1 DEF Lines
    <3>2. P \o T = T  BY <3>1, EmptySeq, ConcatEmptySeq
    <3>3. QED  BY <1>4, <2>1, <3>2
  <2>2. CASE c # d
    <3>1. 1 \in 1..c - d /\ 1 \in 0..Len(P)  BY <1>2, <1>3, <2>2
    <3>2. IsText(P \o T, 1) <=> IsText(file, d + 1)  BY <1>3, <1>4, <3>1, JoinedText
    <3>3. QED  BY <3>2 DEF Clean
  <2>3. QED  BY <2>1, <2>2
<1>10. QED  BY <1>5, <1>7, <1>8, <1>9 DEF Rest, P

-----------------------------------------------------------------------------
(* The blocks of a file whose blocks have lines of their own.              *)

EndOf(b, k) == IF k = 0 THEN 0 ELSE b[k].last

(* Where its blocks lie, and what its first lines say. *)
LEMMA Layout ==
  ASSUME NEW file \in Lines, OwnLines(Parse(file))
  PROVE  LET b == Parse(file)
         IN  /\ Plain(file) /\ b \in Blocks /\ Len(b) \in Nat /\ Len(file) \in Nat
             /\ Told(file) = Outline(b)
             /\ \A k \in 1..Len(b) :
                  /\ b[k].first \in Nat \ {0} /\ b[k].last \in Nat \ {0}
                  /\ b[k].first <= b[k].last /\ b[k].last <= Len(file)
                  /\ EndOf(b, k) = b[k].last /\ EndOf(b, k - 1) < b[k].first
                  /\ Clean(file, b[k].first - 1)
                  /\ b[k].kind = "paragraph" =>
                       ~IsText(file, b[k].first - 1) /\ IsText(file, b[k].last)
             /\ \A k \in 0..Len(b) :
                  /\ EndOf(b, k) \in 0..Len(file) /\ Clean(file, EndOf(b, k))
                  /\ Told(Part(file, 0, EndOf(b, k))) = Part(Outline(b), 0, k)
             /\ \A j, k \in 1..Len(b) : j < k => b[j].last < b[k].first
             /\ \A i \in 1..Len(file) : file[i].kind = "blank" \/ Covered(b, i)
<1> DEFINE b == Parse(file)
           N == Len(file)
<1>1. Plain(file) /\ N \in Nat /\ DOMAIN file = 1..N /\ file \in Seq(Line)
  BY OwnLinesArePlain, LinesAreSeqs
<1>2. PICK f : Walks(f, file)  BY ParseWalks
<1>3. b = f[N]  BY <1>2, ParseWalks
<1>4. Placed(b, file, N) /\ SaidBefore(b, f)
  <2>1. N \in 0..N  BY <1>1
  <2>2. QED  BY <1>1, <1>2, <1>3, <2>1, WalkIsPlaced
<1>5. b \in Blocks /\ Len(b) \in Nat  BY ToldIs, BlocksAreSeqs
<1>6. Told(file) = Outline(b)  BY DEF Told
<1> HIDE DEF b, N
<1>7. ASSUME NEW k \in 1..Len(b)
      PROVE  /\ b[k].first \in Nat \ {0} /\ b[k].last \in Nat \ {0}
             /\ b[k].first <= b[k].last /\ b[k].last <= N
             /\ EndOf(b, k) = b[k].last /\ EndOf(b, k - 1) < b[k].first
             /\ Clean(file, b[k].first - 1)
             /\ b[k].kind = "paragraph" =>
                  ~IsText(file, b[k].first - 1) /\ IsText(file, b[k].last)
             /\ Clean(file, b[k].last)
  <2>1. PlacedBlock(b, file, N, k)  BY <1>4 DEF Placed
  <2>2. b[k].first \in Nat \ {0} /\ b[k].last \in Nat \ {0}  BY <1>5, BlockFields
  <2>3. EndOf(b, k) = b[k].last  BY <1>5 DEF EndOf
  <2>4. EndOf(b, k - 1) < b[k].first
    <3>1. CASE k = 1  BY <2>2, <3>1 DEF EndOf
    <3>2. CASE k # 1
      <4>1. k - 1 \in 1..Len(b) /\ k - 1 < k /\ k - 1 # 0  BY <1>5, <3>2
      <4>2. QED  BY <1>4, <4>1 DEF EndOf, Placed
    <3>3. QED  BY <3>1, <3>2
  <2>5. Clean(file, b[k].first - 1)
    <3>1. (b[k].first - 1) + 1 = b[k].first  BY <2>2
    <3>2. QED  BY <2>1, <3>1 DEF Clean, PlacedBlock
  <2>6. b[k].last <= N /\ b[k].first <= b[k].last  BY <2>1 DEF PlacedBlock
  <2>7. Clean(file, b[k].last)
    <3>1. CASE b[k].last < N  BY <2>1, <3>1 DEF PlacedBlock, Clean
    <3>2. CASE ~(b[k].last < N)
      <4>1. b[k].last + 1 = N + 1 /\ N + 1 \notin 1..N  BY <1>1, <2>2, <2>6, <3>2
      <4>2. QED  BY <1>1, <4>1 DEF Clean, IsText
    <3>3. QED  BY <3>1, <3>2
  <2>8. QED  BY <2>1, <2>2, <2>3, <2>4, <2>5, <2>6, <2>7 DEF PlacedBlock
<1>8. ASSUME NEW k \in 0..Len(b)
      PROVE  /\ EndOf(b, k) \in 0..N /\ Clean(file, EndOf(b, k))
             /\ Told(Part(file, 0, EndOf(b, k))) = Part(Outline(b), 0, k)
  <2>1. /\ EndOf(b, k) \in 0..N /\ Clean(file, EndOf(b, k))
    <3>1. CASE k = 0
      <4>1. ~IsText(file, 0)  BY JoinedText
      <4>2. QED  BY <1>1, <3>1, <4>1 DEF EndOf, Clean
    <3>2. CASE k # 0
      <4>1. k \in 1..Len(b)  BY <1>5, <3>2
      <4>2. QED  BY <1>1, <1>7, <4>1
    <3>3. QED  BY <3>1, <3>2
  <2>2. Told(Part(file, 0, EndOf(b, k))) = Part(Outline(b), 0, k)
    <3>1. Outline(b) \in Seq(Sayings) /\ Len(Outline(b)) = Len(b)  BY <1>5, OutlineIs
    <3>2. CASE k = 0
      <4>1. 0 \in 0..N /\ 0 \in 0..0 /\ 0 \in 0..Len(Outline(b))  BY <1>1, <1>5, <3>1
      <4>2. Part(file, 0, 0) = <<>>
        <5>1. 0 \in 0..Len(file) /\ 0 \in 0..Len(file)  BY <4>1 DEF N
        <5>2. QED  BY <1>1, <5>1, Parts
      <4>3. Part(Outline(b), 0, 0) = <<>>  BY <3>1, <4>1, Parts
      <4>4. Told(<<>>) = <<>>
        <5>1. <<>> \in Lines /\ DOMAIN <<>> = {}  BY LinesAreSeqs
        <5>2. QED  BY <5>1, BlankTold
      <4>5. QED  BY <3>2, <4>2, <4>3, <4>4 DEF EndOf
    <3>3. CASE k # 0
      <4> DEFINE n == b[k].last
                 P == Part(file, 0, n)
                 Q == Part(file, n, N)
      <4>1. k \in 1..Len(b) /\ n \in Nat /\ n \in 0..N  BY <1>1, <1>5, <1>7, <3>3
      <4>2. Outline(f[n]) = SubSeq(Outline(b), 1, k)  BY <1>4, <4>1 DEF SaidBefore
      <4> HIDE DEF n
      <4>3. P \in Lines /\ Q \in Lines /\ P \o Q = file /\ Len(P) = n
        <5>1. n \in 0..Len(file) /\ Len(file) \in n..Len(file) /\ 0 \in 0..Len(file)
          BY <1>1, <4>1 DEF N
        <5>2. Part(file, 0, n) \o Part(file, n, Len(file)) = Part(file, 0, Len(file))
          <6>1. n \in 0..Len(file) /\ Len(file) \in n..Len(file)  BY <5>1
          <6>2. QED  BY <1>1, <5>1, <6>1, PartsJoin
        <5>3. Part(file, 0, Len(file)) = file  BY <1>1, <5>1, Parts
        <5>4. P \in Lines /\ Len(P) = n - 0  BY <5>1, PartOfFile, <4>1
        <5>5. Q \in Lines  BY <5>1, PartOfFile DEF N
        <5>6. QED  BY <4>1, <5>2, <5>3, <5>4, <5>5 DEF N
      <4> HIDE DEF P, Q
      <4>4. PICK a : Walks(a, P)  BY <4>3, ParseWalks
      <4>5. Walks(f, P \o Q)  BY <1>2, <4>3
      <4>6. f[n] = a[n]
        <5>1. n \in 0..Len(P)  BY <4>1, <4>3
        <5>2. P \in Lines /\ Q \in Lines  BY <4>3
        <5>3. QED  BY <4>4, <4>5, <5>1, <5>2, WalkBegins
      <4>7. Told(P) = Outline(a[n])  BY <4>3, <4>4, ToldIs
      <4>8. 0 + 1 = 1  OBVIOUS
      <4>9. EndOf(b, k) = n  BY <1>7, <4>1 DEF n
      <4>10. QED  BY <4>2, <4>6, <4>7, <4>8, <4>9 DEF P, Part
    <3>4. QED  BY <3>2, <3>3
  <2>3. QED  BY <2>1, <2>2
<1>9. \A j, k \in 1..Len(b) : j < k => b[j].last < b[k].first  BY <1>4 DEF Placed
<1>10. \A i \in 1..N : file[i].kind = "blank" \/ Covered(b, i)  BY <1>4 DEF Placed
<1>11. QED  BY <1>1, <1>5, <1>6, <1>7, <1>8, <1>9, <1>10 DEF b, N

(* The lines of a block, and the blank ones before it, say the block. *)
LEMMA BlockTold ==
  ASSUME NEW file \in Lines, OwnLines(Parse(file)), NEW k \in 1..Len(Parse(file))
  PROVE  LET b == Parse(file)
             P == Part(file, EndOf(b, k - 1), EndOf(b, k))
         IN  /\ P \in Lines /\ Told(P) = <<Outline(b)[k]>>
             /\ EndOf(b, k - 1) \in 0..EndOf(b, k) /\ EndOf(b, k) \in 0..Len(file)
<1> DEFINE b == Parse(file)
           i == EndOf(b, k - 1)
           j == EndOf(b, k)
           A == Part(file, 0, i)
           P == Part(file, i, j)
           o == Outline(b)
<1>1. /\ Plain(file) /\ b \in Blocks /\ Len(b) \in Nat /\ Len(file) \in Nat
      /\ file \in Seq(Line)
  BY Layout, LinesAreSeqs
<1>2. k \in 0..Len(b) /\ k - 1 \in 0..Len(b) /\ k \in 1..Len(b)  BY <1>1
<1>3. /\ i \in 0..Len(file) /\ Clean(file, i) /\ Told(A) = Part(o, 0, k - 1)
      /\ j \in 0..Len(file) /\ Told(Part(file, 0, j)) = Part(o, 0, k)
  BY <1>2, Layout
<1>4. i <= j
  <2>1. b[k].first <= b[k].last /\ b[k].first \in Nat /\ b[k].last \in Nat
        /\ j = b[k].last /\ i < b[k].first
    BY <1>2, Layout
  <2>2. QED  BY <1>3, <2>1
<1>5. o \in Seq(Sayings) /\ Len(o) = Len(b)  BY <1>1, OutlineIs
<1> HIDE DEF b, i, j, o
<1>6. i \in Nat /\ j \in Nat /\ j \in i..Len(file) /\ 0 \in 0..Len(file) /\ i \in 0..Len(file)
  BY <1>1, <1>3, <1>4
<1>7. /\ A \in Lines /\ Len(A) = i /\ Plain(A)
      /\ \A m \in 1..i : IsText(A, m) <=> IsText(file, m)
  <2>1. i - 0 = i /\ \A m \in 1..i : 0 + m = m  BY <1>6
  <2>2. /\ A \in Lines /\ Len(A) = i - 0 /\ Plain(A)
        /\ \A m \in 1..i - 0 : IsText(A, m) <=> IsText(file, 0 + m)
    BY <1>1, <1>6, PartOfFile
  <2>3. QED  BY <2>1, <2>2
<1>8. /\ P \in Lines /\ Len(P) = j - i /\ Plain(P)
      /\ \A m \in 1..j - i : IsText(P, m) <=> IsText(file, i + m)
  BY <1>1, <1>6, PartOfFile
<1>9. A \o P = Part(file, 0, j)  BY <1>1, <1>6, PartsJoin
<1> HIDE DEF A, P
<1>10. Apart(A, P)
  <2>1. CASE i = 0  BY <1>7, <2>1, JoinedText DEF Apart
  <2>2. CASE i # 0
    <3>1. IsText(A, i) <=> IsText(file, i)  BY <1>6, <1>7, <2>2
    <3>2. IsText(P, 1) => IsText(file, i + 1)
      <4>1. DOMAIN P = 1..j - i  BY <1>8, LinesAreSeqs
      <4>2. IsText(P, 1) => 1 \in 1..j - i  BY <4>1 DEF IsText
      <4>3. QED  BY <1>8, <4>2
    <3>3. QED  BY <1>3, <1>7, <3>1, <3>2 DEF Apart, Clean
  <2>3. QED  BY <2>1, <2>2
<1>11. Told(A \o P) = Told(A) \o Told(P)  BY <1>7, <1>8, <1>10, Join
<1>12. Part(o, 0, k) = Part(o, 0, k - 1) \o <<o[k]>>
  <2>1. 1 \in 1..Len(o) /\ k \in 1..Len(o)  BY <1>1, <1>2, <1>5
  <2>2. SubSeq(o, 1, k) = SubSeq(o, 1, k - 1) \o <<o[k]>>
    BY <1>5, <2>1, SubSeqRecursiveSecond
  <2>3. 0 + 1 = 1  OBVIOUS
  <2>4. QED  BY <2>2, <2>3 DEF Part
<1>13. o[k] \in Sayings  BY <1>2, <1>5, ElementOfSeq
<1>14. Told(P) = <<o[k]>>
  <2> DEFINE x == <<o[k]>>
             y == Part(o, 0, k - 1)
  <2>1. x \in Seq(Sayings) /\ Told(P) \in Seq(Sayings) /\ y \in Seq(Sayings)
    <3>1. Told(A) \in Seq(Sayings)  BY <1>7, ToldIs
    <3>2. QED  BY <1>3, <1>8, <1>13, <3>1, ToldIs
  <2>2. y \o Told(P) = y \o x  BY <1>3, <1>9, <1>11, <1>12
  <2> HIDE DEF x, y
  <2>3. Told(P) = x  BY <2>1, <2>2, ConcatSimplifications
  <2>4. QED  BY <2>3 DEF x
<1>15. i \in 0..j /\ j \in 0..Len(file)  BY <1>3, <1>4, <1>6
<1>16. QED  BY <1>8, <1>14, <1>15 DEF P, o, i, j, b

(* Between two blocks there are blank lines. *)
LEMMA GapTold ==
  ASSUME NEW file \in Lines, OwnLines(Parse(file)), NEW k \in 0..Len(Parse(file)),
         NEW i \in EndOf(Parse(file), k)..Len(file), NEW j \in i..Len(file),
         k < Len(Parse(file)) => j < Parse(file)[k + 1].first
  PROVE  /\ \A m \in i + 1..j : file[m].kind = "blank"
         /\ Told(Part(file, i, j)) = <<>> /\ Part(file, i, j) \in Lines
<1> DEFINE b == Parse(file)
           P == Part(file, i, j)
<1>1. Len(b) \in Nat /\ Len(file) \in Nat /\ EndOf(b, k) \in 0..Len(file)  BY Layout
<1>2. \A q \in 1..Len(b) :
        /\ b[q].first \in Nat /\ b[q].last \in Nat /\ EndOf(b, q) = b[q].last
        /\ b[q].first <= b[q].last
  BY Layout
<1>3. \A p, q \in 1..Len(b) : p < q => b[p].last < b[q].first  BY Layout
<1>4. \A m \in 1..Len(file) : file[m].kind = "blank" \/ Covered(b, m)  BY Layout
<1>5. k \in 0..Len(b) /\ i \in EndOf(b, k)..Len(file) /\ (k < Len(b) => j < b[k + 1].first)
  OBVIOUS
<1> HIDE DEF b
<1>6. i \in Nat /\ j \in Nat /\ j <= Len(file) /\ i <= j /\ k \in Nat
      /\ EndOf(b, k) \in Nat /\ EndOf(b, k) <= i
  BY <1>1, <1>5
<1>7. ASSUME NEW m \in i + 1..j PROVE file[m].kind = "blank"
  <2>1. m \in 1..Len(file) /\ i < m /\ m <= j  BY <1>1, <1>6
  <2>2. ~Covered(b, m)
    <3>1. SUFFICES ASSUME NEW q \in 1..Len(b), b[q].first <= m, m <= b[q].last
                   PROVE  FALSE
      BY DEF Covered
    <3>2. CASE q <= k
      <4>1. k \in 1..Len(b) /\ EndOf(b, k) = b[k].last  BY <1>1, <1>2, <1>5, <3>2
      <4>2. b[q].last <= b[k].last
        <5>1. CASE q = k  BY <1>2, <5>1
        <5>2. CASE q # k
          <6>1. q < k  BY <1>6, <3>2, <5>2
          <6>2. b[q].last < b[k].first /\ b[k].first <= b[k].last
            BY <1>2, <1>3, <4>1, <6>1
          <6>3. b[q].last \in Nat /\ b[k].first \in Nat /\ b[k].last \in Nat
            BY <1>2, <4>1
          <6>4. QED  BY <6>2, <6>3
        <5>3. QED  BY <5>1, <5>2
      <4>3. b[q].last \in Nat /\ b[k].last \in Nat  BY <1>2, <4>1
      <4>4. QED  BY <1>6, <2>1, <3>1, <4>1, <4>2, <4>3
    <3>3. CASE ~(q <= k)
      <4>1. k < Len(b) /\ k + 1 \in 1..Len(b)  BY <1>1, <1>6, <3>3
      <4>2. j < b[k + 1].first  BY <1>5, <4>1
      <4>3. b[k + 1].first <= b[q].first
        <5>1. CASE q = k + 1  BY <1>2, <4>1, <5>1
        <5>2. CASE q # k + 1
          <6>1. k + 1 < q  BY <1>6, <3>3, <5>2
          <6>2. b[k + 1].last < b[q].first /\ b[k + 1].first <= b[k + 1].last
            BY <1>2, <1>3, <4>1, <6>1
          <6>3. b[q].first \in Nat /\ b[k + 1].first \in Nat /\ b[k + 1].last \in Nat
            BY <1>2, <4>1
          <6>4. QED  BY <6>2, <6>3
        <5>3. QED  BY <5>1, <5>2
      <4>4. b[q].first \in Nat /\ b[k + 1].first \in Nat  BY <1>2, <4>1
      <4>5. QED  BY <1>6, <2>1, <3>1, <4>2, <4>3, <4>4
    <3>4. QED  BY <3>2, <3>3
  <2>3. QED  BY <1>4, <2>1, <2>2
<1>8. /\ P \in Lines /\ Len(P) = j - i
      /\ \A m \in 1..j - i : P[m] = file[i + m]
  <2>1. i \in 0..Len(file) /\ j \in i..Len(file)  BY <1>6, <1>1
  <2>2. QED  BY <2>1, PartOfFile
<1>9. DOMAIN P = 1..j - i  BY <1>8, LinesAreSeqs
<1>10. \A m \in 1..j - i : i + m \in i + 1..j  BY <1>6
<1>11. \A m \in DOMAIN P : P[m].kind = "blank"  BY <1>7, <1>8, <1>9, <1>10
<1> HIDE DEF P
<1>12. Told(P) = <<>>  BY <1>8, <1>11, BlankTold
<1>13. QED  BY <1>7, <1>8, <1>12 DEF P

-----------------------------------------------------------------------------
(* Patches from the last to the first.                                     *)

(* The elements of S have positions up to N, the later ones before.        *)
Descends(S, before, N, pos) ==
  /\ IsFiniteSet(S) /\ Orders(before, S) /\ N \in Nat /\ pos \in [S -> 1..N]
  /\ \A x, y \in S : <<x, y>> \in before <=> pos[y] < pos[x]

(* D holds of the positions that are left, with what there is then. *)
Patching(S, before, N, pos, to, D) ==
  /\ <<N, to[0]>> \in D
  /\ \A n \in 1..N : \A l :
       <<n, l>> \in D /\ (\A x \in S : pos[x] # n) => <<n - 1, l>> \in D
  /\ \A m \in 1..Cardinality(S) :
       LET x == Sorted(S, before)[m]
       IN  <<pos[x], to[m - 1]>> \in D => <<pos[x] - 1, to[m]>> \in D

(* What holds at the end, holds at the beginning after all patches. *)
LEMMA Backward ==
  ASSUME NEW S, NEW before, NEW N, NEW pos, Descends(S, before, N, pos),
         NEW to, NEW D, Patching(S, before, N, pos, to, D)
  PROVE  <<0, to[Cardinality(S)]>> \in D
<1> DEFINE Later(n) == {x \in S : pos[x] > n}
           M(n) == Cardinality(Later(n))
           A == Sorted(S, before)
           T == {h \in 0..N : <<N - h, to[M(N - h)]>> \in D}
<1>1. /\ IsFiniteSet(S) /\ Orders(before, S) /\ N \in Nat /\ pos \in [S -> 1..N]
      /\ \A x, y \in S : <<x, y>> \in before <=> pos[y] < pos[x]
  BY DEF Descends
<1>2. \A x \in S : pos[x] \in 1..N  BY <1>1
<1>3. /\ Cardinality(S) \in Nat
      /\ \A x \in S : /\ Cardinality(Preceding(S, before, x)) \in 0..Cardinality(S) - 1
                      /\ A[Cardinality(Preceding(S, before, x)) + 1] = x
  BY <1>1, SortedLists
<1>4. \A x \in S : Preceding(S, before, x) = Later(pos[x])
  BY <1>1, <1>2 DEF Preceding
<1>5. ASSUME NEW x \in S
      PROVE  M(pos[x]) \in 0..Cardinality(S) - 1 /\ A[M(pos[x]) + 1] = x
  BY <1>3, <1>4
<1>6. \A n : Later(n) \subseteq S /\ IsFiniteSet(Later(n)) /\ M(n) \in Nat
  <2>1. ASSUME NEW n PROVE Later(n) \subseteq S /\ IsFiniteSet(Later(n)) /\ M(n) \in Nat
    <3>1. Later(n) \in SUBSET S  OBVIOUS
    <3>2. QED  BY <1>1, <3>1, FS_Subset, FS_CardinalityType
  <2>2. QED  BY <2>1
<1> HIDE DEF A
<1>7. 0 \in T
  <2>1. Later(N) = {}  BY <1>1, <1>2
  <2>2. M(N) = 0  BY <2>1, FS_EmptySet
  <2>3. N - 0 = N  BY <1>1
  <2>4. <<N, to[0]>> \in D  BY DEF Patching
  <2>5. <<N - 0, to[M(N - 0)]>> \in D  BY <2>2, <2>3, <2>4
  <2>6. QED  BY <1>1, <2>5
<1>8. ASSUME NEW h \in 1..N, h - 1 \in T PROVE h \in T
  <2> DEFINE n == N - (h - 1)
  <2>1. n \in 1..N /\ N - h = n - 1 /\ h \in 0..N  BY <1>1
  <2>2. <<n, to[M(n)]>> \in D  BY <1>8
  <2> HIDE DEF n
  <2>3. <<n - 1, to[M(n - 1)]>> \in D
    <3>1. CASE \A x \in S : pos[x] # n
      <4>1. Later(n) = Later(n - 1)
        <5>1. \A x \in S : pos[x] > n - 1 <=> pos[x] > n
          BY <1>2, <2>1, <3>1
        <5>2. QED  BY <5>1
      <4> HIDE DEF Later
      <4>2. <<n - 1, to[M(n)]>> \in D  BY <2>1, <2>2, <3>1 DEF Patching
      <4>3. QED  BY <4>1, <4>2
    <3>2. CASE \E x \in S : pos[x] = n
      <4>1. PICK x \in S : pos[x] = n  BY <3>2
      <4>2. M(n) \in 0..Cardinality(S) - 1 /\ A[M(n) + 1] = x
        BY <1>5, <4>1
      <4>3. Later(n - 1) = Later(n) \cup {x}
        <5>1. ASSUME NEW y \in S PROVE pos[y] > n - 1 <=> pos[y] > n \/ y = x
          <6>1. pos[y] = n => y = x
            <7>1. ~(<<x, y>> \in before) /\ ~(<<y, x>> \in before) => x = y
              BY <1>1 DEF Orders
            <7>2. QED  BY <1>1, <1>2, <4>1, <7>1
          <6>2. QED  BY <1>2, <2>1, <4>1, <6>1
        <5>2. QED  BY <5>1
      <4>4. x \notin Later(n)  BY <2>1, <4>1
      <4>5. M(n - 1) = M(n) + 1
        <5>1. IsFiniteSet(Later(n))  BY <1>6
        <5> HIDE DEF Later
        <5>2. Cardinality(Later(n) \cup {x}) = Cardinality(Later(n)) + 1
          BY <4>4, <5>1, FS_AddElement
        <5>3. QED  BY <4>3, <5>2
      <4> DEFINE m == M(n) + 1
      <4>6. m \in 1..Cardinality(S) /\ m - 1 = M(n)  BY <1>3, <4>2
      <4>7. A[m] = x  BY <4>2
      <4> HIDE DEF m, M
      <4>8. <<pos[x], to[m - 1]>> \in D => <<pos[x] - 1, to[m]>> \in D
        BY <4>6, <4>7 DEF Patching, A
      <4>9. <<n - 1, to[m]>> \in D  BY <2>2, <4>1, <4>6, <4>8
      <4>10. QED  BY <4>5, <4>9 DEF m
    <3>3. QED  BY <3>1, <3>2
  <2>4. QED  BY <2>1, <2>3
<1> HIDE DEF T
<1>9. 0..N \subseteq T  BY <1>1, <1>7, <1>8, UpTo
<1>10. N \in T /\ N - N = 0  BY <1>1, <1>9
<1>11. <<0, to[M(0)]>> \in D  BY <1>10 DEF T
<1>12. Later(0) = S  BY <1>1, <1>2
<1>13. QED  BY <1>11, <1>12

(* What stands in the lines l after the patches so far: the first c lines  *)
(* of the file, and behind them lines that say e.                          *)
Standing(l, file, c, e) == \E T : l = Part(file, 0, c) \o T /\ Rest(T, file, c, e)

(* The lines of a file and lines behind them. *)
LEMMA StandingIs ==
  ASSUME NEW file \in Lines, NEW c \in 0..Len(file), NEW T \in Lines
  PROVE  LET l == Part(file, 0, c) \o T
         IN  /\ l \in Lines /\ Len(l) = c + Len(T) /\ Len(T) \in Nat /\ c \in Nat
             /\ \A i \in 1..c : l[i] = file[i]
             /\ \A i \in 1..Len(T) : l[c + i] = T[i]
             /\ \A d \in 0..c : SubSeq(l, 1, d) = Part(file, 0, d)
             /\ SubSeq(l, c + 1, Len(l)) = T
<1> DEFINE A == Part(file, 0, c)
           l == A \o T
<1>1. Len(file) \in Nat /\ file \in Seq(Line) /\ Lines = Seq(Line) /\ c \in Nat
  BY LinesAreSeqs
<1>2. A \in Lines /\ Len(A) = c /\ \A m \in 1..c : A[m] = file[m]
  <2>1. 0 \in 0..Len(file) /\ c \in 0..Len(file) /\ c - 0 = c
        /\ \A m \in 1..c : 0 + m = m
    BY <1>1
  <2>2. A \in Lines /\ Len(A) = c - 0 /\ \A m \in 1..c - 0 : A[m] = file[0 + m]
    BY <2>1, PartOfFile
  <2>3. QED  BY <2>1, <2>2
<1> HIDE DEF A
<1>3. /\ l \in Lines /\ Len(l) = c + Len(T) /\ Len(T) \in Nat
      /\ \A i \in 1..c : l[i] = A[i]
      /\ \A i \in 1..Len(T) : l[c + i] = T[i]
  BY <1>2, Joined
<1>4. \A i \in 1..c : l[i] = file[i]  BY <1>2, <1>3
<1> HIDE DEF l
<1>5. l \in Seq(Line)  BY <1>1, <1>3
<1>6. ASSUME NEW d \in 0..c PROVE SubSeq(l, 1, d) = Part(file, 0, d)
  <2> DEFINE s == Part(l, 0, d)
             t == Part(file, 0, d)
  <2>1. /\ d \in Nat /\ 0 \in 0..Len(l) /\ d \in 0..Len(l) /\ 0 \in 0..Len(file)
        /\ d \in 0..Len(file) /\ d - 0 = d
    BY <1>1, <1>3
  <2>2. s \in Seq(Line) /\ Len(s) = d - 0 /\ \A m \in 1..d - 0 : s[m] = l[0 + m]
    BY <1>5, <2>1, Parts
  <2>3. t \in Seq(Line) /\ Len(t) = d - 0 /\ \A m \in 1..d - 0 : t[m] = file[0 + m]
    BY <1>1, <2>1, Parts
  <2> HIDE DEF s, t
  <2>4. \A m \in 1..Len(s) : s[m] = t[m]
    <3>1. \A m \in 1..Len(s) : 0 + m = m /\ m \in 1..c /\ m \in 1..d - 0  BY <1>1, <2>1, <2>2
    <3>2. QED  BY <1>4, <2>2, <2>3, <3>1
  <2>5. s = t  BY <2>1, <2>2, <2>3, <2>4, SeqEqual
  <2>6. 0 + 1 = 1  OBVIOUS
  <2>7. QED  BY <2>5, <2>6 DEF s, t, Part
<1>7. SubSeq(l, c + 1, Len(l)) = T
  <2> DEFINE s == Part(l, c, Len(l))
  <2>1. c \in 0..Len(l) /\ Len(l) \in c..Len(l) /\ Len(l) - c = Len(T)  BY <1>1, <1>3
  <2>2. s \in Seq(Line) /\ Len(s) = Len(T) /\ \A m \in 1..Len(T) : s[m] = l[c + m]
    <3> DEFINE n == Len(l)
    <3>1. c \in 0..Len(l) /\ n \in c..Len(l) /\ n - c = Len(T)  BY <2>1
    <3> HIDE DEF n
    <3>2. /\ Part(l, c, n) \in Seq(Line) /\ Len(Part(l, c, n)) = n - c
          /\ \A m \in 1..n - c : Part(l, c, n)[m] = l[c + m]
      BY <1>5, <3>1, Parts
    <3>3. QED  BY <3>1, <3>2 DEF n
  <2>3. T \in Seq(Line)  BY <1>1
  <2> HIDE DEF s
  <2>4. \A m \in 1..Len(s) : s[m] = T[m]  BY <1>3, <2>2
  <2>5. s = T  BY <2>2, <2>3, <2>4, SeqEqual
  <2>6. QED  BY <2>5 DEF s, Part
<1>8. QED  BY <1>1, <1>3, <1>4, <1>6, <1>7 DEF l, A

(* No lines say nothing. *)
LEMMA NothingTold == <<>> \in Lines /\ Told(<<>>) = <<>> /\ Plain(<<>>)
<1>1. <<>> \in Lines /\ DOMAIN <<>> = {}  BY LinesAreSeqs
<1>2. QED  BY <1>1, BlankTold

(* Before the first patch. *)
LEMMA StandingStart ==
  ASSUME NEW file \in Lines
  PROVE  Standing(file, file, Len(file), <<>>)
<1>1. file \in Seq(Line) /\ Len(file) \in Nat  BY LinesAreSeqs
<1>2. Part(file, 0, Len(file)) = file
  <2>1. 0 \in 0..Len(file) /\ Len(file) \in 0..Len(file)  BY <1>1
  <2>2. QED  BY <1>1, <2>1, Parts
<1>3. file \o <<>> = file  BY <1>1, ConcatEmptySeq
<1>4. ~IsText(<<>>, 1)
  <2>1. DOMAIN <<>> = {}  BY LinesAreSeqs
  <2>2. QED  BY <2>1 DEF IsText
<1>5. Rest(<<>>, file, Len(file), <<>>)  BY <1>4, NothingTold DEF Rest
<1>6. QED  BY <1>2, <1>3, <1>5 DEF Standing

(* The lines that are kept go over to what is behind. *)
LEMMA StandingMoves ==
  ASSUME NEW file \in Lines, Plain(file), NEW c \in 0..Len(file), NEW d \in 0..c,
         Clean(file, d), NEW l, NEW e, Standing(l, file, c, e)
  PROVE  Standing(l, file, d, Told(Part(file, d, c)) \o e)
<1>1. PICK T : l = Part(file, 0, c) \o T /\ Rest(T, file, c, e)  BY DEF Standing
<1>2. /\ Rest(Part(file, d, c) \o T, file, d, Told(Part(file, d, c)) \o e)
      /\ Part(file, 0, d) \o (Part(file, d, c) \o T) = l
  BY <1>1, MoveLeft
<1>3. QED  BY <1>2 DEF Standing

(* A line that is written says what it should. *)
LEMMA RenderedTold ==
  ASSUME NEW kind, Writable(kind), NEW text \in Texts
  PROVE  LET R == <<Rendered(kind, text)>>
         IN  /\ R \in Lines /\ Plain(R) /\ Len(R) = 1 /\ R[1] \in Line
             /\ R[1] = Rendered(kind, text) /\ R[1].kind # "blank"
             /\ IsText(R, 1) <=> kind = "paragraph"
             /\ Told(R) = <<Said(kind, <<text>>)>> /\ Said(kind, <<text>>) \in Sayings
<1> DEFINE r == Rendered(kind, text)
           R == <<r>>
           q == <<text>>
<1>1. kind \in {"heading", "paragraph"}  BY DEF Writable
<1>2. /\ r \in Line /\ r.parts = q
      /\ r.kind = IF kind = "paragraph" THEN "text" ELSE "heading"
  <2>1. HeadingLine(text) \in Line /\ TextLine(<<text>>) \in Line  BY DEF Line
  <2>2. QED  BY <1>1, <2>1 DEF Rendered, HeadingLine, TextLine
<1>3. q \in Seq(Texts) /\ Len(q) = 1 /\ q[1] = text  OBVIOUS
<1> HIDE DEF r, q
<1>4. R \in Lines /\ Len(R) = 1 /\ R[1] = r /\ DOMAIN R = 1..1
  BY <1>2 DEF Lines
<1> HIDE DEF R
<1>5. Plain(R)
  <2>1. ASSUME NEW i \in DOMAIN R PROVE Len(R[i].parts) <= 1
    <3>1. i = 1  BY <1>4
    <3>2. R[i].parts = q  BY <1>2, <1>4, <3>1
    <3>3. Len(R[i].parts) = 1  BY <1>3, <3>2
    <3>4. QED  BY <3>3
  <2>2. QED  BY <2>1 DEF Plain
<1>6. IsText(R, 1) <=> kind = "paragraph"  BY <1>1, <1>2, <1>4 DEF IsText
<1>7. PICK f : Walks(f, R)  BY <1>4, ParseWalks
<1>8. f[0] = <<>> /\ f[1] = ParseLine(f[0], R, 1) /\ Told(R) = Outline(f[1])
  <2>1. 1 \in 1..Len(R) /\ 1 - 1 = 0  BY <1>4
  <2>2. f[0] = <<>> /\ f[1] = ParseLine(f[1 - 1], R, 1)  BY <1>7, <2>1 DEF Walks
  <2>3. Told(R) = Outline(f[Len(R)])  BY <1>4, <1>7, ToldIs
  <2>4. QED  BY <1>4, <2>1, <2>2, <2>3
<1>9. Walked(f[0], R, 0) /\ 1 \in DOMAIN R /\ 1 - 1 = 0
  BY <1>4, <1>8, EmptyIsWalked
<1>10. Outline(f[1]) = Says(Outline(f[0]), IsText(R, 0), R[1])
  <2>1. Walked(f[0], R, 1 - 1)  BY <1>9
  <2>2. Outline(ParseLine(f[0], R, 1)) = Says(Outline(f[0]), IsText(R, 1 - 1), R[1])
    BY <1>4, <1>5, <1>9, <2>1, OutlineStep
  <2>3. QED  BY <1>8, <1>9, <2>2
<1>11. Outline(f[0]) = <<>>
  <2>1. Outline(<<>>) \in Seq(Sayings) /\ Len(Outline(<<>>)) = 0  BY BlocksAreSeqs, OutlineIs
  <2>2. QED  BY <1>8, <2>1, EmptySeq
<1>12. ~IsText(R, 0)  BY <1>4 DEF IsText
<1>13. Said(kind, q) \in Sayings  BY <1>1, <1>3 DEF Said, Sayings, Kind
<1>14. Says(<<>>, IsText(R, 0), r) = Append(<<>>, Said(kind, q))
  <2>1. CASE kind = "heading"
    <3>1. r.kind = "heading" /\ r.kind # "blank"  BY <1>2, <2>1
    <3>2. QED  BY <1>2, <2>1, <3>1 DEF Says
  <2>2. CASE kind = "paragraph"
    <3>1. r.kind = "text"  BY <1>2, <2>2
    <3>2. <<r.parts[1]>> = q  BY <1>2, <1>3 DEF q
    <3>3. QED  BY <1>12, <2>2, <3>1, <3>2 DEF Says
  <2>3. QED  BY <1>1, <2>1, <2>2
<1>15. Append(<<>>, Said(kind, q)) = <<Said(kind, q)>>
  <2> DEFINE x == Said(kind, q)
  <2> HIDE DEF x
  <2>1. Append(<<>>, x) = <<x>>  OBVIOUS
  <2>2. QED  BY <2>1 DEF x
<1>16. R[1].kind # "blank"  BY <1>2, <1>4
<1>17. QED
  BY <1>2, <1>4, <1>5, <1>6, <1>8, <1>10, <1>11, <1>13, <1>14, <1>15, <1>16 DEF R, r, q

(* An element, and those behind it. *)
LEMMA PartFirst ==
  ASSUME NEW S, NEW s \in Seq(S), NEW k \in 1..Len(s)
  PROVE  <<s[k]>> \o Part(s, k, Len(s)) = Part(s, k - 1, Len(s))
<1>1. Len(s) \in Nat  BY LenProperties
<1>2. Len(s) \in k..Len(s) /\ (k - 1) + 1 = k  BY <1>1
<1>3. SubSeq(s, k, Len(s)) = <<s[k]>> \o SubSeq(s, k + 1, Len(s))
  BY <1>2, SubSeqRecursiveFirst
<1>4. QED  BY <1>2, <1>3 DEF Part

-----------------------------------------------------------------------------
(* UPDATE.                                                                 *)

BottomUpPairs(blocks, matched) ==
  {p \in matched \X matched :
     \/ blocks[p[1]].first > blocks[p[2]].first
     \/ blocks[p[1]].first = blocks[p[2]].first /\ p[1] < p[2]}

(* The list of matched blocks has each of them once. *)
LEMMA BottomUpIs ==
  ASSUME NEW blocks \in Blocks, NEW matched \in SUBSET DOMAIN blocks
  PROVE  LET before == BottomUpPairs(blocks, matched)
             order == BottomUp(blocks, matched)
         IN  /\ IsFiniteSet(matched) /\ Cardinality(matched) \in Nat
             /\ Orders(before, matched)
             /\ order = Sorted(matched, before)
             /\ Len(order) = Cardinality(matched) /\ order \in Seq(matched)
             /\ \A n \in 1..Cardinality(matched) : order[n] \in matched
             /\ \A x, y \in matched :
                  <<x, y>> \in before <=>
                    \/ blocks[x].first > blocks[y].first
                    \/ blocks[x].first = blocks[y].first /\ x < y
<1> DEFINE before == BottomUpPairs(blocks, matched)
           order == BottomUp(blocks, matched)
<1>1. Len(blocks) \in Nat /\ DOMAIN blocks = 1..Len(blocks)  BY BlocksAreSeqs
<1>2. IsFiniteSet(matched)
  <2>1. IsFiniteSet(1..Len(blocks))  BY <1>1, FS_Interval
  <2>2. QED  BY <1>1, <2>1, FS_Subset
<1>3. \A x, y \in matched :
        <<x, y>> \in before <=>
          \/ blocks[x].first > blocks[y].first
          \/ blocks[x].first = blocks[y].first /\ x < y
  BY DEF BottomUpPairs
<1>4. \A x \in matched : x \in Nat /\ blocks[x].first \in Nat
  BY <1>1, BlockFields
<1>5. order = Sorted(matched, before)  BY DEF BottomUp, BottomUpPairs
<1> HIDE DEF before, order
<1>6. Orders(before, matched)
  <2>1. \A x \in matched : <<x, x>> \notin before  BY <1>3, <1>4
  <2>2. ASSUME NEW x \in matched, NEW y \in matched, NEW z \in matched,
               <<x, y>> \in before, <<y, z>> \in before
        PROVE  <<x, z>> \in before
    BY <1>3, <1>4, <2>2
  <2>3. ASSUME NEW x \in matched, NEW y \in matched
        PROVE  x = y \/ <<x, y>> \in before \/ <<y, x>> \in before
    BY <1>3, <1>4
  <2>4. QED  BY <2>1, <2>2, <2>3 DEF Orders
<1>7. order \in Seq(matched) /\ Len(order) = Cardinality(matched) /\ Cardinality(matched) \in Nat
  BY <1>2, <1>5, <1>6, SortedLists
<1>8. \A n \in 1..Cardinality(matched) : order[n] \in matched
  BY <1>7, ElementOfSeq
<1>9. QED  BY <1>2, <1>3, <1>5, <1>6, <1>7, <1>8 DEF before, order

(* Lines in the place of others are lines. *)
LEMMA SpliceIsLines ==
  ASSUME NEW lines \in Lines, NEW start \in 0..Len(lines), NEW end \in 0..Len(lines),
         NEW new \in Lines
  PROVE  Splice(lines, start, end, new) \in Lines
<1>1. lines \in Seq(Line) /\ Len(lines) \in Nat /\ Lines = Seq(Line)  BY LinesAreSeqs
<1>2. Part(lines, 0, start) \in Seq(Line)
  <2>1. 0 \in 0..Len(lines) /\ start \in 0..Len(lines)  BY <1>1
  <2>2. QED  BY <1>1, <2>1, Parts
<1>3. Part(lines, end, Len(lines)) \in Seq(Line)
  <2>1. Len(lines) \in end..Len(lines)  BY <1>1
  <2>2. QED  BY <1>1, <2>1, Parts
<1> DEFINE A == Part(lines, 0, start)
           C == Part(lines, end, Len(lines))
<1>4. Splice(lines, start, end, new) = (A \o new) \o C
  <2>1. 0 + 1 = 1  OBVIOUS
  <2>2. QED  BY <2>1 DEF Splice, Part
<1> HIDE DEF A, C
<1>5. A \in Seq(Line) /\ C \in Seq(Line)  BY <1>2, <1>3 DEF A, C
<1>6. A \o new \in Seq(Line)  BY <1>1, <1>5, ConcatProperties
<1>7. (A \o new) \o C \in Seq(Line)  BY <1>5, <1>6, ConcatProperties
<1>8. QED  BY <1>1, <1>4, <1>7

(* The smaller of two numbers. *)
LEMMA LeastIs ==
  ASSUME NEW m \in Nat, NEW n \in Nat
  PROVE  Least(m, n) \in Nat /\ Least(m, n) <= m /\ Least(m, n) <= n
         /\ (m <= n => Least(m, n) = m)
BY DEF Least

(* A patched file is a file. *)
LEMMA UpdateIsLines ==
  ASSUME NEW lines \in Lines, NEW block \in BlockSet, Writable(block.kind),
         NEW text \in Texts
  PROVE  ApplyUpdate(lines, block, text) \in Lines
<1>1. Len(lines) \in Nat  BY LinesAreSeqs
<1>2. block.first \in Nat \ {0} /\ block.last \in Nat \ {0}  BY DEF BlockSet
<1>3. Least(block.last, Len(lines)) \in 0..Len(lines)
  <2> DEFINE m == block.last
             n == Len(lines)
  <2>1. m \in Nat /\ n \in Nat  BY <1>1, <1>2
  <2> HIDE DEF m, n
  <2>2. Least(m, n) \in Nat /\ Least(m, n) <= n  BY <2>1, LeastIs
  <2>3. QED  BY <2>1, <2>2 DEF m, n
<1>4. <<Rendered(block.kind, text)>> \in Lines  BY RenderedTold
<1> DEFINE start == StartOf(block)
           end == Least(block.last, Len(lines))
           new == <<Rendered(block.kind, text)>>
<1>5. start \in Nat  BY <1>2 DEF StartOf
<1>6. ApplyUpdate(lines, block, text) =
        IF start >= end THEN lines ELSE Splice(lines, start, end, new)
  BY DEF ApplyUpdate
<1> HIDE DEF start, end, new
<1>7. CASE start >= end  BY <1>6, <1>7
<1>8. CASE ~(start >= end)
  <2>1. end \in 0..Len(lines) /\ new \in Lines  BY <1>3, <1>4 DEF end, new
  <2>2. start \in 0..Len(lines)  BY <1>1, <1>5, <1>8, <2>1
  <2>3. Splice(lines, start, end, new) \in Lines  BY <2>1, <2>2, SpliceIsLines
  <2>4. QED  BY <1>6, <1>8, <2>3
<1>9. QED  BY <1>7, <1>8

(* The lines after each patch. *)
UpdatesTo(to, file, blocks, matched, text) ==
  /\ to[0] = file
  /\ \A n \in 0..Cardinality(matched) : to[n] \in Lines
  /\ \A n \in 1..Cardinality(matched) :
       to[n] = ApplyUpdate(to[n - 1], blocks[BottomUp(blocks, matched)[n]], text)

(* The text of an UPDATE is that after the last of its patches. *)
LEMMA UpdatedWalks ==
  ASSUME NEW file \in Lines, NEW blocks \in Blocks, NEW matched \in SUBSET DOMAIN blocks,
         NEW text \in Texts, \A k \in matched : Writable(blocks[k].kind)
  PROVE  \E to : /\ UpdatesTo(to, file, blocks, matched, text)
                 /\ Updated(file, blocks, matched, text) = to[Cardinality(matched)]
<1> DEFINE order == BottomUp(blocks, matched)
           N == Cardinality(matched)
           block(n) == blocks[order[n]]
           step == [n \in 1..N |-> [l \in Lines |-> ApplyUpdate(l, block(n), text)]]
           P(to) == to = [n \in 0..Len(order) |->
                            IF n = 0 THEN file ELSE ApplyUpdate(to[n - 1], block(n), text)]
<1>1. N \in Nat /\ Len(order) = N /\ \A n \in 1..N : order[n] \in matched
  BY BottomUpIs
<1>2. ASSUME NEW n \in 1..N PROVE block(n) \in BlockSet /\ Writable(block(n).kind)
  <2>1. order[n] \in matched /\ order[n] \in 1..Len(blocks)  BY <1>1, BlocksAreSeqs
  <2>2. QED  BY <2>1, BlockFields
<1>3. step \in [1..N -> [Lines -> Lines]]
  <2>1. \A n \in 1..N : \A l \in Lines : ApplyUpdate(l, block(n), text) \in Lines
    BY <1>2, UpdateIsLines
  <2>2. QED  BY <2>1
<1>4. \A n \in 1..N : \A l \in Lines : step[n][l] = ApplyUpdate(l, block(n), text)
  OBVIOUS
<1> HIDE DEF step, order, N
<1>5. \E f : Iteration(Lines, N, file, step, f)
  <2>1. Steps(Lines, N, file, step)  BY <1>1, <1>3 DEF Steps
  <2>2. QED  BY <2>1, Iterates
<1>6. PICK f : Iteration(Lines, N, file, step, f)  BY <1>5
<1>7. /\ f \in [0..N -> Lines] /\ f[0] = file
      /\ \A n \in 1..N : f[n] = step[n][f[n - 1]]
  BY <1>6 DEF Iteration
<1>8. \A n \in 1..N : n - 1 \in 0..N /\ f[n] = ApplyUpdate(f[n - 1], block(n), text)
  <2>1. ASSUME NEW n \in 1..N PROVE n - 1 \in 0..N /\ f[n] = ApplyUpdate(f[n - 1], block(n), text)
    <3>1. n - 1 \in 0..N  BY <1>1
    <3>2. f[n - 1] \in Lines  BY <1>7, <3>1
    <3>3. QED  BY <1>4, <1>7, <3>1, <3>2
  <2>2. QED  BY <2>1
<1>9. P(f)
  <2>1. \A n \in 0..N : n = 0 \/ n \in 1..N  BY <1>1
  <2>2. \A n \in 0..N : f[n] = IF n = 0 THEN file ELSE ApplyUpdate(f[n - 1], block(n), text)
    BY <1>7, <1>8, <2>1
  <2>3. f = [n \in 0..N |-> f[n]]  BY <1>7
  <2>4. QED  BY <1>1, <2>2, <2>3
<1> DEFINE to == CHOOSE to : P(to)
<1>10. Updated(file, blocks, matched, text) = to[Len(order)]  BY DEF Updated, order
<1>11. P(to)
  <2> HIDE DEF P
  <2>1. QED  BY <1>9
<1> HIDE DEF to
<1>12. to[0] = file /\ \A n \in 1..N : to[n] = ApplyUpdate(to[n - 1], block(n), text)
  BY <1>1, <1>11
<1> DEFINE T == {n \in 0..N : to[n] \in Lines}
<1>13. 0..N \subseteq T
  <2>1. 0 \in T  BY <1>1, <1>12
  <2>2. ASSUME NEW n \in 1..N, n - 1 \in T PROVE n \in T
    <3>1. ApplyUpdate(to[n - 1], block(n), text) \in Lines
      <4> DEFINE c == block(n)
      <4>1. c \in BlockSet /\ Writable(c.kind) /\ to[n - 1] \in Lines  BY <1>2, <2>2
      <4> HIDE DEF c
      <4>2. ApplyUpdate(to[n - 1], c, text) \in Lines  BY <4>1, UpdateIsLines
      <4>3. QED  BY <4>2 DEF c
    <3>2. QED  BY <1>1, <1>12, <3>1
  <2> HIDE DEF T
  <2>3. QED  BY <1>1, <2>1, <2>2, UpTo
<1>14. UpdatesTo(to, file, blocks, matched, text)
  BY <1>12, <1>13 DEF UpdatesTo, order, N
<1>15. QED  BY <1>1, <1>10, <1>14 DEF N

(* A step of UPDATE: the lines of block k become one line. *)
LEMMA UpdateOne ==
  ASSUME NEW file \in Lines, OwnLines(Parse(file)), NEW k \in 1..Len(Parse(file)),
         Writable(Parse(file)[k].kind), NEW text \in Texts, NEW l, NEW e,
         Standing(l, file, EndOf(Parse(file), k), e)
  PROVE  Standing(ApplyUpdate(l, Parse(file)[k], text), file, EndOf(Parse(file), k - 1),
                  <<Said(Parse(file)[k].kind, <<text>>)>> \o e)
<1> DEFINE b == Parse(file)
           kind == b[k].kind
           F == b[k].first
           L == b[k].last
           R == <<Rendered(kind, text)>>
           said == <<Said(kind, <<text>>)>>
           h == EndOf(b, k - 1)
<1>1. /\ Plain(file) /\ Len(b) \in Nat /\ Len(file) \in Nat
      /\ F \in Nat \ {0} /\ L \in Nat \ {0} /\ F <= L /\ L <= Len(file)
      /\ EndOf(b, k) = L /\ h < F /\ Clean(file, F - 1)
      /\ kind = "paragraph" => ~IsText(file, F - 1) /\ IsText(file, L)
  BY Layout
<1>2. h \in 0..Len(file) /\ Clean(file, h) /\ k - 1 \in 0..Len(b)
  <2>1. k - 1 \in 0..Len(b)  BY <1>1
  <2>2. QED  BY <2>1, Layout
<1>3. /\ R \in Lines /\ Plain(R) /\ Len(R) = 1 /\ R[1].kind # "blank"
      /\ IsText(R, 1) <=> kind = "paragraph"
      /\ Told(R) = said
  BY RenderedTold
<1>4. PICK T : l = Part(file, 0, L) \o T /\ Rest(T, file, L, e)
  BY <1>1 DEF Standing
<1>5. T \in Lines /\ Plain(T) /\ Told(T) = e /\ (IsText(file, L) => ~IsText(T, 1))
  BY <1>4 DEF Rest
<1>6. /\ l \in Lines /\ Len(l) = L + Len(T) /\ Len(T) \in Nat
      /\ SubSeq(l, 1, F - 1) = Part(file, 0, F - 1)
      /\ SubSeq(l, L + 1, Len(l)) = T
  <2> HIDE DEF b, F, L
  <2>1. L \in 0..Len(file) /\ F - 1 \in 0..L  BY <1>1
  <2>2. QED  BY <1>4, <1>5, <2>1, StandingIs
<1>7. ApplyUpdate(l, b[k], text) = (Part(file, 0, F - 1) \o R) \o T
  <2>1. StartOf(b[k]) = F - 1  BY DEF StartOf
  <2>2. Least(L, Len(l)) = L
    <3>1. L <= Len(l) /\ Len(l) \in Nat  BY <1>1, <1>6
    <3>2. QED  BY <1>1, <3>1 DEF Least
  <2>3. ~(F - 1 >= L)  BY <1>1
  <2>4. ApplyUpdate(l, b[k], text) = Splice(l, F - 1, L, R)
    BY <2>1, <2>2, <2>3 DEF ApplyUpdate
  <2>5. QED  BY <1>6, <2>4 DEF Splice
<1> HIDE DEF b, kind, F, L, R, said, h
<1>8. Apart(R, T)  BY <1>1, <1>3, <1>5 DEF Apart
<1>9. R \o T \in Lines /\ Plain(R \o T) /\ Told(R \o T) = said \o e
  BY <1>3, <1>5, <1>8, Join, Joined, PlainJoins
<1>10. IsText(file, F - 1) => ~IsText(R \o T, 1)
  <2>1. 1 \in 0..Len(R)  BY <1>3
  <2>2. IsText(R \o T, 1) <=> IsText(R, 1)  BY <1>3, <1>5, <2>1, JoinedText
  <2>3. QED  BY <1>1, <1>3, <2>2
<1>11. Standing(ApplyUpdate(l, b[k], text), file, F - 1, said \o e)
  <2>1. Rest(R \o T, file, F - 1, said \o e)  BY <1>9, <1>10 DEF Rest
  <2> DEFINE A == Part(file, 0, F - 1)
  <2>2. A \in Seq(Line)
    <3>1. 0 \in 0..Len(file) /\ F - 1 \in 0..Len(file)  BY <1>1
    <3>2. QED  BY <3>1, PartOfFile DEF Lines
  <2> HIDE DEF A
  <2>3. R \in Seq(Line) /\ T \in Seq(Line)  BY <1>3, <1>5 DEF Lines
  <2>4. (A \o R) \o T = A \o (R \o T)  BY <2>2, <2>3, ConcatAssociative
  <2>5. QED  BY <1>7, <2>1, <2>4 DEF Standing, A
<1>12. Told(Part(file, h, F - 1)) = <<>>
  <2>1. k - 1 \in 0..Len(b) /\ h \in h..Len(file) /\ F - 1 \in h..Len(file)
        /\ (k - 1) + 1 = k /\ F - 1 < F
    BY <1>1, <1>2
  <2>2. QED  BY <2>1, GapTold DEF h, b, F
<1>13. said \o e \in Seq(Sayings)
  <2>1. R \o T \in Lines  BY <1>9
  <2>2. QED  BY <1>9, <2>1, ToldIs
<1>14. Standing(ApplyUpdate(l, b[k], text), file, h, <<>> \o (said \o e))
  <2>1. F - 1 \in 0..Len(file) /\ h \in 0..F - 1  BY <1>1, <1>2
  <2>2. QED  BY <1>1, <1>2, <1>11, <1>12, <2>1, StandingMoves
<1> DEFINE se == said \o e
<1>15. <<>> \o se = se
  <2>1. se \in Seq(Sayings)  BY <1>13
  <2> HIDE DEF se
  <2>2. QED  BY <2>1, ConcatEmptySeq
<1>16. QED  BY <1>14, <1>15 DEF b, kind, h, said

(* A block that stays. *)
LEMMA KeepOne ==
  ASSUME NEW file \in Lines, OwnLines(Parse(file)), NEW k \in 1..Len(Parse(file)),
         NEW l, NEW e, Standing(l, file, EndOf(Parse(file), k), e)
  PROVE  Standing(l, file, EndOf(Parse(file), k - 1), <<Outline(Parse(file))[k]>> \o e)
<1> DEFINE b == Parse(file)
           h == EndOf(b, k - 1)
           c == EndOf(b, k)
<1>1. /\ Told(Part(file, h, c)) = <<Outline(b)[k]>>
      /\ h \in 0..c /\ c \in 0..Len(file)
  BY BlockTold
<1>2. Plain(file) /\ Clean(file, h)
  <2>1. Len(b) \in Nat  BY Layout
  <2>2. k - 1 \in 0..Len(b)  BY <2>1
  <2>3. QED  BY <2>2, Layout
<1>3. Standing(l, file, c, e)  OBVIOUS
<1> HIDE DEF b, h, c
<1>4. Standing(l, file, h, Told(Part(file, h, c)) \o e)  BY <1>1, <1>2, <1>3, StandingMoves
<1>5. QED  BY <1>1, <1>4 DEF b, h, c

(* Behind the last block, there are blank lines. *)
LEMMA StandingBlocks ==
  ASSUME NEW file \in Lines, OwnLines(Parse(file))
  PROVE  Standing(file, file, EndOf(Parse(file), Len(Parse(file))), <<>>)
<1> DEFINE b == Parse(file)
           h == EndOf(b, Len(b))
           N == Len(file)
<1>1. Plain(file) /\ Len(b) \in Nat /\ N \in Nat  BY Layout
<1>2. Len(b) \in 0..Len(b)  BY <1>1
<1>3. h \in 0..N /\ Clean(file, h)  BY <1>2, Layout
<1>4. Told(Part(file, h, N)) = <<>>
  <2>1. h \in h..N /\ N \in h..N /\ ~(Len(b) < Len(b))  BY <1>1, <1>3
  <2>2. QED  BY <1>2, <2>1, GapTold
<1>5. Standing(file, file, N, <<>>)  BY StandingStart
<1> HIDE DEF b, h
<1>6. N \in 0..Len(file) /\ h \in 0..N  BY <1>1, <1>3
<1> DEFINE e == <<>>
<1>7. Standing(file, file, N, e)  BY <1>5
<1>8. e \in Seq(Sayings)  OBVIOUS
<1> HIDE DEF N, e
<1>9. Standing(file, file, h, Told(Part(file, h, N)) \o e)
  BY <1>1, <1>3, <1>6, <1>7, StandingMoves
<1>10. e \o e = e  BY <1>8, ConcatEmptySeq DEF e
<1>11. QED  BY <1>4, <1>9, <1>10 DEF b, h, e

(* When no line of the file is left, the lines say what they should. *)
LEMMA StandingDone ==
  ASSUME NEW file \in Lines, NEW l, NEW e, Standing(l, file, 0, e)
  PROVE  Told(l) = e
<1>1. PICK T : l = Part(file, 0, 0) \o T /\ Rest(T, file, 0, e)  BY DEF Standing
<1>2. file \in Seq(Line) /\ 0 \in 0..Len(file)  BY LinesAreSeqs
<1>3. Part(file, 0, 0) = <<>>
  <2>1. 0 \in 0..Len(file) /\ 0 \in 0..Len(file)  BY <1>2
  <2>2. QED  BY <1>2, <2>1, Parts
<1>4. T \in Seq(Line) /\ Told(T) = e  BY <1>1 DEF Rest, Lines
<1>5. <<>> \o T = T  BY <1>4, ConcatEmptySeq
<1>6. QED  BY <1>1, <1>3, <1>4, <1>5

(* The matched blocks come from the last to the first. *)
LEMMA BottomUpDescends ==
  ASSUME NEW file \in Lines, OwnLines(Parse(file)),
         NEW matched \in SUBSET DOMAIN Parse(file)
  PROVE  Descends(matched, BottomUpPairs(Parse(file), matched), Len(Parse(file)),
                  [k \in matched |-> k])
<1> DEFINE b == Parse(file)
           N == Len(b)
           before == BottomUpPairs(b, matched)
           pos == [k \in matched |-> k]
<1>0. /\ b \in Blocks /\ N \in Nat /\ DOMAIN b = 1..N
      /\ \A k \in 1..N : b[k].first \in Nat /\ b[k].last \in Nat /\ b[k].first <= b[k].last
      /\ \A j, k \in 1..N : j < k => b[j].last < b[k].first
  <2>1. b \in Blocks  BY Layout
  <2>2. DOMAIN b = 1..N  BY <2>1, BlocksAreSeqs
  <2>3. QED  BY <2>1, <2>2, Layout
<1>1. /\ IsFiniteSet(matched) /\ Orders(before, matched)
      /\ \A x, y \in matched :
           <<x, y>> \in before <=>
             \/ b[x].first > b[y].first
             \/ b[x].first = b[y].first /\ x < y
  BY <1>0, BottomUpIs
<1> HIDE DEF before, b, N
<1>2. matched \subseteq 1..N  BY <1>0 DEF b
<1>3. ASSUME NEW x \in matched, NEW y \in matched
      PROVE  <<x, y>> \in before <=> y < x
  <2>1. x \in 1..N /\ y \in 1..N  BY <1>2
  <2>2. /\ b[x].first \in Nat /\ b[x].last \in Nat /\ b[x].first <= b[x].last
        /\ b[y].first \in Nat /\ b[y].last \in Nat /\ b[y].first <= b[y].last
    BY <1>0, <2>1
  <2>3. (x < y => b[x].last < b[y].first) /\ (y < x => b[y].last < b[x].first)
    BY <1>0, <2>1
  <2>4. x \in Nat /\ y \in Nat  BY <1>0, <2>1
  <2>5. CASE x = y
    <3>1. ~(b[x].first > b[y].first) /\ ~(x < y) /\ ~(y < x)  BY <2>2, <2>4, <2>5
    <3>2. QED  BY <1>1, <3>1
  <2>6. CASE x < y
    <3>1. b[x].first < b[y].first /\ ~(y < x)  BY <2>2, <2>3, <2>4, <2>6
    <3>2. ~(b[x].first > b[y].first) /\ b[x].first # b[y].first  BY <2>2, <3>1
    <3>3. QED  BY <1>1, <3>1, <3>2
  <2>7. CASE y < x
    <3>1. b[x].first > b[y].first  BY <2>2, <2>3, <2>7
    <3>2. QED  BY <1>1, <2>7, <3>1
  <2>8. QED  BY <2>4, <2>5, <2>6, <2>7
<1>4. pos \in [matched -> 1..N] /\ \A x \in matched : pos[x] = x  BY <1>2
<1>5. QED  BY <1>0, <1>1, <1>3, <1>4 DEF Descends, b, N, before

(* Updates of matched blocks change these and nothing else. *)
LEMMA UpdatedExact ==
  ASSUME NEW file \in Lines, OwnLines(Parse(file)),
         NEW matched \in SUBSET DOMAIN Parse(file), NEW text \in Texts,
         \A k \in matched : Writable(Parse(file)[k].kind)
  PROVE  Outline(Parse(Updated(file, Parse(file), matched, text))) =
           ExpectUpdated(Parse(file), matched, text)
<1> DEFINE b == Parse(file)
           N == Len(b)
           exp == ExpectUpdated(b, matched, text)
           before == BottomUpPairs(b, matched)
           pos == [k \in matched |-> k]
           D == {p \in (0..N) \X Lines :
                   Standing(p[2], file, EndOf(b, p[1]), Part(exp, p[1], N))}
           C == Cardinality(matched)
<1>1. /\ b \in Blocks /\ N \in Nat /\ DOMAIN b = 1..N
      /\ \A k \in 1..N : b[k].first \in Nat /\ b[k].last \in Nat /\ b[k].first <= b[k].last
      /\ \A j, k \in 1..N : j < k => b[j].last < b[k].first
  <2>1. b \in Blocks  BY Layout
  <2>2. DOMAIN b = 1..N  BY <2>1, BlocksAreSeqs
  <2>3. QED  BY <2>1, <2>2, Layout
<1>2. /\ exp \in Seq(Sayings) /\ Len(exp) = N
      /\ \A k \in 1..N : exp[k] = IF k \in matched THEN Said(b[k].kind, <<text>>)
                                  ELSE Outline(b)[k]
  <2> DEFINE x(k) == IF k \in matched THEN Said(b[k].kind, <<text>>) ELSE Outline(b)[k]
  <2>1. exp = [k \in 1..N |-> x(k)]  BY <1>1 DEF ExpectUpdated, Said
  <2>2. ASSUME NEW k \in 1..N PROVE x(k) \in Sayings
    <3>1. CASE k \in matched
      <4>1. Writable(b[k].kind)  BY <3>1
      <4>2. Said(b[k].kind, <<text>>) \in Sayings  BY <4>1, RenderedTold
      <4>3. QED  BY <3>1, <4>2
    <3>2. CASE k \notin matched
      <4>1. Outline(b) \in Seq(Sayings) /\ Len(Outline(b)) = N  BY <1>1, OutlineIs
      <4> HIDE DEF b
      <4>2. Outline(b)[k] \in Sayings  BY <4>1, ElementOfSeq
      <4>3. QED  BY <3>2, <4>2
    <3>3. QED  BY <3>1, <3>2
  <2> HIDE DEF x, exp
  <2>3. exp \in Seq(Sayings) /\ Len(exp) = N /\ \A k \in 1..N : exp[k] = x(k)
    BY <1>1, <2>1, <2>2
  <2>4. QED  BY <2>3 DEF x
<1>3. PICK to : /\ UpdatesTo(to, file, b, matched, text)
                /\ Updated(file, b, matched, text) = to[C]
  BY <1>1, UpdatedWalks
<1>4. Descends(matched, before, N, pos)  BY BottomUpDescends
<1>5. C \in Nat /\ \A n \in 1..C : BottomUp(b, matched)[n] \in matched
      /\ BottomUp(b, matched) = Sorted(matched, before)
  BY <1>1, BottomUpIs
<1>6. /\ to[0] = file /\ \A n \in 0..C : to[n] \in Lines
      /\ \A n \in 1..C :
           to[n] = ApplyUpdate(to[n - 1], b[BottomUp(b, matched)[n]], text)
  BY <1>3 DEF UpdatesTo
<1>7. ASSUME NEW n, NEW l
      PROVE  <<n, l>> \in D <=> /\ n \in 0..N /\ l \in Lines
                                /\ Standing(l, file, EndOf(b, n), Part(exp, n, N))
  OBVIOUS
<1>8. ASSUME NEW k \in 1..N
      PROVE  <<exp[k]>> \o Part(exp, k, N) = Part(exp, k - 1, N) /\ k - 1 \in 0..N
  <2> HIDE DEF exp, N, b
  <2>1. k \in 1..Len(exp)  BY <1>2
  <2>2. <<exp[k]>> \o Part(exp, k, Len(exp)) = Part(exp, k - 1, Len(exp))
    BY <1>2, <2>1, PartFirst
  <2>3. QED  BY <1>1, <1>2, <2>2
<1> HIDE DEF D, exp
<1>9. <<N, to[0]>> \in D
  <2>1. Standing(file, file, EndOf(b, N), <<>>)  BY StandingBlocks
  <2>2. Part(exp, N, N) = <<>>
    <3> HIDE DEF N
    <3>1. N \in 0..Len(exp) /\ N \in N..Len(exp)  BY <1>1, <1>2
    <3>2. QED  BY <1>2, <3>1, Parts
  <2>3. N \in 0..N  BY <1>1
  <2>4. QED  BY <1>6, <1>7, <2>1, <2>2, <2>3
<1>10. ASSUME NEW k \in 1..N, NEW l, <<k, l>> \in D, k \notin matched
       PROVE  <<k - 1, l>> \in D
  <2>1. l \in Lines /\ Standing(l, file, EndOf(b, k), Part(exp, k, N))  BY <1>7, <1>10
  <2>2. Standing(l, file, EndOf(b, k - 1), <<Outline(b)[k]>> \o Part(exp, k, N))
    BY <2>1, KeepOne
  <2>3. exp[k] = Outline(b)[k]  BY <1>2, <1>10
  <2>4. QED  BY <1>7, <1>8, <2>1, <2>2, <2>3
<1>11. ASSUME NEW m \in 1..C, <<pos[BottomUp(b, matched)[m]], to[m - 1]>> \in D
       PROVE  <<pos[BottomUp(b, matched)[m]] - 1, to[m]>> \in D
  <2> DEFINE k == BottomUp(b, matched)[m]
             l == to[m - 1]
  <2>1. k \in matched /\ pos[k] = k  BY <1>5
  <2>2. k \in 1..N  BY <1>1, <2>1
  <2>3. to[m] = ApplyUpdate(l, b[k], text)  BY <1>6
  <2>4. to[m] \in Lines  BY <1>5, <1>6
  <2>5. <<k, l>> \in D  BY <1>11, <2>1
  <2> HIDE DEF k, l
  <2>6. Standing(l, file, EndOf(b, k), Part(exp, k, N))  BY <1>7, <2>5
  <2>7. Writable(b[k].kind)  BY <2>1
  <2>8. Standing(ApplyUpdate(l, b[k], text), file, EndOf(b, k - 1),
                 <<Said(b[k].kind, <<text>>)>> \o Part(exp, k, N))
    BY <2>2, <2>6, <2>7, UpdateOne
  <2>9. exp[k] = Said(b[k].kind, <<text>>)  BY <1>2, <2>1, <2>2
  <2>10. Standing(to[m], file, EndOf(b, k - 1), Part(exp, k - 1, N))
    BY <1>8, <2>2, <2>3, <2>8, <2>9
  <2>11. <<k - 1, to[m]>> \in D  BY <1>7, <1>8, <2>2, <2>4, <2>10
  <2>12. QED  BY <2>1, <2>11 DEF k
<1>12. Patching(matched, before, N, pos, to, D)
  <2>1. ASSUME NEW n \in 1..N, NEW l, <<n, l>> \in D, \A x \in matched : pos[x] # n
        PROVE  <<n - 1, l>> \in D
    <3>1. n \notin matched  BY <2>1
    <3>2. QED  BY <1>10, <2>1, <3>1
  <2> HIDE DEF N, pos, before, b
  <2>2. QED  BY <1>5, <1>9, <1>11, <2>1 DEF Patching, C
<1>13. <<0, to[C]>> \in D
  <2> HIDE DEF N, pos, before, b
  <2>1. QED  BY <1>4, <1>12, Backward DEF C
<1>14. Standing(to[C], file, 0, Part(exp, 0, N))
  <2>1. EndOf(b, 0) = 0  BY DEF EndOf
  <2>2. QED  BY <1>7, <1>13, <2>1
<1>15. Part(exp, 0, N) = exp
  <2> HIDE DEF N
  <2>1. 0 \in 0..Len(exp) /\ Len(exp) \in 0..Len(exp)  BY <1>1, <1>2
  <2>2. QED  BY <1>2, <2>1, Parts
<1>16. Told(to[C]) = exp  BY <1>14, <1>15, StandingDone
<1>17. QED  BY <1>3, <1>16 DEF Told, exp

-----------------------------------------------------------------------------
(* DELETE.                                                                 *)

(* A file without some of its lines is a file. *)
LEMMA DeleteIsLines ==
  ASSUME NEW lines \in Lines, NEW block \in BlockSet
  PROVE  ApplyDelete(lines, block) \in Lines
<1> DEFINE start == StartOf(block)
           end == Least(block.last, Len(lines))
<1>1. Len(lines) \in Nat /\ DOMAIN lines = 1..Len(lines) /\ <<>> \in Lines  BY LinesAreSeqs
<1>2. block.first \in Nat \ {0} /\ block.last \in Nat \ {0}  BY DEF BlockSet
<1>3. end \in 0..Len(lines)
  <2> DEFINE m == block.last
             n == Len(lines)
  <2>1. m \in Nat /\ n \in Nat  BY <1>1, <1>2
  <2> HIDE DEF m, n
  <2>2. Least(m, n) \in Nat /\ Least(m, n) <= n  BY <2>1, LeastIs
  <2>3. QED  BY <2>1, <2>2 DEF m, n
<1>4. start \in Nat  BY <1>2 DEF StartOf
<1>5. ApplyDelete(lines, block) =
        IF start >= end THEN lines
        ELSE IF IsBlankAt(lines, end + 1) THEN Splice(lines, start, end + 1, <<>>)
        ELSE IF IsBlankAt(lines, start) THEN Splice(lines, start - 1, end, <<>>)
        ELSE Splice(lines, start, end, <<>>)
  BY DEF ApplyDelete
<1> HIDE DEF start, end
<1>6. CASE start >= end  BY <1>5, <1>6
<1>7. CASE ~(start >= end)
  <2>1. start \in 0..Len(lines)  BY <1>1, <1>3, <1>4, <1>7
  <2>2. IsBlankAt(lines, end + 1) => end + 1 \in 0..Len(lines)  BY <1>1 DEF IsBlankAt
  <2>3. IsBlankAt(lines, start) => start - 1 \in 0..Len(lines)  BY <1>1 DEF IsBlankAt
  <2>4. IsBlankAt(lines, end + 1) => Splice(lines, start, end + 1, <<>>) \in Lines
    BY <1>1, <2>1, <2>2, SpliceIsLines
  <2>5. IsBlankAt(lines, start) => Splice(lines, start - 1, end, <<>>) \in Lines
    BY <1>1, <1>3, <2>3, SpliceIsLines
  <2>6. Splice(lines, start, end, <<>>) \in Lines  BY <1>1, <1>3, <2>1, SpliceIsLines
  <2>7. QED  BY <1>5, <1>7, <2>4, <2>5, <2>6
<1>8. QED  BY <1>6, <1>7

DeletesTo(to, file, blocks, matched) ==
  /\ to[0] = file
  /\ \A n \in 0..Cardinality(matched) : to[n] \in Lines
  /\ \A n \in 1..Cardinality(matched) :
       to[n] = ApplyDelete(to[n - 1], blocks[BottomUp(blocks, matched)[n]])

(* The text of a DELETE is that after the last of its patches. *)
LEMMA DeletedWalks ==
  ASSUME NEW file \in Lines, NEW blocks \in Blocks, NEW matched \in SUBSET DOMAIN blocks
  PROVE  \E to : /\ DeletesTo(to, file, blocks, matched)
                 /\ Deleted(file, blocks, matched) = to[Cardinality(matched)]
<1> DEFINE order == BottomUp(blocks, matched)
           N == Cardinality(matched)
           block(n) == blocks[order[n]]
           step == [n \in 1..N |-> [l \in Lines |-> ApplyDelete(l, block(n))]]
           P(to) == to = [n \in 0..Len(order) |->
                            IF n = 0 THEN file ELSE ApplyDelete(to[n - 1], block(n))]
<1>1. N \in Nat /\ Len(order) = N /\ \A n \in 1..N : order[n] \in matched
  BY BottomUpIs
<1>2. ASSUME NEW n \in 1..N PROVE block(n) \in BlockSet
  <2>1. order[n] \in matched /\ order[n] \in 1..Len(blocks)  BY <1>1, BlocksAreSeqs
  <2>2. QED  BY <2>1, BlockFields
<1>3. step \in [1..N -> [Lines -> Lines]]
  <2>1. \A n \in 1..N : \A l \in Lines : ApplyDelete(l, block(n)) \in Lines
    BY <1>2, DeleteIsLines
  <2>2. QED  BY <2>1
<1>4. \A n \in 1..N : \A l \in Lines : step[n][l] = ApplyDelete(l, block(n))
  OBVIOUS
<1> HIDE DEF step, order, N
<1>5. \E f : Iteration(Lines, N, file, step, f)
  <2>1. Steps(Lines, N, file, step)  BY <1>1, <1>3 DEF Steps
  <2>2. QED  BY <2>1, Iterates
<1>6. PICK f : Iteration(Lines, N, file, step, f)  BY <1>5
<1>7. /\ f \in [0..N -> Lines] /\ f[0] = file
      /\ \A n \in 1..N : f[n] = step[n][f[n - 1]]
  BY <1>6 DEF Iteration
<1>8. \A n \in 1..N : n - 1 \in 0..N /\ f[n] = ApplyDelete(f[n - 1], block(n))
  <2>1. ASSUME NEW n \in 1..N PROVE n - 1 \in 0..N /\ f[n] = ApplyDelete(f[n - 1], block(n))
    <3>1. n - 1 \in 0..N  BY <1>1
    <3>2. f[n - 1] \in Lines  BY <1>7, <3>1
    <3>3. QED  BY <1>4, <1>7, <3>1, <3>2
  <2>2. QED  BY <2>1
<1>9. P(f)
  <2>1. \A n \in 0..N : n = 0 \/ n \in 1..N  BY <1>1
  <2>2. \A n \in 0..N : f[n] = IF n = 0 THEN file ELSE ApplyDelete(f[n - 1], block(n))
    BY <1>7, <1>8, <2>1
  <2>3. f = [n \in 0..N |-> f[n]]  BY <1>7
  <2>4. QED  BY <1>1, <2>2, <2>3
<1> DEFINE to == CHOOSE to : P(to)
<1>10. Deleted(file, blocks, matched) = to[Len(order)]  BY DEF Deleted, order
<1>11. P(to)
  <2> HIDE DEF P
  <2>1. QED  BY <1>9
<1> HIDE DEF to
<1>12. to[0] = file /\ \A n \in 1..N : to[n] = ApplyDelete(to[n - 1], block(n))
  BY <1>1, <1>11
<1> DEFINE T == {n \in 0..N : to[n] \in Lines}
<1>13. 0..N \subseteq T
  <2>1. 0 \in T  BY <1>1, <1>12
  <2>2. ASSUME NEW n \in 1..N, n - 1 \in T PROVE n \in T
    <3>1. ApplyDelete(to[n - 1], block(n)) \in Lines
      <4> DEFINE c == block(n)
      <4>1. c \in BlockSet /\ to[n - 1] \in Lines  BY <1>2, <2>2
      <4> HIDE DEF c
      <4>2. ApplyDelete(to[n - 1], c) \in Lines  BY <4>1, DeleteIsLines
      <4>3. QED  BY <4>2 DEF c
    <3>2. QED  BY <1>1, <1>12, <3>1
  <2> HIDE DEF T
  <2>3. QED  BY <1>1, <2>1, <2>2, UpTo
<1>14. DeletesTo(to, file, blocks, matched)
  BY <1>12, <1>13 DEF DeletesTo, order, N
<1>15. QED  BY <1>1, <1>10, <1>14 DEF N

(* What follows line c, if anything, begins with a blank line. *)
BlankAfter(l, c) == c = 0 \/ Len(l) = c \/ l[c + 1].kind = "blank"

(* A blank line in front says nothing. *)
LEMMA BlankFirst ==
  ASSUME NEW T \in Lines, 1 \in DOMAIN T, T[1].kind = "blank", Plain(T)
  PROVE  LET U == Part(T, 1, Len(T))
         IN  U \in Lines /\ Plain(U) /\ Told(U) = Told(T)
<1> DEFINE A == Part(T, 0, 1)
           U == Part(T, 1, Len(T))
<1>1. Len(T) \in Nat /\ DOMAIN T = 1..Len(T) /\ T \in Seq(Line) /\ 1 \in 1..Len(T)
  BY LinesAreSeqs
<1>2. 0 \in 0..Len(T) /\ 1 \in 0..Len(T) /\ 1 \in 1..Len(T) /\ Len(T) \in 1..Len(T) /\ Len(T) \in 0..Len(T)
  BY <1>1
<1>3. U \in Lines /\ Plain(U)  BY <1>2, PartOfFile
<1>4. A \in Lines /\ Len(A) = 1 /\ A[1] = T[1] /\ Plain(A)
  <2>1. 1 - 0 = 1 /\ 0 + 1 = 1 /\ 1 \in 0..1  OBVIOUS
  <2>2. A \in Lines /\ Len(A) = 1 - 0 /\ Plain(A) /\ \A m \in 1..1 - 0 : A[m] = T[0 + m]
    BY <1>2, PartOfFile
  <2>3. QED  BY <2>1, <2>2
<1>5. A \o U = T
  <2>1. A \o U = Part(T, 0, Len(T))  BY <1>1, <1>2, PartsJoin
  <2>2. Part(T, 0, Len(T)) = T  BY <1>1, <1>2, Parts
  <2>3. QED  BY <2>1, <2>2
<1> HIDE DEF A, U
<1>6. DOMAIN A = 1..1  BY <1>4, LinesAreSeqs
<1>7. Told(A) = <<>>
  <2>1. \A i \in DOMAIN A : A[i].kind = "blank"  BY <1>4, <1>6
  <2>2. QED  BY <1>4, <2>1, BlankTold
<1>8. Apart(A, U)  BY <1>4 DEF Apart, IsText
<1>9. Told(T) = Told(A) \o Told(U)  BY <1>3, <1>4, <1>5, <1>8, Join
<1> DEFINE t == Told(U)
<1>10. t \in Seq(Sayings)  BY <1>3, ToldIs
<1> HIDE DEF t
<1>11. <<>> \o t = t  BY <1>10, ConcatEmptySeq
<1>12. QED  BY <1>3, <1>7, <1>9, <1>11 DEF U, t

-----------------------------------------------------------------------------
(* Blocks with blank lines between them.                                   *)

(* Blocks with a blank line between them have lines of their own. *)
LEMMA SpacedIs ==
  ASSUME NEW file \in Lines, Spaced(Parse(file))
  PROVE  /\ OwnLines(Parse(file))
         /\ \A k \in 1..Len(Parse(file)) :
              LET b == Parse(file)
                  h == EndOf(b, k - 1)
              IN  /\ h < b[k].first /\ (h # 0 => h + 1 < b[k].first)
                  /\ h \in Nat /\ b[k].first \in Nat
<1> DEFINE b == Parse(file)
<1>1. b \in Blocks  BY ToldIs
<1>2. Len(b) \in Nat /\ DOMAIN b = 1..Len(b)  BY <1>1, BlocksAreSeqs
<1>3. \A k \in 1..Len(b) : b[k].first \in Nat \ {0} /\ b[k].last \in Nat \ {0}
  BY <1>1, <1>2, BlockFields
<1>4. \A j, k \in 1..Len(b) : j < k => b[j].last + 1 < b[k].first
  BY <1>2 DEF Spaced
<1>5. OwnLines(b)
  <2>1. ASSUME NEW j \in 1..Len(b), NEW k \in 1..Len(b), j < k
        PROVE  b[j].last < b[k].first
    <3>1. b[j].last + 1 < b[k].first /\ b[j].last \in Nat /\ b[k].first \in Nat
      BY <1>3, <1>4, <2>1
    <3>2. QED  BY <3>1
  <2>2. QED  BY <1>2, <2>1 DEF OwnLines
<1> HIDE DEF b
<1>6. ASSUME NEW k \in 1..Len(b)
      PROVE  /\ EndOf(b, k - 1) < b[k].first
             /\ EndOf(b, k - 1) # 0 => EndOf(b, k - 1) + 1 < b[k].first
             /\ EndOf(b, k - 1) \in Nat /\ b[k].first \in Nat
  <2>1. CASE k = 1
    <3>1. EndOf(b, k - 1) = 0  BY <2>1 DEF EndOf
    <3>2. b[k].first \in Nat \ {0}  BY <1>3
    <3>3. QED  BY <3>1, <3>2
  <2>2. CASE k # 1
    <3>1. k - 1 \in 1..Len(b) /\ k - 1 < k /\ k - 1 # 0  BY <1>2, <2>2
    <3>2. EndOf(b, k - 1) = b[k - 1].last  BY <3>1 DEF EndOf
    <3>3. b[k - 1].last + 1 < b[k].first /\ b[k - 1].last \in Nat /\ b[k].first \in Nat
      BY <1>3, <1>4, <3>1
    <3>4. QED  BY <3>2, <3>3
  <2>3. QED  BY <2>1, <2>2
<1>7. QED  BY <1>5, <1>6 DEF b

(* The lines between two blocks are blank. *)
LEMMA GapIsBlank ==
  ASSUME NEW file \in Lines, Spaced(Parse(file)), NEW k \in 1..Len(Parse(file)),
         NEW m, m \in EndOf(Parse(file), k - 1) + 1..Parse(file)[k].first - 1
  PROVE  file[m].kind = "blank" /\ m \in 1..Len(file)
<1> DEFINE b == Parse(file)
           h == EndOf(b, k - 1)
           j == b[k].first - 1
<1>1. OwnLines(b)  BY SpacedIs
<1>2. /\ Len(b) \in Nat /\ Len(file) \in Nat
      /\ b[k].first \in Nat \ {0} /\ b[k].last \in Nat \ {0}
      /\ b[k].first <= b[k].last /\ b[k].last <= Len(file)
      /\ h < b[k].first
  BY <1>1, Layout
<1>3. k - 1 \in 0..Len(b)  BY <1>2
<1>4. h \in 0..Len(file)  BY <1>1, <1>3, Layout
<1>5. h \in h..Len(file) /\ j \in h..Len(file) /\ (k - 1) + 1 = k /\ j < b[k].first
  BY <1>2, <1>4
<1>6. \A n \in h + 1..j : file[n].kind = "blank"
  BY <1>1, <1>3, <1>5, GapTold
<1>7. m \in h + 1..j  OBVIOUS
<1>8. QED  BY <1>2, <1>4, <1>6, <1>7

(* Blank lines that are kept say nothing. *)
LEMMA GapMoves ==
  ASSUME NEW file \in Lines, OwnLines(Parse(file)), NEW k \in 0..Len(Parse(file)),
         NEW q \in EndOf(Parse(file), k)..Len(file),
         k < Len(Parse(file)) => q < Parse(file)[k + 1].first,
         NEW i \in EndOf(Parse(file), k)..q, Clean(file, i),
         NEW l, NEW e, Standing(l, file, q, e)
  PROVE  Standing(l, file, i, e)
<1> DEFINE b == Parse(file)
           h == EndOf(b, k)
<1>1. Plain(file) /\ Len(b) \in Nat /\ Len(file) \in Nat  BY Layout
<1>2. h \in 0..Len(file)  BY Layout
<1>3. Told(Part(file, i, q)) = <<>>
  <2>1. i \in h..Len(file) /\ q \in i..Len(file)  BY <1>1, <1>2
  <2>2. QED  BY <2>1, GapTold
<1>4. e \in Seq(Sayings)
  <2>1. PICK T : Rest(T, file, q, e)  BY DEF Standing
  <2>2. T \in Lines /\ Told(T) = e  BY <2>1 DEF Rest
  <2>3. QED  BY <2>2, ToldIs
<1>5. q \in 0..Len(file) /\ i \in 0..q  BY <1>1, <1>2
<1> HIDE DEF b, h
<1>6. Standing(l, file, i, Told(Part(file, i, q)) \o e)
  BY <1>1, <1>5, StandingMoves
<1>7. <<>> \o e = e  BY <1>4, ConcatEmptySeq
<1>8. QED  BY <1>3, <1>6, <1>7

(* A step of DELETE: the lines of block k go, and a blank line with them. *)
LEMMA DeleteOne ==
  ASSUME NEW file \in Lines, Spaced(Parse(file)), NEW k \in 1..Len(Parse(file)),
         NEW l, NEW e, Standing(l, file, EndOf(Parse(file), k), e),
         BlankAfter(l, EndOf(Parse(file), k))
  PROVE  LET m == ApplyDelete(l, Parse(file)[k])
             h == EndOf(Parse(file), k - 1)
         IN  Standing(m, file, h, e) /\ BlankAfter(m, h)
<1> DEFINE b == Parse(file)
           F == b[k].first
           L == b[k].last
           h == EndOf(b, k - 1)
           m == ApplyDelete(l, b[k])
<1>0. OwnLines(b)  BY SpacedIs
<1>1. /\ Len(b) \in Nat /\ Len(file) \in Nat
      /\ F \in Nat \ {0} /\ L \in Nat \ {0} /\ F <= L /\ L <= Len(file)
      /\ EndOf(b, k) = L /\ h < F /\ Plain(file)
  BY <1>0, Layout
<1>2. h \in Nat /\ (h # 0 => h + 1 < F)  BY SpacedIs
<1>3. \A n \in h + 1..F - 1 : file[n].kind = "blank" /\ n \in 1..Len(file)
  BY GapIsBlank
<1>4. PICK T : l = Part(file, 0, L) \o T /\ Rest(T, file, L, e)
  BY <1>1 DEF Standing
<1>5. T \in Lines /\ Plain(T) /\ Told(T) = e  BY <1>4 DEF Rest
<1>6. BlankAfter(l, L)  BY <1>1
<1>7. k - 1 \in 0..Len(b) /\ (k - 1) + 1 = k  BY <1>1
<1>8. Clean(file, h)  BY <1>0, <1>7, Layout
<1> DEFINE F1 == F - 1
<1>9. /\ l \in Lines /\ Len(l) = L + Len(T) /\ Len(T) \in Nat
      /\ \A i \in 1..L : l[i] = file[i]
      /\ \A i \in 1..Len(T) : l[L + i] = T[i]
      /\ \A d \in 0..L : SubSeq(l, 1, d) = Part(file, 0, d)
      /\ DOMAIN l = 1..L + Len(T) /\ DOMAIN T = 1..Len(T)
  <2> HIDE DEF b, F, L
  <2>1. L \in 0..Len(file)  BY <1>1
  <2>2. /\ l \in Lines /\ Len(l) = L + Len(T) /\ Len(T) \in Nat
        /\ \A i \in 1..L : l[i] = file[i]
        /\ \A i \in 1..Len(T) : l[L + i] = T[i]
        /\ \A d \in 0..L : SubSeq(l, 1, d) = Part(file, 0, d)
    BY <1>4, <1>5, <2>1, StandingIs
  <2>3. DOMAIN l = 1..L + Len(T) /\ DOMAIN T = 1..Len(T)  BY <1>5, <2>2, LinesAreSeqs
  <2>4. QED  BY <2>2, <2>3
<1>10. m = IF IsBlankAt(l, L + 1) THEN Splice(l, F - 1, L + 1, <<>>)
           ELSE IF IsBlankAt(l, F - 1) THEN Splice(l, F - 2, L, <<>>)
           ELSE Splice(l, F - 1, L, <<>>)
  <2>1. StartOf(b[k]) = F - 1  BY DEF StartOf
  <2>2. Least(L, Len(l)) = L
    <3>1. L <= Len(l) /\ Len(l) \in Nat  BY <1>1, <1>9
    <3>2. QED  BY <1>1, <3>1 DEF Least
  <2>3. ~(F - 1 >= L) /\ (F - 1) - 1 = F - 2  BY <1>1
  <2>4. QED  BY <2>1, <2>2, <2>3 DEF ApplyDelete
<1> HIDE DEF b, F, L, h, m
<1>11. ~IsText(file, F - 1)
  <2>1. CASE F - 1 = 0
    <3>1. DOMAIN file = 1..Len(file)  BY LinesAreSeqs
    <3>2. QED  BY <2>1, <3>1 DEF IsText
  <2>2. CASE F - 1 # 0
    <3>1. F - 1 \in h + 1..F - 1  BY <1>1, <1>2, <2>2
    <3>2. QED  BY <1>3, <3>1 DEF IsText
  <2>3. QED  BY <2>1, <2>2
<1>12. PICK q \in h..F - 1, U \in Lines :
         /\ m = Part(file, 0, q) \o U /\ Rest(U, file, q, e)
         /\ h = 0 \/ q > h \/ Len(U) = 0
  <2>1. CASE IsBlankAt(l, L + 1)
    <3> DEFINE U == Part(T, 1, Len(T))
    <3>1. L + 1 \in 1..L + Len(T) /\ l[L + 1].kind = "blank"
      BY <1>9, <2>1 DEF IsBlankAt
    <3>2. 1 \in 1..Len(T)  BY <1>1, <1>9, <3>1
    <3>3. T[1].kind = "blank" /\ 1 \in DOMAIN T  BY <1>9, <3>1, <3>2
    <3>4. U \in Lines /\ Plain(U) /\ Told(U) = e  BY <1>5, <3>3, BlankFirst
    <3>5. SubSeq(l, 1, F - 1) = Part(file, 0, F - 1)
      <4>1. F - 1 \in 0..L  BY <1>1
      <4>2. QED  BY <1>9, <4>1
    <3>6. SubSeq(l, (L + 1) + 1, Len(l)) = U
      <4> DEFINE s == Part(l, L + 1, Len(l))
                 n == Len(T) - 1
      <4>1. /\ L + 1 \in 0..Len(l) /\ Len(l) \in L + 1..Len(l) /\ Len(l) - (L + 1) = n
            /\ 1 \in 0..Len(T) /\ Len(T) \in 1..Len(T) /\ l \in Seq(Line) /\ T \in Seq(Line)
        BY <1>1, <1>5, <1>9, <3>2 DEF Lines
      <4>2. s \in Seq(Line) /\ Len(s) = n /\ \A i \in 1..n : s[i] = l[(L + 1) + i]
        <5> DEFINE x == L + 1
                   y == Len(l)
        <5>1. x \in 0..Len(l) /\ y \in x..Len(l) /\ y - x = n  BY <4>1
        <5> HIDE DEF x, y
        <5>2. /\ Part(l, x, y) \in Seq(Line) /\ Len(Part(l, x, y)) = y - x
              /\ \A i \in 1..y - x : Part(l, x, y)[i] = l[x + i]
          BY <4>1, <5>1, Parts
        <5>3. QED  BY <5>1, <5>2 DEF x, y
      <4>3. U \in Seq(Line) /\ Len(U) = n /\ \A i \in 1..n : U[i] = T[1 + i]
        <5> DEFINE x == 1
                   y == Len(T)
        <5>1. x \in 0..Len(T) /\ y \in x..Len(T) /\ y - x = n  BY <4>1
        <5> HIDE DEF x, y
        <5>2. /\ Part(T, x, y) \in Seq(Line) /\ Len(Part(T, x, y)) = y - x
              /\ \A i \in 1..y - x : Part(T, x, y)[i] = T[x + i]
          BY <4>1, <5>1, Parts
        <5>3. QED  BY <5>1, <5>2 DEF x, y
      <4>4. ASSUME NEW i \in 1..n PROVE l[(L + 1) + i] = T[1 + i]
        <5>1. 1 + i \in 1..Len(T) /\ (L + 1) + i = L + (1 + i)  BY <1>1, <1>9
        <5>2. QED  BY <1>9, <5>1
      <4> HIDE DEF s, U
      <4>5. \A i \in 1..Len(s) : s[i] = U[i]  BY <4>2, <4>3, <4>4
      <4>6. s = U  BY <4>2, <4>3, <4>5, SeqEqual
      <4>7. QED  BY <4>6 DEF s, Part
    <3>7. m = (Part(file, 0, F - 1) \o <<>>) \o U
      BY <1>10, <2>1, <3>5, <3>6 DEF Splice
    <3>8. F - 1 \in h..F - 1 /\ (h = 0 \/ F - 1 > h)  BY <1>1, <1>2
    <3>9. Part(file, 0, F - 1) \o <<>> = Part(file, 0, F - 1)
      <4>1. 0 \in 0..Len(file) /\ F - 1 \in 0..Len(file)  BY <1>1
      <4>2. Part(file, 0, F - 1) \in Seq(Line)  BY <4>1, PartOfFile DEF Lines
      <4> DEFINE A == Part(file, 0, F - 1)
      <4> HIDE DEF A
      <4>3. A \in Seq(Line) => A \o <<>> = A  BY ConcatEmptySeq
      <4>4. QED  BY <4>2, <4>3 DEF A
    <3> HIDE DEF U
    <3>10. Rest(U, file, F - 1, e)  BY <1>11, <3>4 DEF Rest
    <3>11. QED  BY <3>4, <3>7, <3>8, <3>9, <3>10
  <2>2. CASE ~IsBlankAt(l, L + 1)
    <3>1. Len(T) = 0
      <4>1. CASE 1 \in 1..Len(T)
        <5>1. L + 1 \in 1..L + Len(T) /\ L # 0 /\ Len(l) # L  BY <1>1, <1>9, <4>1
        <5>2. l[L + 1].kind = "blank"  BY <1>6, <5>1 DEF BlankAfter
        <5>3. QED  BY <1>9, <2>2, <5>1, <5>2 DEF IsBlankAt
      <4>2. QED  BY <1>9, <4>1
    <3>2. T = <<>>
      <4>1. T \in Seq(Line)  BY <1>5 DEF Lines
      <4>2. QED  BY <3>1, <4>1, EmptySeq
    <3>3. ASSUME NEW q \in h..F - 1, m = Splice(l, q, L, <<>>)
          PROVE  m = Part(file, 0, q) \o <<>> /\ Rest(<<>>, file, q, e)
      <4>1. q \in 0..L /\ q \in 0..Len(file) /\ 0 \in 0..Len(file)  BY <1>1, <1>2
      <4>2. SubSeq(l, 1, q) = Part(file, 0, q)  BY <1>9, <4>1
      <4>3. SubSeq(l, L + 1, Len(l)) = <<>>
        <5>1. L \in 0..Len(l) /\ Len(l) = L /\ l \in Seq(Line)  BY <1>1, <1>9, <3>1 DEF Lines
        <5>2. L \in L..Len(l)  BY <1>1, <5>1
        <5> HIDE DEF L
        <5>3. Part(l, L, L) = <<>>  BY <5>1, <5>2, Parts
        <5>4. QED  BY <5>1, <5>3 DEF Part
      <4> DEFINE A == Part(file, 0, q)
      <4>4. A \in Seq(Line)  BY <4>1, PartOfFile DEF Lines
      <4>5. m = (A \o <<>>) \o <<>>  BY <3>3, <4>2, <4>3 DEF Splice
      <4> HIDE DEF A
      <4>6. A \o <<>> = A  BY <4>4, ConcatEmptySeq
      <4>7. Rest(<<>>, file, q, e)
        <5>1. DOMAIN <<>> = {}  BY LinesAreSeqs
        <5>2. ~IsText(<<>>, 1)  BY <5>1 DEF IsText
        <5>3. QED  BY <1>5, <3>2, <5>2, NothingTold DEF Rest
      <4>8. QED  BY <4>5, <4>6, <4>7 DEF A
    <3>4. CASE IsBlankAt(l, F - 1)
      <4>1. F - 1 \in 1..L + Len(T)  BY <1>9, <3>4 DEF IsBlankAt
      <4>2. F - 2 \in h..F - 1  BY <1>1, <1>2, <4>1
      <4>3. m = Splice(l, F - 2, L, <<>>)  BY <1>10, <2>2, <3>4
      <4>4. m = Part(file, 0, F - 2) \o <<>> /\ Rest(<<>>, file, F - 2, e)
        BY <3>3, <4>2, <4>3
      <4>5. <<>> \in Lines /\ Len(<<>>) = 0  BY NothingTold
      <4>6. QED  BY <4>2, <4>4, <4>5
    <3>5. CASE ~IsBlankAt(l, F - 1)
      <4>1. F - 1 \in h..F - 1  BY <1>1, <1>2
      <4>2. m = Splice(l, F - 1, L, <<>>)  BY <1>10, <2>2, <3>5
      <4>3. m = Part(file, 0, F - 1) \o <<>> /\ Rest(<<>>, file, F - 1, e)
        BY <3>3, <4>1, <4>2
      <4>4. <<>> \in Lines /\ Len(<<>>) = 0  BY NothingTold
      <4>5. QED  BY <4>1, <4>3, <4>4
    <3>6. QED  BY <3>4, <3>5
  <2>3. QED  BY <2>1, <2>2
<1>13. q \in Nat /\ h <= q /\ q <= F - 1 /\ q \in 0..Len(file) /\ q \in h..Len(file) /\ q < F
  BY <1>1, <1>2
<1>14. Standing(m, file, h, e)
  <2>1. Standing(m, file, q, e)  BY <1>12 DEF Standing
  <2>2. h \in h..q  BY <1>2, <1>13
  <2>3. k - 1 < Len(b) => q < b[(k - 1) + 1].first  BY <1>7, <1>13 DEF F
  <2>4. QED  BY <1>0, <1>7, <1>8, <1>13, <2>1, <2>2, <2>3, GapMoves DEF b, h
<1>15. BlankAfter(m, h)
  <2>1. Len(m) = q + Len(U) /\ \A i \in 1..q : m[i] = file[i]
    BY <1>12, <1>13, StandingIs
  <2>2. CASE h = 0  BY <2>2 DEF BlankAfter
  <2>3. CASE q > h
    <3>1. h + 1 \in 1..q /\ h + 1 \in h + 1..F - 1  BY <1>1, <1>2, <1>13, <2>3
    <3>2. QED  BY <1>3, <2>1, <3>1 DEF BlankAfter
  <2>4. CASE Len(U) = 0 /\ ~(q > h)
    <3>1. q = h /\ Len(m) = h  BY <1>2, <1>13, <2>1, <2>4
    <3>2. QED  BY <3>1 DEF BlankAfter
  <2>5. QED  BY <1>12, <2>2, <2>3, <2>4
<1>16. QED  BY <1>14, <1>15 DEF b, h, m

(* How many of the first k blocks are kept. *)
Kept(b, matched, k) == {j \in DOMAIN b \ matched : j <= k}
KeptTo(b, matched, k) == Cardinality(Kept(b, matched, k))

(* What is left of the first k blocks is what should be left. *)
LEMMA KeptIs ==
  ASSUME NEW b \in Blocks, NEW matched \in SUBSET DOMAIN b
  PROVE  LET exp == ExpectDeleted(b, matched)
         IN  /\ exp \in Seq(Sayings)
             /\ KeptTo(b, matched, 0) = 0 /\ KeptTo(b, matched, Len(b)) = Len(exp)
             /\ \A k \in 1..Len(b) :
                  IF k \in matched THEN KeptTo(b, matched, k) = KeptTo(b, matched, k - 1)
                  ELSE /\ KeptTo(b, matched, k) \in 1..Len(exp)
                       /\ KeptTo(b, matched, k) - 1 = KeptTo(b, matched, k - 1)
                       /\ exp[KeptTo(b, matched, k)] = Outline(b)[k]
<1> DEFINE N == Len(b)
           kept == DOMAIN b \ matched
           asc == {p \in kept \X kept : p[1] < p[2]}
           order == Sorted(kept, asc)
           exp == ExpectDeleted(b, matched)
           r(k) == KeptTo(b, matched, k)
           o == Outline(b)
<1>1. N \in Nat /\ DOMAIN b = 1..N  BY BlocksAreSeqs
<1>2. kept \subseteq 1..N /\ \A j \in kept : j \in Nat  BY <1>1
<1>3. IsFiniteSet(kept)
  <2>1. IsFiniteSet(1..N)  BY <1>1, FS_Interval
  <2>2. QED  BY <1>2, <2>1, FS_Subset
<1>4. \A x, y \in kept : <<x, y>> \in asc <=> x < y  OBVIOUS
<1>5. o \in Seq(Sayings) /\ Len(o) = N /\ \A k \in 1..N : o[k] \in Sayings
  <2>1. o \in Seq(Sayings) /\ Len(o) = N  BY OutlineIs
  <2> HIDE DEF o, N
  <2>2. QED  BY <2>1, ElementOfSeq
<1>6. exp = [n \in DOMAIN order |-> o[order[n]]]  BY DEF ExpectDeleted
<1>7. \A k : Kept(b, matched, k) = {j \in kept : j <= k}  BY DEF Kept
<1> HIDE DEF asc, order, o, exp, kept
<1>8. Orders(asc, kept)
  <2>1. \A x \in kept : <<x, x>> \notin asc  BY <1>2, <1>4
  <2>2. \A x, y, z \in kept : <<x, y>> \in asc /\ <<y, z>> \in asc => <<x, z>> \in asc
    BY <1>2, <1>4
  <2>3. ASSUME NEW x \in kept, NEW y \in kept
        PROVE  x = y \/ <<x, y>> \in asc \/ <<y, x>> \in asc
    <3>1. x \in Nat /\ y \in Nat  BY <1>2
    <3>2. QED  BY <1>4, <3>1
  <2>4. QED  BY <2>1, <2>2, <2>3 DEF Orders
<1>9. /\ order \in Seq(kept) /\ Len(order) = Cardinality(kept) /\ Cardinality(kept) \in Nat
      /\ \A k \in kept :
           /\ Cardinality(Preceding(kept, asc, k)) \in 0..Cardinality(kept) - 1
           /\ order[Cardinality(Preceding(kept, asc, k)) + 1] = k
  BY <1>3, <1>8, SortedLists DEF order
<1>10. DOMAIN order = 1..Len(order)  BY <1>9, LenProperties
<1>11. \A n \in 1..Len(order) : order[n] \in kept  BY <1>9, ElementOfSeq
<1>12. exp \in Seq(Sayings) /\ Len(exp) = Cardinality(kept)
       /\ \A n \in 1..Len(exp) : exp[n] = o[order[n]]
  <2>1. \A n \in 1..Len(order) : o[order[n]] \in Sayings  BY <1>2, <1>5, <1>11
  <2>2. exp = [n \in 1..Len(order) |-> o[order[n]]]  BY <1>6, <1>10
  <2> DEFINE n1 == Len(order)
             x(n) == o[order[n]]
  <2>3. n1 \in Nat /\ n1 = Cardinality(kept)  BY <1>9
  <2>4. exp = [n \in 1..n1 |-> x(n)] /\ \A n \in 1..n1 : x(n) \in Sayings  BY <2>1, <2>2
  <2> HIDE DEF n1, x
  <2>5. exp \in Seq(Sayings) /\ Len(exp) = n1 /\ \A n \in 1..n1 : exp[n] = x(n)
    BY <2>3, <2>4
  <2>6. QED  BY <2>3, <2>5 DEF x
<1>13. \A k : IsFiniteSet(Kept(b, matched, k)) /\ r(k) \in Nat
  <2>1. ASSUME NEW k PROVE IsFiniteSet(Kept(b, matched, k)) /\ r(k) \in Nat
    <3>1. Kept(b, matched, k) \in SUBSET kept  BY <1>7
    <3>2. QED  BY <1>3, <3>1, FS_Subset, FS_CardinalityType DEF KeptTo
  <2>2. QED  BY <2>1
<1>14. r(0) = 0
  <2>1. \A j \in kept : ~(j <= 0)
    <3>1. ASSUME NEW j \in kept PROVE ~(j <= 0)
      <4>1. j \in 1..N  BY <1>2
      <4>2. QED  BY <1>1, <4>1
    <3>2. QED  BY <3>1
  <2>2. Kept(b, matched, 0) = {}  BY <1>7, <2>1
  <2>3. QED  BY <2>2, FS_EmptySet DEF KeptTo
<1>15. r(N) = Len(exp)
  <2>1. \A j \in kept : j <= N
    <3>1. ASSUME NEW j \in kept PROVE j <= N
      <4>1. j \in 1..N  BY <1>2
      <4>2. QED  BY <1>1, <4>1
    <3>2. QED  BY <3>1
  <2>0. Kept(b, matched, N) = kept  BY <1>7, <2>1
  <2>2. QED  BY <1>12, <2>0 DEF KeptTo
<1>16. ASSUME NEW k \in 1..N, k \in matched PROVE r(k) = r(k - 1)
  <2>1. k \notin kept  BY <1>16 DEF kept
  <2>2. \A j \in kept : j <= k <=> j <= k - 1  BY <1>1, <1>2, <2>1
  <2>3. Kept(b, matched, k) = Kept(b, matched, k - 1)  BY <1>7, <2>2
  <2>4. QED  BY <2>3 DEF KeptTo
<1>17. ASSUME NEW k \in 1..N, k \notin matched
       PROVE  r(k) \in 1..Len(exp) /\ r(k) - 1 = r(k - 1) /\ exp[r(k)] = o[k]
  <2>1. k \in kept  BY <1>1, <1>17 DEF kept
  <2>2. Preceding(kept, asc, k) = Kept(b, matched, k - 1)
    <3>1. \A j \in kept : j < k <=> j <= k - 1  BY <1>2, <2>1
    <3>2. QED  BY <1>4, <1>7, <2>1, <3>1 DEF Preceding
  <2>3. r(k - 1) \in 0..Cardinality(kept) - 1 /\ order[r(k - 1) + 1] = k
    BY <1>9, <2>1, <2>2 DEF KeptTo
  <2>4. r(k) = r(k - 1) + 1
    <3>1. k \notin Kept(b, matched, k - 1)  BY <1>2, <1>7, <2>1
    <3>2. Kept(b, matched, k) = Kept(b, matched, k - 1) \cup {k}
      <4>1. \A j \in kept : j <= k <=> j <= k - 1 \/ j = k  BY <1>2, <2>1
      <4>2. QED  BY <1>7, <2>1, <4>1
    <3>3. QED  BY <1>13, <3>1, <3>2, FS_AddElement DEF KeptTo
  <2>5. r(k) \in 1..Len(exp) /\ r(k) - 1 = r(k - 1)
    <3> DEFINE n == r(k - 1)
               C == Cardinality(kept)
    <3>1. n \in 0..C - 1 /\ C \in Nat /\ Len(exp) = C /\ r(k) = n + 1
      BY <1>9, <1>12, <2>3, <2>4
    <3> HIDE DEF n, C
    <3>2. r(k) \in 1..C /\ r(k) - 1 = n  BY <3>1
    <3>3. QED  BY <3>1, <3>2 DEF n
  <2>6. QED  BY <1>12, <2>3, <2>4, <2>5
<1>18. QED  BY <1>12, <1>14, <1>15, <1>16, <1>17 DEF exp, o

(* The line after the last block, if there is one, is blank. *)
LEMMA BlankAfterBlock ==
  ASSUME NEW file \in Lines, OwnLines(Parse(file))
  PROVE  BlankAfter(file, EndOf(Parse(file), Len(Parse(file))))
<1> DEFINE b == Parse(file)
           h == EndOf(b, Len(b))
           N == Len(file)
<1>1. Len(b) \in Nat /\ N \in Nat  BY Layout
<1>2. Len(b) \in 0..Len(b)  BY <1>1
<1>3. h \in 0..N  BY <1>2, Layout
<1>4. h \in h..N /\ N \in h..N /\ ~(Len(b) < Len(b))  BY <1>1, <1>3
<1>5. \A m \in h + 1..N : file[m].kind = "blank"  BY <1>2, <1>4, GapTold
<1> HIDE DEF b, h
<1>6. N = h \/ h + 1 \in h + 1..N  BY <1>1, <1>3
<1>7. QED  BY <1>5, <1>6 DEF BlankAfter, b, h

(* So it is before a block that stays. *)
LEMMA KeepBlank ==
  ASSUME NEW file \in Lines, Spaced(Parse(file)), NEW k \in 1..Len(Parse(file)),
         NEW l, NEW e, Standing(l, file, EndOf(Parse(file), k), e)
  PROVE  BlankAfter(l, EndOf(Parse(file), k - 1))
<1> DEFINE b == Parse(file)
           F == b[k].first
           L == b[k].last
           h == EndOf(b, k - 1)
<1>1. OwnLines(b)  BY SpacedIs
<1>2. /\ Len(b) \in Nat /\ Len(file) \in Nat
      /\ F \in Nat \ {0} /\ L \in Nat \ {0} /\ F <= L /\ L <= Len(file)
      /\ EndOf(b, k) = L
  BY <1>1, Layout
<1>3. h \in Nat /\ (h # 0 => h + 1 < F)  BY SpacedIs
<1>4. \A n \in h + 1..F - 1 : file[n].kind = "blank"  BY GapIsBlank
<1>5. PICK T : l = Part(file, 0, L) \o T /\ T \in Lines  BY <1>2 DEF Standing, Rest
<1> HIDE DEF b, F, L, h
<1>6. L \in 0..Len(file)  BY <1>2
<1>7. \A i \in 1..L : l[i] = file[i]  BY <1>5, <1>6, StandingIs
<1>8. CASE h = 0  BY <1>8 DEF BlankAfter, b, h
<1>9. CASE h # 0
  <2>1. h + 1 \in h + 1..F - 1 /\ h + 1 \in 1..L  BY <1>2, <1>3, <1>9
  <2>2. l[h + 1].kind = "blank"  BY <1>4, <1>7, <2>1
  <2>3. QED  BY <2>2 DEF BlankAfter, b, h
<1>10. QED  BY <1>8, <1>9

(* A DELETE removes what it matched and nothing else. *)
LEMMA DeletedExact ==
  ASSUME NEW file \in Lines, Spaced(Parse(file)),
         NEW matched \in SUBSET DOMAIN Parse(file)
  PROVE  Outline(Parse(Deleted(file, Parse(file), matched))) =
           ExpectDeleted(Parse(file), matched)
<1> DEFINE b == Parse(file)
           N == Len(b)
           exp == ExpectDeleted(b, matched)
           X == Len(exp)
           r(k) == KeptTo(b, matched, k)
           before == BottomUpPairs(b, matched)
           pos == [k \in matched |-> k]
           D == {p \in (0..N) \X Lines :
                   /\ Standing(p[2], file, EndOf(b, p[1]), Part(exp, r(p[1]), X))
                   /\ BlankAfter(p[2], EndOf(b, p[1]))}
           C == Cardinality(matched)
<1>0. OwnLines(b)  BY SpacedIs
<1>1. b \in Blocks /\ N \in Nat /\ DOMAIN b = 1..N
  BY <1>0, Layout, BlocksAreSeqs
<1>2. /\ exp \in Seq(Sayings) /\ X \in Nat
      /\ r(0) = 0 /\ r(N) = X
      /\ \A k \in 1..N :
           IF k \in matched THEN r(k) = r(k - 1)
           ELSE r(k) \in 1..X /\ r(k) - 1 = r(k - 1) /\ exp[r(k)] = Outline(b)[k]
  <2>1. exp \in Seq(Sayings)  BY <1>1, KeptIs
  <2>2. X \in Nat  BY <2>1, LenProperties
  <2>3. /\ r(0) = 0 /\ r(N) = X
        /\ \A k \in 1..N :
             IF k \in matched THEN r(k) = r(k - 1)
             ELSE r(k) \in 1..X /\ r(k) - 1 = r(k - 1) /\ exp[r(k)] = Outline(b)[k]
    BY <1>1, KeptIs
  <2>4. QED  BY <2>1, <2>2, <2>3
<1>3. PICK to : /\ DeletesTo(to, file, b, matched)
                /\ Deleted(file, b, matched) = to[C]
  BY <1>1, DeletedWalks
<1>4. Descends(matched, before, N, pos)  BY <1>0, BottomUpDescends
<1>5. C \in Nat /\ \A n \in 1..C : BottomUp(b, matched)[n] \in matched
      /\ BottomUp(b, matched) = Sorted(matched, before)
  BY <1>1, BottomUpIs
<1>6. /\ to[0] = file /\ \A n \in 0..C : to[n] \in Lines
      /\ \A n \in 1..C :
           to[n] = ApplyDelete(to[n - 1], b[BottomUp(b, matched)[n]])
  BY <1>3 DEF DeletesTo
<1>7. ASSUME NEW n, NEW l
      PROVE  <<n, l>> \in D <=> /\ n \in 0..N /\ l \in Lines
                                /\ Standing(l, file, EndOf(b, n), Part(exp, r(n), X))
                                /\ BlankAfter(l, EndOf(b, n))
  OBVIOUS
<1> HIDE DEF D, exp, r
<1>8. <<N, to[0]>> \in D
  <2>1. Standing(file, file, EndOf(b, N), <<>>)  BY <1>0, StandingBlocks
  <2>2. Part(exp, r(N), X) = <<>>
    <3> HIDE DEF X
    <3>1. X = Len(exp)  BY DEF X
    <3>2. X \in 0..Len(exp) /\ X \in X..Len(exp)  BY <1>2, <3>1
    <3>3. Part(exp, X, X) = <<>>  BY <1>2, <3>2, Parts
    <3>4. QED  BY <1>2, <3>3
  <2>3. N \in 0..N  BY <1>1
  <2>4. BlankAfter(file, EndOf(b, N))  BY <1>0, BlankAfterBlock
  <2>5. QED  BY <1>6, <1>7, <2>1, <2>2, <2>3, <2>4
<1>9. ASSUME NEW k \in 1..N, NEW l, <<k, l>> \in D, k \notin matched
      PROVE  <<k - 1, l>> \in D
  <2>1. l \in Lines /\ Standing(l, file, EndOf(b, k), Part(exp, r(k), X))  BY <1>7, <1>9
  <2>2. Standing(l, file, EndOf(b, k - 1), <<Outline(b)[k]>> \o Part(exp, r(k), X))
    BY <1>0, <2>1, KeepOne
  <2>3. BlankAfter(l, EndOf(b, k - 1))  BY <2>1, KeepBlank
  <2>4. <<exp[r(k)]>> \o Part(exp, r(k), X) = Part(exp, r(k) - 1, X)
    <3> HIDE DEF N, b
    <3>1. r(k) \in 1..Len(exp) /\ X = Len(exp)  BY <1>2, <1>9 DEF X
    <3> HIDE DEF X
    <3>2. QED  BY <1>2, <3>1, PartFirst
  <2>5. Standing(l, file, EndOf(b, k - 1), Part(exp, r(k - 1), X))
    BY <1>2, <1>9, <2>2, <2>4
  <2>6. k - 1 \in 0..N  BY <1>1
  <2>7. QED  BY <1>7, <2>1, <2>3, <2>5, <2>6
<1>10. ASSUME NEW m \in 1..C, <<pos[BottomUp(b, matched)[m]], to[m - 1]>> \in D
       PROVE  <<pos[BottomUp(b, matched)[m]] - 1, to[m]>> \in D
  <2> DEFINE k == BottomUp(b, matched)[m]
             l == to[m - 1]
  <2>1. k \in matched /\ pos[k] = k  BY <1>5
  <2>2. k \in 1..N  BY <1>1, <2>1
  <2>3. to[m] = ApplyDelete(l, b[k])  BY <1>6
  <2>4. to[m] \in Lines  BY <1>5, <1>6
  <2>5. <<k, l>> \in D  BY <1>10, <2>1
  <2> HIDE DEF k, l
  <2>6. Standing(l, file, EndOf(b, k), Part(exp, r(k), X)) /\ BlankAfter(l, EndOf(b, k))
    BY <1>7, <2>5
  <2>7. /\ Standing(ApplyDelete(l, b[k]), file, EndOf(b, k - 1), Part(exp, r(k), X))
        /\ BlankAfter(ApplyDelete(l, b[k]), EndOf(b, k - 1))
    BY <2>2, <2>6, DeleteOne
  <2>8. r(k) = r(k - 1)  BY <1>2, <2>1, <2>2
  <2>9. k - 1 \in 0..N  BY <1>1, <2>2
  <2>10. <<k - 1, to[m]>> \in D  BY <1>7, <2>3, <2>4, <2>7, <2>8, <2>9
  <2>11. QED  BY <2>1, <2>10 DEF k
<1>11. Patching(matched, before, N, pos, to, D)
  <2>1. ASSUME NEW n \in 1..N, NEW l, <<n, l>> \in D, \A x \in matched : pos[x] # n
        PROVE  <<n - 1, l>> \in D
    <3>1. n \notin matched  BY <2>1
    <3>2. QED  BY <1>9, <2>1, <3>1
  <2> HIDE DEF N, pos, before, b
  <2>2. QED  BY <1>5, <1>8, <1>10, <2>1 DEF Patching, C
<1>12. <<0, to[C]>> \in D
  <2> HIDE DEF N, pos, before, b
  <2>1. QED  BY <1>4, <1>11, Backward DEF C
<1>13. Standing(to[C], file, 0, Part(exp, 0, X))
  <2>1. EndOf(b, 0) = 0  BY DEF EndOf
  <2>2. QED  BY <1>2, <1>7, <1>12, <2>1
<1>14. Part(exp, 0, X) = exp
  <2>1. X = Len(exp)  OBVIOUS
  <2> HIDE DEF X
  <2>2. 0 \in 0..Len(exp) /\ Len(exp) \in 0..Len(exp)  BY <1>2, <2>1
  <2>3. QED  BY <1>2, <2>1, <2>2, Parts
<1>15. Told(to[C]) = exp  BY <1>13, <1>14, StandingDone
<1>16. QED  BY <1>3, <1>15 DEF Told, exp

-----------------------------------------------------------------------------
(* INSERT.                                                                 *)

RowSet == [after : Nat, kind : {"heading", "paragraph"}, text : Texts]

(* Rows for blocks that are there. *)
RowsFit(rows, blocks) ==
  rows \in Seq(RowSet) /\ \A r \in DOMAIN rows : rows[r].after \in {AtEnd} \cup DOMAIN blocks

(* A blank line or none says nothing. *)
LEMMA BlankOrNot ==
  ASSUME NEW C, C = <<>> \/ C = <<Blank>>
  PROVE  /\ C \in Lines /\ Told(C) = <<>> /\ Plain(C)
         /\ ~IsText(C, Len(C)) /\ ~IsText(C, 1)
<1>1. CASE C = <<>>
  <2>1. DOMAIN C = {}  BY <1>1, LinesAreSeqs
  <2>2. QED  BY <1>1, <2>1, NothingTold DEF IsText
<1>2. CASE C = <<Blank>>
  <2> DEFINE l == Blank
             B == <<l>>
  <2>1. l \in Line /\ l.kind = "blank"  BY DEF Line, Blank
  <2> HIDE DEF l
  <2>2. B \in Seq(Line) /\ Len(B) = 1 /\ B[1] = l /\ DOMAIN B = 1..1  BY <2>1
  <2> HIDE DEF B
  <2>3. B \in Lines /\ \A i \in DOMAIN B : B[i].kind = "blank"  BY <2>1, <2>2 DEF Lines
  <2>4. Told(B) = <<>> /\ Plain(B)  BY <2>3, BlankTold
  <2>5. ~IsText(B, Len(B)) /\ ~IsText(B, 1)  BY <2>1, <2>2 DEF IsText
  <2>6. C = B  BY <1>2 DEF B, l
  <2>7. QED  BY <2>3, <2>4, <2>5, <2>6
<1>3. QED  BY <1>1, <1>2

LeadOf(lines, at) == IF at > 0 /\ ~IsBlankAt(lines, at) THEN <<Blank>> ELSE <<>>
TrailOf(lines, at) ==
  IF at < Len(lines) /\ ~IsBlankAt(lines, at + 1) THEN <<Blank>> ELSE <<>>
RowLines(lines, at, row) ==
  LeadOf(lines, at) \o <<Rendered(row.kind, row.text)>> \o TrailOf(lines, at)

(* The lines of a new block say what they should. *)
LEMMA RowTold ==
  ASSUME NEW lines, NEW at, NEW row \in RowSet
  PROVE  LET R == RowLines(lines, at, row)
             said == Said(row.kind, <<row.text>>)
         IN  /\ R \in Lines /\ Plain(R) /\ Told(R) = <<said>> /\ said \in Sayings
             /\ IsText(R, 1) => ~(at > 0 /\ ~IsBlankAt(lines, at))
             /\ IsText(R, Len(R)) => ~(at < Len(lines) /\ ~IsBlankAt(lines, at + 1))
             /\ Len(R) > 0
<1> DEFINE A == LeadOf(lines, at)
           B == <<Rendered(row.kind, row.text)>>
           C == TrailOf(lines, at)
           AB == A \o B
           R == AB \o C
           said == Said(row.kind, <<row.text>>)
<1>1. Writable(row.kind) /\ row.text \in Texts  BY DEF RowSet, Writable
<1>2. B \in Lines /\ Plain(B) /\ Len(B) = 1 /\ Told(B) = <<said>> /\ said \in Sayings
  BY <1>1, RenderedTold
<1>3. A = <<>> \/ A = <<Blank>>  BY DEF LeadOf
<1>4. C = <<>> \/ C = <<Blank>>  BY DEF TrailOf
<1>5. (at > 0 /\ ~IsBlankAt(lines, at)) => A = <<Blank>>  BY DEF LeadOf
<1>6. (at < Len(lines) /\ ~IsBlankAt(lines, at + 1)) => C = <<Blank>>  BY DEF TrailOf
<1>7. RowLines(lines, at, row) = R  BY DEF RowLines
<1> HIDE DEF A, B, C, said
<1>8. /\ A \in Lines /\ Told(A) = <<>> /\ Plain(A) /\ ~IsText(A, Len(A)) /\ ~IsText(A, 1)
  BY <1>3, BlankOrNot
<1>9. /\ C \in Lines /\ Told(C) = <<>> /\ Plain(C) /\ ~IsText(C, Len(C)) /\ ~IsText(C, 1)
  BY <1>4, BlankOrNot
<1>10. /\ AB \in Lines /\ Plain(AB) /\ Told(AB) = Told(A) \o Told(B)
       /\ Len(AB) = Len(A) + 1 /\ Len(A) \in Nat /\ Len(C) \in Nat
  <2>1. Apart(A, B)  BY <1>8 DEF Apart
  <2>2. AB \in Lines /\ Len(AB) = Len(A) + Len(B) /\ Len(A) \in Nat  BY <1>2, <1>8, Joined
  <2>3. Plain(AB)  BY <1>2, <1>8, PlainJoins
  <2>4. Told(AB) = Told(A) \o Told(B)  BY <1>2, <1>8, <2>1, Join
  <2>5. Len(C) \in Nat  BY <1>9, LinesAreSeqs
  <2>6. QED  BY <1>2, <2>2, <2>3, <2>4, <2>5
<1> HIDE DEF AB
<1>11. /\ R \in Lines /\ Plain(R) /\ Told(R) = Told(AB) \o Told(C)
       /\ Len(R) = Len(AB) + Len(C)
  BY <1>9, <1>10, Joined, PlainJoins, Join DEF Apart
<1>12. Told(R) = <<said>>
  <2> DEFINE t == <<said>>
  <2>1. t \in Seq(Sayings)  BY <1>2
  <2>2. Told(B) = t  BY <1>2
  <2> HIDE DEF t
  <2>3. <<>> \o t = t /\ t \o <<>> = t  BY <2>1, ConcatEmptySeq
  <2>4. QED  BY <1>8, <1>9, <1>10, <1>11, <2>2, <2>3 DEF t
<1>13. IsText(R, 1) => ~(at > 0 /\ ~IsBlankAt(lines, at))
  <2>1. SUFFICES ASSUME A = <<Blank>> PROVE ~IsText(R, 1)  BY <1>5
  <2>2. Len(A) = 1  BY <2>1
  <2>3. 1 \in 0..Len(A) /\ 1 \in 0..Len(AB)  BY <1>10, <2>2
  <2>4. IsText(AB, 1) <=> IsText(A, 1)  BY <1>2, <1>8, <2>3, JoinedText DEF AB
  <2>5. IsText(R, 1) <=> IsText(AB, 1)  BY <1>9, <1>10, <2>3, JoinedText
  <2>6. QED  BY <1>8, <2>4, <2>5
<1>14. IsText(R, Len(R)) => ~(at < Len(lines) /\ ~IsBlankAt(lines, at + 1))
  <2>1. SUFFICES ASSUME C = <<Blank>> PROVE ~IsText(R, Len(R))  BY <1>6
  <2>2. Len(C) = 1  BY <2>1
  <2>3. 1 \in 1..Len(C) /\ Len(R) = Len(AB) + 1  BY <1>11, <2>2
  <2>4. IsText(R, Len(R)) <=> IsText(C, 1)  BY <1>9, <1>10, <2>3, JoinedText
  <2>5. QED  BY <1>9, <2>4
<1>15. Len(R) > 0  BY <1>10, <1>11
<1> HIDE DEF R
<1>16. QED  BY <1>2, <1>7, <1>11, <1>12, <1>13, <1>14, <1>15 DEF said

(* A new block and its blank lines come between two lines. *)
LEMMA InsertIsSplice ==
  ASSUME NEW lines, NEW place, NEW row
  PROVE  LET at == Least(place, Len(lines))
         IN  ApplyInsert(lines, place, row) = Splice(lines, at, at, RowLines(lines, at, row))
BY DEF ApplyInsert, RowLines, LeadOf, TrailOf

(* A file with a new block is a file. *)
LEMMA InsertIsLines ==
  ASSUME NEW lines \in Lines, NEW place \in Nat, NEW row \in RowSet
  PROVE  ApplyInsert(lines, place, row) \in Lines
<1> DEFINE m == Len(lines)
           at == Least(place, m)
<1>1. m \in Nat  BY LinesAreSeqs
<1> HIDE DEF m
<1>2. at \in Nat /\ at <= m  BY <1>1, LeastIs
<1>3. at \in 0..m  BY <1>1, <1>2
<1> HIDE DEF at
<1>4. RowLines(lines, at, row) \in Lines  BY RowTold
<1>5. Splice(lines, at, at, RowLines(lines, at, row)) \in Lines
  BY <1>3, <1>4, SpliceIsLines DEF m
<1>6. QED  BY <1>5, InsertIsSplice DEF at, m

(* A step of INSERT: the row goes between the lines of the file that are   *)
(* left and what follows.                                                  *)
LEMMA InsertOne ==
  ASSUME NEW file \in Lines, NEW c \in 0..Len(file), NEW row \in RowSet,
         NEW l, NEW e, Standing(l, file, c, e)
  PROVE  Standing(ApplyInsert(l, c, row), file, c, <<Said(row.kind, <<row.text>>)>> \o e)
<1> DEFINE R == RowLines(l, c, row)
           said == <<Said(row.kind, <<row.text>>)>>
           A == Part(file, 0, c)
<1>1. PICK T : l = A \o T /\ Rest(T, file, c, e)  BY DEF Standing
<1>2. T \in Lines /\ Plain(T) /\ Told(T) = e  BY <1>1 DEF Rest
<1>3. Len(file) \in Nat /\ DOMAIN file = 1..Len(file)  BY LinesAreSeqs
<1>4. /\ l \in Lines /\ Len(l) = c + Len(T) /\ Len(T) \in Nat /\ c \in Nat
      /\ \A i \in 1..c : l[i] = file[i]
      /\ \A i \in 1..Len(T) : l[c + i] = T[i]
      /\ \A d \in 0..c : SubSeq(l, 1, d) = Part(file, 0, d)
      /\ SubSeq(l, c + 1, Len(l)) = T
  BY <1>1, <1>2, StandingIs
<1>5. DOMAIN l = 1..Len(l) /\ DOMAIN T = 1..Len(T)  BY <1>2, <1>4, LinesAreSeqs
<1>6. /\ R \in Lines /\ Plain(R) /\ Told(R) = said
      /\ IsText(R, 1) => ~(c > 0 /\ ~IsBlankAt(l, c))
      /\ IsText(R, Len(R)) => ~(c < Len(l) /\ ~IsBlankAt(l, c + 1))
      /\ Len(R) > 0
  BY RowTold
<1>7. ApplyInsert(l, c, row) = (A \o R) \o T
  <2>1. Least(c, Len(l)) = c
    <3>1. c \in Nat /\ Len(l) \in Nat /\ c <= Len(l)  BY <1>4
    <3>2. QED  BY <3>1, LeastIs
  <2>2. ApplyInsert(l, c, row) = Splice(l, c, c, R)  BY <2>1, InsertIsSplice
  <2>3. SubSeq(l, 1, c) = A
    <3>1. c \in 0..c  BY <1>4
    <3>2. QED  BY <1>4, <3>1
  <2>4. QED  BY <1>4, <2>2, <2>3 DEF Splice
<1>8. A \in Lines
  <2>1. 0 \in 0..Len(file) /\ c \in 0..Len(file)  BY <1>3
  <2>2. QED  BY <2>1, PartOfFile
<1> HIDE DEF R, said, A
<1>9. Apart(R, T)
  <2>1. SUFFICES ASSUME IsText(R, Len(R)), IsText(T, 1) PROVE FALSE  BY DEF Apart
  <2>2. 1 \in 1..Len(T) /\ T[1].kind = "text"  BY <1>5, <2>1 DEF IsText
  <2>3. c < Len(l) /\ l[c + 1].kind = "text"  BY <1>4, <2>2
  <2>4. ~IsBlankAt(l, c + 1)  BY <2>3 DEF IsBlankAt
  <2>5. QED  BY <1>6, <2>1, <2>3, <2>4
<1>10. R \o T \in Lines /\ Plain(R \o T) /\ Told(R \o T) = said \o e
       /\ Len(R) \in Nat
  BY <1>2, <1>6, <1>9, Joined, PlainJoins, Join
<1>11. IsText(file, c) => ~IsText(R \o T, 1)
  <2>1. SUFFICES ASSUME IsText(file, c) PROVE ~IsText(R \o T, 1)  OBVIOUS
  <2>2. c \in 1..c /\ c > 0 /\ file[c].kind = "text"  BY <1>3, <1>4, <2>1 DEF IsText
  <2>3. ~IsBlankAt(l, c)  BY <1>4, <2>2 DEF IsBlankAt
  <2>4. ~IsText(R, 1)  BY <1>6, <2>2, <2>3
  <2>5. 1 \in 0..Len(R)  BY <1>6, <1>10
  <2>6. QED  BY <1>2, <1>6, <2>4, <2>5, JoinedText
<1>12. Rest(R \o T, file, c, said \o e)  BY <1>10, <1>11 DEF Rest
<1>13. (A \o R) \o T = A \o (R \o T)
  <2>1. A \in Seq(Line) /\ R \in Seq(Line) /\ T \in Seq(Line)
    BY <1>2, <1>6, <1>8 DEF Lines
  <2>2. QED  BY <2>1, ConcatAssociative
<1>14. QED  BY <1>7, <1>12, <1>13 DEF Standing, A, said

-----------------------------------------------------------------------------
(* The order of the rows.                                                  *)

RowPairs(file, blocks, rows) ==
  LET Place(r) == PlaceOf(file, blocks, rows[r])
      numbers == DOMAIN rows
  IN  {p \in numbers \X numbers :
         \/ Place(p[1]) > Place(p[2])
         \/ Place(p[1]) = Place(p[2]) /\ p[1] > p[2]}

(* The fields of a row. *)
LEMMA RowFields ==
  ASSUME NEW file \in Lines, NEW blocks \in Blocks, NEW rows, RowsFit(rows, blocks)
  PROVE  /\ Len(rows) \in Nat /\ DOMAIN rows = 1..Len(rows)
         /\ \A r \in 1..Len(rows) :
              /\ rows[r] \in RowSet /\ r \in Nat \ {0}
              /\ rows[r].after = AtEnd \/ rows[r].after \in 1..Len(blocks)
              /\ PlaceOf(file, blocks, rows[r]) \in Nat
<1>1. rows \in Seq(RowSet) /\ \A r \in DOMAIN rows : rows[r].after \in {AtEnd} \cup DOMAIN blocks
  BY DEF RowsFit
<1>2. Len(rows) \in Nat /\ DOMAIN rows = 1..Len(rows)  BY <1>1, LenProperties
<1>3. Len(file) \in Nat /\ Len(blocks) \in Nat /\ DOMAIN blocks = 1..Len(blocks)
  BY LinesAreSeqs, BlocksAreSeqs
<1>4. ASSUME NEW r \in 1..Len(rows)
      PROVE  /\ rows[r] \in RowSet /\ r \in Nat \ {0}
             /\ rows[r].after = AtEnd \/ rows[r].after \in 1..Len(blocks)
             /\ PlaceOf(file, blocks, rows[r]) \in Nat
  <2>1. rows[r] \in RowSet  BY <1>1, ElementOfSeq
  <2>2. rows[r].after = AtEnd \/ rows[r].after \in 1..Len(blocks)  BY <1>1, <1>2, <1>3
  <2>3. \A k \in 1..Len(blocks) : blocks[k].last \in Nat  BY <1>3, BlockFields
  <2>4. PlaceOf(file, blocks, rows[r]) \in Nat  BY <1>3, <2>2, <2>3 DEF PlaceOf
  <2>5. r \in Nat \ {0}  BY <1>2
  <2>6. QED  BY <2>1, <2>2, <2>4, <2>5
<1>5. QED  BY <1>2, <1>4

(* The list of rows has each of them once. *)
LEMMA InsertOrderIs ==
  ASSUME NEW file \in Lines, NEW blocks \in Blocks, NEW rows, RowsFit(rows, blocks)
  PROVE  LET before == RowPairs(file, blocks, rows)
             order == InsertOrder(file, blocks, rows)
             Place(r) == PlaceOf(file, blocks, rows[r])
             N == Cardinality(DOMAIN rows)
         IN  /\ IsFiniteSet(DOMAIN rows) /\ N \in Nat
             /\ Orders(before, DOMAIN rows)
             /\ order = Sorted(DOMAIN rows, before) /\ Len(order) = N
             /\ \A n \in 1..N : order[n] \in DOMAIN rows
             /\ \A x, y \in DOMAIN rows :
                  <<x, y>> \in before <=>
                    Place(x) > Place(y) \/ (Place(x) = Place(y) /\ x > y)
<1> DEFINE before == RowPairs(file, blocks, rows)
           order == InsertOrder(file, blocks, rows)
           Place(r) == PlaceOf(file, blocks, rows[r])
           S == DOMAIN rows
           N == Cardinality(S)
<1>1. /\ Len(rows) \in Nat /\ S = 1..Len(rows)
      /\ \A r \in S : r \in Nat /\ Place(r) \in Nat
  <2>1. Len(rows) \in Nat /\ S = 1..Len(rows)  BY RowFields
  <2>2. \A r \in 1..Len(rows) : Place(r) \in Nat  BY RowFields
  <2> HIDE DEF Place
  <2>3. QED  BY <2>1, <2>2
<1>2. IsFiniteSet(S)  BY <1>1, FS_Interval
<1>3. \A x, y \in S :
        <<x, y>> \in before <=> Place(x) > Place(y) \/ (Place(x) = Place(y) /\ x > y)
  BY DEF RowPairs
<1>4. order = Sorted(S, before)  BY DEF InsertOrder, RowPairs
<1> HIDE DEF before, order, S, Place
<1>5. Orders(before, S)
  <2>1. \A x \in S : <<x, x>> \notin before  BY <1>1, <1>3
  <2>2. ASSUME NEW x \in S, NEW y \in S, NEW z \in S,
               <<x, y>> \in before, <<y, z>> \in before
        PROVE  <<x, z>> \in before
    BY <1>1, <1>3, <2>2
  <2>3. ASSUME NEW x \in S, NEW y \in S
        PROVE  x = y \/ <<x, y>> \in before \/ <<y, x>> \in before
    BY <1>1, <1>3
  <2>4. QED  BY <2>1, <2>2, <2>3 DEF Orders
<1>6. order \in Seq(S) /\ Len(order) = N /\ N \in Nat
  BY <1>2, <1>4, <1>5, SortedLists
<1>7. \A n \in 1..N : order[n] \in S  BY <1>6, ElementOfSeq
<1>8. QED  BY <1>2, <1>3, <1>4, <1>5, <1>6, <1>7 DEF before, order, S, Place

InsertsTo(to, file, blocks, rows) ==
  /\ to[0] = file
  /\ \A n \in 0..Cardinality(DOMAIN rows) : to[n] \in Lines
  /\ \A n \in 1..Cardinality(DOMAIN rows) :
       LET row == rows[InsertOrder(file, blocks, rows)[n]]
       IN  to[n] = ApplyInsert(to[n - 1], PlaceOf(file, blocks, row), row)

(* The text of an INSERT is that after the last of its patches. *)
LEMMA InsertedWalks ==
  ASSUME NEW file \in Lines, NEW blocks \in Blocks, NEW rows, RowsFit(rows, blocks)
  PROVE  \E to : /\ InsertsTo(to, file, blocks, rows)
                 /\ Inserted(file, blocks, rows) = to[Cardinality(DOMAIN rows)]
<1> DEFINE order == InsertOrder(file, blocks, rows)
           S == DOMAIN rows
           N == Cardinality(S)
           row(n) == rows[order[n]]
           place(n) == PlaceOf(file, blocks, row(n))
           step == [n \in 1..N |-> [l \in Lines |-> ApplyInsert(l, place(n), row(n))]]
           P(to) == to = [n \in 0..Len(order) |->
                            IF n = 0 THEN file ELSE ApplyInsert(to[n - 1], place(n), row(n))]
<1>1. N \in Nat /\ Len(order) = N /\ \A n \in 1..N : order[n] \in S
  BY InsertOrderIs
<1>2. ASSUME NEW n \in 1..N PROVE row(n) \in RowSet /\ place(n) \in Nat
  <2>1. order[n] \in 1..Len(rows)  BY <1>1, RowFields
  <2>2. QED  BY <2>1, RowFields
<1>3. step \in [1..N -> [Lines -> Lines]]
  <2>1. \A n \in 1..N : \A l \in Lines : ApplyInsert(l, place(n), row(n)) \in Lines
    <3> HIDE DEF row, place
    <3>1. QED  BY <1>2, InsertIsLines
  <2>2. QED  BY <2>1
<1>4. \A n \in 1..N : \A l \in Lines : step[n][l] = ApplyInsert(l, place(n), row(n))
  OBVIOUS
<1> HIDE DEF step, order, N
<1>5. \E f : Iteration(Lines, N, file, step, f)
  <2>1. Steps(Lines, N, file, step)  BY <1>1, <1>3 DEF Steps
  <2>2. QED  BY <2>1, Iterates
<1>6. PICK f : Iteration(Lines, N, file, step, f)  BY <1>5
<1>7. /\ f \in [0..N -> Lines] /\ f[0] = file
      /\ \A n \in 1..N : f[n] = step[n][f[n - 1]]
  BY <1>6 DEF Iteration
<1>8. \A n \in 1..N : n - 1 \in 0..N /\ f[n] = ApplyInsert(f[n - 1], place(n), row(n))
  <2>1. ASSUME NEW n \in 1..N
        PROVE  n - 1 \in 0..N /\ f[n] = ApplyInsert(f[n - 1], place(n), row(n))
    <3>1. n - 1 \in 0..N  BY <1>1
    <3>2. f[n - 1] \in Lines  BY <1>7, <3>1
    <3>3. QED  BY <1>4, <1>7, <3>1, <3>2
  <2>2. QED  BY <2>1
<1>9. P(f)
  <2>1. \A n \in 0..N : n = 0 \/ n \in 1..N  BY <1>1
  <2>2. \A n \in 0..N :
          f[n] = IF n = 0 THEN file ELSE ApplyInsert(f[n - 1], place(n), row(n))
    BY <1>7, <1>8, <2>1
  <2>3. f = [n \in 0..N |-> f[n]]  BY <1>7
  <2>4. QED  BY <1>1, <2>2, <2>3
<1> DEFINE to == CHOOSE to : P(to)
<1>10. Inserted(file, blocks, rows) = to[Len(order)]  BY DEF Inserted, order
<1>11. P(to)
  <2> HIDE DEF P
  <2>1. QED  BY <1>9
<1> HIDE DEF to
<1>12. to[0] = file /\ \A n \in 1..N : to[n] = ApplyInsert(to[n - 1], place(n), row(n))
  BY <1>1, <1>11
<1> DEFINE T == {n \in 0..N : to[n] \in Lines}
<1>13. 0..N \subseteq T
  <2>1. 0 \in T  BY <1>1, <1>12
  <2>2. ASSUME NEW n \in 1..N, n - 1 \in T PROVE n \in T
    <3>1. row(n) \in RowSet /\ place(n) \in Nat /\ to[n - 1] \in Lines  BY <1>2, <2>2
    <3>2. to[n] = ApplyInsert(to[n - 1], place(n), row(n))  BY <1>12
    <3> HIDE DEF row, place
    <3>3. to[n] \in Lines  BY <3>1, <3>2, InsertIsLines
    <3>4. QED  BY <1>1, <3>3
  <2> HIDE DEF T
  <2>3. QED  BY <1>1, <2>1, <2>2, UpTo
<1>14. InsertsTo(to, file, blocks, rows)
  BY <1>12, <1>13 DEF InsertsTo, order, N
<1>15. QED  BY <1>1, <1>10, <1>14 DEF N

(* What is before an element of a sorted list is the one next to it, or is *)
(* before that one.                                                        *)
LEMMA Neighbours ==
  ASSUME NEW S, IsFiniteSet(S), NEW before, Orders(before, S)
  PROVE  LET A == Sorted(S, before)
             N == Cardinality(S)
         IN  /\ \A n \in 1..N : A[n] \in S
             /\ \A n \in 1..N : \A z \in S :
                  <<z, A[n]>> \in before =>
                    n > 1 /\ (z = A[n - 1] \/ <<z, A[n - 1]>> \in before)
             /\ \A n \in 1..N : n > 1 => <<A[n - 1], A[n]>> \in before
             /\ \A z \in S : z = A[N] \/ <<z, A[N]>> \in before
<1> DEFINE A == Sorted(S, before)
           N == Cardinality(S)
           C(x) == Cardinality(Preceding(S, before, x))
<1>1. /\ A \in Seq(S) /\ Len(A) = N /\ N \in Nat
      /\ \A n \in 1..N : C(A[n]) = n - 1
      /\ \A x \in S : C(x) \in 0..N - 1 /\ A[C(x) + 1] = x
  BY SortedLists
<1>2. \A x, y \in S : <<y, x>> \in before => C(y) < C(x)  BY PrecedingGrows
<1>3. \A n \in 1..N : A[n] \in S  BY <1>1, ElementOfSeq
<1> HIDE DEF A, N, C
<1>4. \A x, y \in S : x = y \/ <<x, y>> \in before \/ <<y, x>> \in before  BY DEF Orders
<1>5. \A x \in S : C(x) \in Nat  BY <1>1
<1>6. ASSUME NEW n \in 1..N, NEW z \in S, <<z, A[n]>> \in before
      PROVE  n > 1 /\ (z = A[n - 1] \/ <<z, A[n - 1]>> \in before)
  <2>1. C(z) < n - 1 /\ C(z) \in Nat  BY <1>1, <1>2, <1>3, <1>5, <1>6
  <2>2. n > 1 /\ n - 1 \in 1..N  BY <1>1, <2>1
  <2>3. A[n - 1] \in S /\ C(A[n - 1]) = (n - 1) - 1  BY <1>1, <1>3, <2>2
  <2>4. <<A[n - 1], z>> \notin before
    <3>1. <<A[n - 1], z>> \in before => C(A[n - 1]) < C(z)  BY <1>2, <2>3
    <3>2. ~(C(A[n - 1]) < C(z))  BY <2>1, <2>3
    <3>3. QED  BY <3>1, <3>2
  <2>5. QED  BY <1>4, <2>2, <2>3, <2>4
<1>7. ASSUME NEW n \in 1..N, n > 1 PROVE <<A[n - 1], A[n]>> \in before
  <2>1. n - 1 \in 1..N  BY <1>1, <1>7
  <2>2. /\ A[n - 1] \in S /\ C(A[n - 1]) = (n - 1) - 1
        /\ A[n] \in S /\ C(A[n]) = n - 1
    BY <1>1, <1>3, <2>1
  <2>3. C(A[n - 1]) < C(A[n]) /\ C(A[n - 1]) # C(A[n])  BY <2>2
  <2>4. <<A[n], A[n - 1]>> \notin before
    <3>1. <<A[n], A[n - 1]>> \in before => C(A[n]) < C(A[n - 1])  BY <1>2, <2>2
    <3>2. ~(C(A[n]) < C(A[n - 1]))  BY <1>5, <2>2, <2>3
    <3>3. QED  BY <3>1, <3>2
  <2>5. A[n - 1] # A[n]  BY <2>3
  <2>6. QED  BY <1>4, <2>2, <2>4, <2>5
<1>8. ASSUME NEW z \in S PROVE z = A[N] \/ <<z, A[N]>> \in before
  <2>1. C(z) \in 0..N - 1  BY <1>1
  <2>2. N \in 1..N  BY <1>1, <2>1
  <2>3. A[N] \in S /\ C(A[N]) = N - 1  BY <1>1, <1>3, <2>2
  <2>4. <<A[N], z>> \notin before
    <3>1. <<A[N], z>> \in before => C(A[N]) < C(z)  BY <1>2, <2>3
    <3>2. ~(C(A[N]) < C(z))  BY <1>1, <2>1, <2>3
    <3>3. QED  BY <3>1, <3>2
  <2>5. QED  BY <1>4, <2>3, <2>4
<1>9. QED  BY <1>3, <1>6, <1>7, <1>8 DEF A, N

-----------------------------------------------------------------------------
(* Blocks and rows by their place.                                         *)

ItemPlace(blocks, rows, r) ==
  IF rows[r].after = AtEnd THEN Len(blocks) ELSE rows[r].after
BlockItem(k) == <<k, 0>>
RowItem(blocks, rows, r) == <<ItemPlace(blocks, rows, r), r>>
Items(blocks, rows) ==
  {BlockItem(k) : k \in DOMAIN blocks} \cup {RowItem(blocks, rows, r) : r \in DOMAIN rows}
ItemBefore(x, y) == x[1] < y[1] \/ (x[1] = y[1] /\ x[2] < y[2])
ItemPairs(blocks, rows) ==
  {p \in Items(blocks, rows) \X Items(blocks, rows) :
     \/ p[1][1] < p[2][1]
     \/ p[1][1] = p[2][1] /\ p[1][2] < p[2][2]}
ItemSays(blocks, rows, x) ==
  IF x[2] = 0 THEN Outline(blocks)[x[1]]
  ELSE [kind |-> rows[x[2]].kind, content |-> <<rows[x[2]].text>>]

IsBlockItem(x, blocks) == x[2] = 0 /\ x[1] \in 1..Len(blocks) /\ x = BlockItem(x[1])
IsRowItem(x, blocks, rows) ==
  /\ x[2] # 0 /\ x[2] \in 1..Len(rows) /\ x[1] = ItemPlace(blocks, rows, x[2])
  /\ x = RowItem(blocks, rows, x[2])

(* Blocks and rows are put into a strict total order. *)
LEMMA ItemsAre ==
  ASSUME NEW file \in Lines, NEW blocks \in Blocks, NEW rows, RowsFit(rows, blocks)
  PROVE  LET S == Items(blocks, rows)
             asc == ItemPairs(blocks, rows)
         IN  /\ IsFiniteSet(S) /\ Orders(asc, S)
             /\ \A x, y \in S : <<x, y>> \in asc <=> ItemBefore(x, y)
             /\ \A x \in S : /\ x[1] \in Nat /\ x[2] \in Nat
                             /\ IsBlockItem(x, blocks) \/ IsRowItem(x, blocks, rows)
             /\ \A k \in 1..Len(blocks) :
                  BlockItem(k) \in S /\ BlockItem(k)[1] = k /\ BlockItem(k)[2] = 0
             /\ \A r \in 1..Len(rows) :
                  /\ RowItem(blocks, rows, r) \in S
                  /\ RowItem(blocks, rows, r)[1] = ItemPlace(blocks, rows, r)
                  /\ RowItem(blocks, rows, r)[2] = r
                  /\ ItemPlace(blocks, rows, r) \in 0..Len(blocks)
<1> DEFINE N == Len(blocks)
           R == Len(rows)
           BI == {BlockItem(k) : k \in 1..N}
           RI == {RowItem(blocks, rows, r) : r \in 1..R}
           S == Items(blocks, rows)
           asc == ItemPairs(blocks, rows)
<1>1. /\ N \in Nat /\ DOMAIN blocks = 1..N /\ R \in Nat /\ DOMAIN rows = 1..R
      /\ \A r \in 1..R : rows[r].after = AtEnd \/ rows[r].after \in 1..N
  BY BlocksAreSeqs, RowFields
<1>2. S = BI \cup RI  BY <1>1 DEF Items
<1>3. \A r \in 1..R : ItemPlace(blocks, rows, r) \in 0..N  BY <1>1 DEF ItemPlace
<1>4. IsFiniteSet(S)
  <2>1. IsFiniteSet(1..N) /\ IsFiniteSet(1..R)  BY <1>1, FS_Interval
  <2> DEFINE f == [k \in 1..N |-> BlockItem(k)]
             g == [r \in 1..R |-> RowItem(blocks, rows, r)]
  <2>2. IsFiniteSet(BI)
    <3>1. f \in Surjection(1..N, BI)  BY DEF Surjection
    <3> HIDE DEF f, BI
    <3>2. QED  BY <2>1, <3>1, FS_Surjection
  <2>3. IsFiniteSet(RI)
    <3>1. g \in Surjection(1..R, RI)  BY DEF Surjection
    <3> HIDE DEF g, RI
    <3>2. QED  BY <2>1, <3>1, FS_Surjection
  <2>4. QED  BY <1>2, <2>2, <2>3, FS_Union
<1>5. \A k \in 1..N :
        BlockItem(k) \in S /\ BlockItem(k)[1] = k /\ BlockItem(k)[2] = 0
  BY <1>2 DEF BlockItem
<1>6. \A r \in 1..R :
        /\ RowItem(blocks, rows, r) \in S
        /\ RowItem(blocks, rows, r)[1] = ItemPlace(blocks, rows, r)
        /\ RowItem(blocks, rows, r)[2] = r
  BY <1>2 DEF RowItem
<1>7. ASSUME NEW x \in S
      PROVE  /\ x[1] \in Nat /\ x[2] \in Nat
             /\ IsBlockItem(x, blocks) \/ IsRowItem(x, blocks, rows)
  <2>1. CASE x \in BI
    <3>1. PICK k \in 1..N : x = BlockItem(k)  BY <2>1
    <3>2. x[1] = k /\ x[2] = 0  BY <1>5, <3>1
    <3>3. k \in Nat  BY <1>1
    <3>4. QED  BY <3>1, <3>2, <3>3 DEF IsBlockItem
  <2>2. CASE x \in RI
    <3>1. PICK r \in 1..R : x = RowItem(blocks, rows, r)  BY <2>2
    <3>2. x[1] = ItemPlace(blocks, rows, r) /\ x[2] = r  BY <1>6, <3>1
    <3>3. r \in Nat \ {0} /\ ItemPlace(blocks, rows, r) \in Nat  BY <1>1, <1>3
    <3>4. QED  BY <3>1, <3>2, <3>3 DEF IsRowItem
  <2>3. QED  BY <1>2, <2>1, <2>2
<1>8. \A x, y \in S : <<x, y>> \in asc <=> ItemBefore(x, y)
  BY DEF ItemPairs, ItemBefore
<1> HIDE DEF S, asc
<1>9. Orders(asc, S)
  <2>1. \A x \in S : <<x, x>> \notin asc
    <3>1. ASSUME NEW x \in S PROVE <<x, x>> \notin asc
      <4>1. x[1] \in Nat /\ x[2] \in Nat  BY <1>7
      <4>2. QED  BY <1>8, <4>1 DEF ItemBefore
    <3>2. QED  BY <3>1
  <2>2. ASSUME NEW x \in S, NEW y \in S, NEW z \in S, <<x, y>> \in asc, <<y, z>> \in asc
        PROVE  <<x, z>> \in asc
    <3>1. /\ x[1] \in Nat /\ x[2] \in Nat /\ y[1] \in Nat /\ y[2] \in Nat
          /\ z[1] \in Nat /\ z[2] \in Nat
      BY <1>7
    <3>2. ItemBefore(x, y) /\ ItemBefore(y, z)  BY <1>8, <2>2
    <3>3. ItemBefore(x, z)  BY <3>1, <3>2 DEF ItemBefore
    <3>4. QED  BY <1>8, <3>3
  <2>3. ASSUME NEW x \in S, NEW y \in S
        PROVE  x = y \/ <<x, y>> \in asc \/ <<y, x>> \in asc
    <3>1. /\ x[1] \in Nat /\ x[2] \in Nat /\ y[1] \in Nat /\ y[2] \in Nat
          /\ IsBlockItem(x, blocks) \/ IsRowItem(x, blocks, rows)
          /\ IsBlockItem(y, blocks) \/ IsRowItem(y, blocks, rows)
      BY <1>7
    <3>2. x[1] = y[1] /\ x[2] = y[2] => x = y
      BY <3>1 DEF IsBlockItem, IsRowItem, BlockItem, RowItem
    <3>3. (x[1] = y[1] /\ x[2] = y[2]) \/ ItemBefore(x, y) \/ ItemBefore(y, x)
      BY <3>1 DEF ItemBefore
    <3>4. QED  BY <1>8, <3>2, <3>3
  <2>4. QED  BY <2>1, <2>2, <2>3 DEF Orders
<1>10. QED  BY <1>3, <1>4, <1>5, <1>6, <1>7, <1>8, <1>9 DEF S, asc

-----------------------------------------------------------------------------
(* Where the rows go.                                                      *)

(* No row for the end of the file comes before one for the last block. *)
EndsLast(rows, blocks) ==
  ~\E i, j \in DOMAIN rows :
     /\ rows[i].after = AtEnd /\ rows[j].after # AtEnd
     /\ rows[j].after = Len(blocks) /\ i < j

(* The line after which the row is put, and the block before it. *)
LEMMA PlaceIs ==
  ASSUME NEW file \in Lines, OwnLines(Parse(file)), NEW rows, RowsFit(rows, Parse(file)),
         NEW r \in 1..Len(rows)
  PROVE  LET b == Parse(file)
             p == ItemPlace(b, rows, r)
             c == PlaceOf(file, b, rows[r])
         IN  /\ p \in 0..Len(b) /\ c \in EndOf(b, p)..Len(file) /\ c \in 0..Len(file)
             /\ p < Len(b) => c < b[p + 1].first
             /\ Clean(file, c)
             /\ rows[r].after # AtEnd => p = rows[r].after /\ c = EndOf(b, p) /\ p # 0
             /\ rows[r].after = AtEnd => p = Len(b) /\ c = Len(file)
<1> DEFINE b == Parse(file)
           N == Len(b)
           p == ItemPlace(b, rows, r)
           c == PlaceOf(file, b, rows[r])
<1>1. b \in Blocks /\ N \in Nat /\ Len(file) \in Nat  BY Layout
<1>2. rows[r].after = AtEnd \/ rows[r].after \in 1..N  BY <1>1, RowFields
<1>3. CASE rows[r].after = AtEnd
  <2>1. p = N /\ c = Len(file)  BY <1>3 DEF ItemPlace, PlaceOf
  <2>2. N \in 0..N  BY <1>1
  <2>3. EndOf(b, N) \in 0..Len(file)  BY <2>2, Layout
  <2>4. Clean(file, Len(file))
    <3>1. DOMAIN file = 1..Len(file)  BY LinesAreSeqs
    <3>2. Len(file) + 1 \notin DOMAIN file  BY <1>1, <3>1
    <3>3. QED  BY <3>2 DEF Clean, IsText
  <2> HIDE DEF N, b, p, c
  <2>5. Len(file) \in EndOf(b, N)..Len(file) /\ Len(file) \in 0..Len(file) /\ ~(N < N)
    BY <1>1, <2>3
  <2>6. QED  BY <1>3, <2>1, <2>2, <2>4, <2>5 DEF N, b, p, c
<1>4. CASE rows[r].after # AtEnd
  <2>1. p = rows[r].after /\ c = b[p].last  BY <1>4 DEF ItemPlace, PlaceOf
  <2>2. p \in 1..N /\ p \in 0..N /\ p # 0  BY <1>1, <1>2, <1>4, <2>1
  <2>3. /\ EndOf(b, p) = b[p].last /\ EndOf(b, p) \in 0..Len(file)
        /\ Clean(file, EndOf(b, p))
    BY <2>2, Layout
  <2>4. p < N => b[p].last < b[p + 1].first
    <3>1. SUFFICES ASSUME p < N PROVE b[p].last < b[p + 1].first  OBVIOUS
    <3>2. p + 1 \in 1..N /\ p < p + 1  BY <1>1, <2>2, <3>1
    <3>3. QED  BY <2>2, <3>2, Layout
  <2> HIDE DEF N, b, p, c
  <2>5. c = EndOf(b, p) /\ c \in EndOf(b, p)..Len(file)  BY <1>1, <2>1, <2>3
  <2>6. QED  BY <1>4, <2>1, <2>2, <2>3, <2>4, <2>5 DEF N, b, p, c
<1>5. QED  BY <1>3, <1>4

(* Of two rows, the one with the later place comes first. *)
LEMMA RowsDescend ==
  ASSUME NEW file \in Lines, OwnLines(Parse(file)), NEW rows, RowsFit(rows, Parse(file)),
         EndsLast(rows, Parse(file)),
         NEW x \in 1..Len(rows), NEW y \in 1..Len(rows)
  PROVE  LET b == Parse(file)
             Place(r) == PlaceOf(file, b, rows[r])
         IN  (Place(x) > Place(y) \/ (Place(x) = Place(y) /\ x > y))
               <=> ItemBefore(RowItem(b, rows, y), RowItem(b, rows, x))
<1> DEFINE b == Parse(file)
           N == Len(b)
           p == ItemPlace(b, rows, x)
           q == ItemPlace(b, rows, y)
           c == PlaceOf(file, b, rows[x])
           d == PlaceOf(file, b, rows[y])
           X == RowItem(b, rows, x)
           Y == RowItem(b, rows, y)
<1>1. b \in Blocks /\ N \in Nat /\ Len(file) \in Nat  BY Layout
<1>2. X[1] = p /\ X[2] = x /\ Y[1] = q /\ Y[2] = y  BY DEF RowItem
<1>3. /\ p \in 0..N /\ c \in 0..Len(file)
      /\ rows[x].after # AtEnd => p = rows[x].after /\ c = EndOf(b, p) /\ p # 0
      /\ rows[x].after = AtEnd => p = N /\ c = Len(file)
  BY PlaceIs
<1>4. /\ q \in 0..N /\ d \in 0..Len(file)
      /\ rows[y].after # AtEnd => q = rows[y].after /\ d = EndOf(b, q) /\ q # 0
      /\ rows[y].after = AtEnd => q = N /\ d = Len(file)
  BY PlaceIs
<1>5. x \in Nat /\ y \in Nat /\ DOMAIN rows = 1..Len(rows)  BY <1>1, RowFields
<1>6. ASSUME NEW i \in 0..N, NEW j \in 0..N, i < j
      PROVE  EndOf(b, i) < EndOf(b, j)
  <2>1. j \in 1..N  BY <1>1, <1>6
  <2>2. EndOf(b, j) = b[j].last /\ b[j].first \in Nat /\ b[j].last \in Nat
        /\ b[j].first <= b[j].last /\ b[j].first > 0
    <3>1. EndOf(b, j) = b[j].last /\ b[j].first \in Nat \ {0} /\ b[j].last \in Nat \ {0}
          /\ b[j].first <= b[j].last
      BY <2>1, Layout
    <3>2. QED  BY <3>1
  <2>3. CASE i = 0
    <3>1. EndOf(b, i) = 0  BY <2>3 DEF EndOf
    <3>2. QED  BY <2>2, <3>1
  <2>4. CASE i # 0
    <3>1. i \in 1..N  BY <1>1, <2>4
    <3>2. EndOf(b, i) = b[i].last /\ b[i].last \in Nat \ {0} /\ b[i].last < b[j].first
      BY <1>6, <2>1, <3>1, Layout
    <3>3. QED  BY <2>2, <3>2
  <2>5. QED  BY <2>3, <2>4
<1>7. \A i \in 0..N : EndOf(b, i) \in 0..Len(file)  BY Layout
<1>8. rows[x].after = AtEnd /\ rows[y].after # AtEnd /\ rows[y].after = N => ~(x < y)
  BY <1>5 DEF EndsLast
<1>9. rows[y].after = AtEnd /\ rows[x].after # AtEnd /\ rows[x].after = N => ~(y < x)
  BY <1>5 DEF EndsLast
<1>10. x = y => c = d  OBVIOUS
<1>11. N \in 0..N  BY <1>1
<1>12. ItemBefore(Y, X) <=> q < p \/ (q = p /\ y < x)  BY <1>2 DEF ItemBefore
<1> HIDE DEF N, p, q, c, d, X, Y, b
<1>13. p \in Nat /\ q \in Nat /\ c \in Nat /\ d \in Nat  BY <1>1, <1>3, <1>4
<1>14. (c > d \/ (c = d /\ x > y)) <=> (q < p \/ (q = p /\ y < x))
  <2>1. CASE rows[x].after = AtEnd /\ rows[y].after = AtEnd
    <3>1. c = d /\ p = q  BY <1>3, <1>4, <2>1
    <3>2. QED  BY <1>5, <1>13, <3>1
  <2>2. CASE rows[x].after # AtEnd /\ rows[y].after # AtEnd
    <3>1. c = EndOf(b, p) /\ d = EndOf(b, q)  BY <1>3, <1>4, <2>2
    <3>2. (p < q => c < d) /\ (q < p => d < c) /\ (p = q => c = d)
      BY <1>3, <1>4, <1>6, <3>1
    <3>3. QED  BY <1>5, <1>13, <3>2
  <2>3. CASE rows[x].after = AtEnd /\ rows[y].after # AtEnd
    <3>1. p = N /\ c = Len(file) /\ d = EndOf(b, q) /\ q = rows[y].after
      BY <1>3, <1>4, <2>3
    <3>2. q < N => d < EndOf(b, N)  BY <1>4, <1>6, <1>11, <3>1
    <3>3. EndOf(b, N) <= Len(file) /\ EndOf(b, N) \in Nat /\ d <= Len(file) /\ q <= N
      BY <1>1, <1>4, <1>7, <1>11
    <3>4. CASE q < N
      <4>1. d < c  BY <1>1, <1>13, <3>1, <3>2, <3>3, <3>4
      <4>2. QED  BY <1>13, <3>1, <3>4, <4>1
    <3>5. CASE q = N
      <4>1. ~(x < y)  BY <1>8, <2>3, <3>1, <3>5
      <4>2. x # y  BY <2>3
      <4>3. x > y  BY <1>5, <4>1, <4>2
      <4>4. c > d \/ c = d  BY <1>1, <1>13, <3>1, <3>3
      <4>5. QED  BY <1>5, <1>13, <3>1, <3>5, <4>3, <4>4
    <3>6. QED  BY <1>1, <1>13, <3>3, <3>4, <3>5
  <2>4. CASE rows[x].after # AtEnd /\ rows[y].after = AtEnd
    <3>1. q = N /\ d = Len(file) /\ c = EndOf(b, p) /\ p = rows[x].after
      BY <1>3, <1>4, <2>4
    <3>2. c <= Len(file) /\ p <= N  BY <1>1, <1>3
    <3>3. ~(c > d) /\ ~(q < p)  BY <1>1, <1>13, <3>1, <3>2
    <3>4. CASE p < N
      <4>1. c < EndOf(b, N) /\ EndOf(b, N) <= Len(file) /\ EndOf(b, N) \in Nat
        BY <1>1, <1>3, <1>6, <1>7, <1>11, <3>1, <3>4
      <4>2. c # d /\ q # p  BY <1>1, <1>13, <3>1, <3>4, <4>1
      <4>3. QED  BY <3>3, <4>2
    <3>5. CASE p = N
      <4>1. ~(y < x)  BY <1>9, <2>4, <3>1, <3>5
      <4>2. ~(x > y)  BY <1>5, <4>1
      <4>3. QED  BY <3>3, <4>1, <4>2
    <3>6. QED  BY <1>1, <1>13, <3>2, <3>4, <3>5
  <2>5. QED  BY <2>1, <2>2, <2>3, <2>4
<1>15. QED  BY <1>12, <1>14 DEF c, d, b, X, Y

(* The items in order, and the line of the file where each of them ends. *)
ItemList(blocks, rows) == Sorted(Items(blocks, rows), ItemPairs(blocks, rows))
CutOf(file, blocks, rows, x) ==
  IF x[2] = 0 THEN EndOf(blocks, x[1]) ELSE PlaceOf(file, blocks, rows[x[2]])
Cut(file, blocks, rows, n) ==
  IF n = 0 THEN 0 ELSE CutOf(file, blocks, rows, ItemList(blocks, rows)[n])

InsertFits(file, rows) ==
  /\ OwnLines(Parse(file)) /\ RowsFit(rows, Parse(file)) /\ EndsLast(rows, Parse(file))

(* Before a block, the item before ends where the block before does. *)
LEMMA CutBeforeBlock ==
  ASSUME NEW file \in Lines, NEW rows, InsertFits(file, rows),
         NEW n \in 1..Cardinality(Items(Parse(file), rows)),
         ItemList(Parse(file), rows)[n][2] = 0
  PROVE  LET b == Parse(file)
             k == ItemList(b, rows)[n][1]
         IN  /\ k \in 1..Len(b) /\ ItemList(b, rows)[n] = BlockItem(k)
             /\ Cut(file, b, rows, n) = EndOf(b, k)
             /\ Cut(file, b, rows, n - 1) = EndOf(b, k - 1)
<1> DEFINE b == Parse(file)
           N == Len(b)
           S == Items(b, rows)
           asc == ItemPairs(b, rows)
           A == ItemList(b, rows)
           x == A[n]
           k == x[1]
           y == A[n - 1]
<1>1. OwnLines(b) /\ RowsFit(rows, b) /\ EndsLast(rows, b)  BY DEF InsertFits
<1>2. b \in Blocks /\ N \in Nat /\ Len(file) \in Nat  BY <1>1, Layout
<1>3. /\ IsFiniteSet(S) /\ Orders(asc, S)
      /\ \A u, v \in S : <<u, v>> \in asc <=> ItemBefore(u, v)
      /\ \A u \in S : /\ u[1] \in Nat /\ u[2] \in Nat
                      /\ IsBlockItem(u, b) \/ IsRowItem(u, b, rows)
      /\ \A j \in 1..N : BlockItem(j) \in S /\ BlockItem(j)[1] = j /\ BlockItem(j)[2] = 0
  BY <1>1, <1>2, ItemsAre
<1>4. Cardinality(S) \in Nat  BY <1>3, FS_CardinalityType
<1>5. /\ \A m \in 1..Cardinality(S) : A[m] \in S
      /\ \A m \in 1..Cardinality(S) : \A z \in S :
           <<z, A[m]>> \in asc => m > 1 /\ (z = A[m - 1] \/ <<z, A[m - 1]>> \in asc)
      /\ \A m \in 1..Cardinality(S) : m > 1 => <<A[m - 1], A[m]>> \in asc
  BY <1>3, Neighbours DEF ItemList
<1>6. n \in 1..Cardinality(S) /\ x[2] = 0 /\ n \in Nat \ {0}  BY <1>4
<1>7. x \in S /\ k \in 1..N /\ x = BlockItem(k)
  <2>1. x \in S  BY <1>5, <1>6
  <2>2. IsBlockItem(x, b)  BY <1>3, <1>6, <2>1 DEF IsRowItem
  <2>3. QED  BY <2>1, <2>2 DEF IsBlockItem
<1>8. Cut(file, b, rows, n) = EndOf(b, k)  BY <1>6 DEF Cut, CutOf
<1>9. Cut(file, b, rows, n - 1) = IF n = 1 THEN 0 ELSE CutOf(file, b, rows, y)
  BY <1>6 DEF Cut
<1> HIDE DEF b, N, S, asc, A, x, k, y
<1>10. ASSUME k > 1
       PROVE  /\ k - 1 \in 1..N /\ n > 1
              /\ BlockItem(k - 1) = y \/ ItemBefore(BlockItem(k - 1), y)
  <2> DEFINE z == BlockItem(k - 1)
  <2>1. k - 1 \in 1..N  BY <1>2, <1>7, <1>10
  <2>2. z \in S /\ z[1] = k - 1  BY <1>3, <2>1
  <2> HIDE DEF z
  <2>3. k - 1 < k  BY <1>2, <1>7
  <2>4. <<z, x>> \in asc  BY <1>3, <1>7, <2>2, <2>3 DEF ItemBefore, k
  <2>5. n > 1 /\ (z = y \/ <<z, y>> \in asc)
    BY <1>5, <1>6, <2>2, <2>4 DEF x, y
  <2>6. y \in S
    <3>1. n - 1 \in 1..Cardinality(S)  BY <1>4, <1>6, <2>5
    <3>2. QED  BY <1>5, <3>1 DEF y
  <2>7. QED  BY <1>3, <2>1, <2>2, <2>5, <2>6 DEF z
<1>11. CASE n = 1
  <2>1. k = 1
    <3>1. ~(n > 1)  BY <1>11
    <3>2. ~(k > 1)  BY <1>10, <3>1
    <3>3. QED  BY <1>2, <1>7, <3>2
  <2>2. EndOf(b, k - 1) = 0  BY <2>1 DEF EndOf
  <2>3. QED  BY <1>7, <1>8, <1>9, <1>11, <2>2 DEF b, k, x, A, N
<1>12. CASE n # 1
  <2>1. n > 1 /\ n - 1 \in 1..Cardinality(S)  BY <1>4, <1>6, <1>12
  <2>2. y \in S /\ <<y, x>> \in asc  BY <1>5, <1>6, <2>1 DEF x, y
  <2>3. /\ y[1] \in Nat /\ y[2] \in Nat /\ x[1] = k
        /\ IsBlockItem(y, b) \/ IsRowItem(y, b, rows)
    BY <1>3, <2>2 DEF k
  <2>4. y[1] < k
    <3>1. ItemBefore(y, x)  BY <1>3, <1>7, <2>2
    <3>2. QED  BY <1>6, <2>3, <3>1 DEF ItemBefore
  <2>5. y[1] < N /\ k \in Nat  BY <1>2, <1>7, <2>3, <2>4
  <2>6. y[1] \in 1..N /\ CutOf(file, b, rows, y) = EndOf(b, y[1])
    <3>1. CASE IsBlockItem(y, b)  BY <3>1 DEF IsBlockItem, CutOf, N
    <3>2. CASE IsRowItem(y, b, rows)
      <4> DEFINE r == y[2]
      <4>1. r # 0 /\ r \in 1..Len(rows) /\ y[1] = ItemPlace(b, rows, r)  BY <3>2 DEF IsRowItem
      <4>2. /\ rows[r].after # AtEnd =>
                 PlaceOf(file, b, rows[r]) = EndOf(b, y[1]) /\ y[1] # 0
            /\ rows[r].after = AtEnd => y[1] = N
        BY <1>1, <4>1, PlaceIs DEF b, N
      <4>3. rows[r].after # AtEnd  BY <2>3, <2>5, <4>2, <1>2
      <4>4. CutOf(file, b, rows, y) = PlaceOf(file, b, rows[r])  BY <4>1 DEF CutOf
      <4>5. y[1] \in 1..N  BY <1>2, <2>3, <2>5, <4>2, <4>3
      <4>6. QED  BY <4>2, <4>3, <4>4, <4>5
    <3>3. QED  BY <2>3, <3>1, <3>2
  <2>7. y[1] = k - 1
    <3>1. k > 1  BY <1>2, <2>4, <2>5, <2>6
    <3>2. k - 1 \in 1..N /\ (BlockItem(k - 1) = y \/ ItemBefore(BlockItem(k - 1), y))
      BY <1>10, <3>1
    <3>3. BlockItem(k - 1)[1] = k - 1  BY <1>3, <3>2
    <3>4. k - 1 <= y[1]
      <4> DEFINE z == BlockItem(k - 1)
      <4>1. z = y \/ z[1] < y[1] \/ z[1] = y[1]  BY <3>2 DEF ItemBefore
      <4>2. z[1] = k - 1  BY <3>3
      <4> HIDE DEF z
      <4>3. QED  BY <2>3, <2>5, <4>1, <4>2
    <3>5. QED  BY <2>3, <2>4, <2>5, <3>4
  <2>8. QED  BY <1>7, <1>8, <1>9, <1>12, <2>6, <2>7 DEF b, k, x, A, N
<1>13. QED  BY <1>11, <1>12

(* Before a row, the item before ends where the row does, or before that   *)
(* but behind the block that is before both.                               *)
LEMMA CutBeforeRow ==
  ASSUME NEW file \in Lines, NEW rows, InsertFits(file, rows),
         NEW n \in 1..Cardinality(Items(Parse(file), rows)),
         ItemList(Parse(file), rows)[n][2] # 0
  PROVE  LET b == Parse(file)
             r == ItemList(b, rows)[n][2]
             p == ItemPlace(b, rows, r)
         IN  /\ r \in 1..Len(rows) /\ ItemList(b, rows)[n] = RowItem(b, rows, r)
             /\ Cut(file, b, rows, n) = PlaceOf(file, b, rows[r])
             /\ Cut(file, b, rows, n - 1) \in EndOf(b, p)..Cut(file, b, rows, n)
             /\ Clean(file, Cut(file, b, rows, n - 1))
<1> DEFINE b == Parse(file)
           N == Len(b)
           S == Items(b, rows)
           asc == ItemPairs(b, rows)
           A == ItemList(b, rows)
           x == A[n]
           r == x[2]
           p == ItemPlace(b, rows, r)
           y == A[n - 1]
           c == PlaceOf(file, b, rows[r])
<1>1. OwnLines(b) /\ RowsFit(rows, b) /\ EndsLast(rows, b)  BY DEF InsertFits
<1>2. b \in Blocks /\ N \in Nat /\ Len(file) \in Nat  BY <1>1, Layout
<1>3. /\ IsFiniteSet(S) /\ Orders(asc, S)
      /\ \A u, v \in S : <<u, v>> \in asc <=> ItemBefore(u, v)
      /\ \A u \in S : /\ u[1] \in Nat /\ u[2] \in Nat
                      /\ IsBlockItem(u, b) \/ IsRowItem(u, b, rows)
      /\ \A j \in 1..N : BlockItem(j) \in S /\ BlockItem(j)[1] = j /\ BlockItem(j)[2] = 0
  BY <1>1, <1>2, ItemsAre
<1>4. Cardinality(S) \in Nat  BY <1>3, FS_CardinalityType
<1>5. /\ \A m \in 1..Cardinality(S) : A[m] \in S
      /\ \A m \in 1..Cardinality(S) : \A z \in S :
           <<z, A[m]>> \in asc => m > 1 /\ (z = A[m - 1] \/ <<z, A[m - 1]>> \in asc)
      /\ \A m \in 1..Cardinality(S) : m > 1 => <<A[m - 1], A[m]>> \in asc
  BY <1>3, Neighbours DEF ItemList
<1>6. n \in 1..Cardinality(S) /\ r # 0 /\ n \in Nat \ {0}  BY <1>4
<1>7. x \in S /\ r \in 1..Len(rows) /\ x = RowItem(b, rows, r) /\ x[1] = p /\ r \in Nat
  <2>1. x \in S  BY <1>5, <1>6
  <2>2. IsRowItem(x, b, rows)  BY <1>3, <1>6, <2>1 DEF IsBlockItem
  <2>3. r \in Nat  BY <1>3, <2>1
  <2>4. QED  BY <2>1, <2>2, <2>3 DEF IsRowItem
<1>8. Cut(file, b, rows, n) = c  BY <1>6 DEF Cut, CutOf
<1>9. Cut(file, b, rows, n - 1) = IF n = 1 THEN 0 ELSE CutOf(file, b, rows, y)
  BY <1>6 DEF Cut
<1>10. p \in 0..N /\ c \in EndOf(b, p)..Len(file) /\ Clean(file, c)
  BY <1>1, <1>7, PlaceIs
<1>11. EndOf(b, p) \in 0..Len(file) /\ Clean(file, EndOf(b, p))
  BY <1>1, <1>10, Layout
<1> HIDE DEF b, N, S, asc, A, x, y, p, r, c
<1>12. ASSUME p # 0
       PROVE  n > 1 /\ (BlockItem(p) = y \/ ItemBefore(BlockItem(p), y))
              /\ BlockItem(p)[1] = p
  <2> DEFINE z == BlockItem(p)
  <2>1. p \in 1..N  BY <1>2, <1>10, <1>12
  <2>2. z \in S /\ z[1] = p /\ z[2] = 0  BY <1>3, <2>1
  <2> HIDE DEF z
  <2>3. x[2] = r  BY DEF r
  <2>4. 0 < r  BY <1>6, <1>7
  <2>5. ItemBefore(z, x)  BY <1>7, <2>2, <2>3, <2>4 DEF ItemBefore
  <2>6. <<z, x>> \in asc  BY <1>3, <1>7, <2>2, <2>5
  <2>7. n > 1 /\ (z = y \/ <<z, y>> \in asc)
    BY <1>5, <1>6, <2>2, <2>6 DEF x, y
  <2>8. y \in S
    <3>1. n - 1 \in 1..Cardinality(S)  BY <1>4, <1>6, <2>7
    <3>2. QED  BY <1>5, <3>1 DEF y
  <2>9. QED  BY <1>3, <2>2, <2>7, <2>8 DEF z
<1>13. Cut(file, b, rows, n - 1) \in EndOf(b, p)..c /\ Clean(file, Cut(file, b, rows, n - 1))
  <2>1. CASE n = 1
    <3>1. p = 0
      <4>1. ~(n > 1)  BY <2>1
      <4>2. QED  BY <1>12, <4>1
    <3>2. EndOf(b, p) = 0  BY <3>1 DEF EndOf
    <3>3. 0 \in EndOf(b, p)..c  BY <1>2, <1>10, <3>2
    <3>4. QED  BY <1>9, <1>11, <2>1, <3>2, <3>3
  <2>2. CASE n # 1
    <3>1. n > 1 /\ n - 1 \in 1..Cardinality(S)  BY <1>4, <1>6, <2>2
    <3>2. y \in S /\ <<y, x>> \in asc  BY <1>5, <1>6, <3>1 DEF x, y
    <3>3. /\ y[1] \in Nat /\ y[2] \in Nat
          /\ IsBlockItem(y, b) \/ IsRowItem(y, b, rows)
      BY <1>3, <3>2
    <3>4. ItemBefore(y, x)  BY <1>3, <1>7, <3>2
    <3>5. y[1] = p
      <4>1. y[1] < p \/ y[1] = p  BY <1>7, <3>4 DEF ItemBefore
      <4>2. CASE p = 0  BY <3>3, <4>1, <4>2
      <4>3. CASE p # 0
        <5> DEFINE z == BlockItem(p)
        <5>1. z = y \/ z[1] < y[1] \/ z[1] = y[1]  BY <1>12, <4>3 DEF ItemBefore
        <5>2. z[1] = p  BY <1>12, <4>3
        <5> HIDE DEF z
        <5>3. p \in Nat  BY <1>2, <1>10
        <5>4. QED  BY <3>3, <4>1, <5>1, <5>2, <5>3
      <4>4. QED  BY <4>2, <4>3
    <3>6. CutOf(file, b, rows, y) \in EndOf(b, p)..c /\ Clean(file, CutOf(file, b, rows, y))
      <4>1. CASE IsBlockItem(y, b)
        <5>1. CutOf(file, b, rows, y) = EndOf(b, p)  BY <3>5, <4>1 DEF IsBlockItem, CutOf
        <5>2. EndOf(b, p) \in EndOf(b, p)..c  BY <1>2, <1>10, <1>11
        <5>3. QED  BY <1>11, <5>1, <5>2
      <4>2. CASE IsRowItem(y, b, rows)
        <5> DEFINE s == y[2]
                   d == PlaceOf(file, b, rows[s])
        <5>1. s # 0 /\ s \in 1..Len(rows) /\ p = ItemPlace(b, rows, s)
              /\ y = RowItem(b, rows, s)
          BY <3>5, <4>2 DEF IsRowItem
        <5>2. d \in EndOf(b, p)..Len(file) /\ Clean(file, d)
          BY <1>1, <5>1, PlaceIs DEF b
        <5>3. c > d \/ c = d
          <6>1. ItemBefore(RowItem(b, rows, s), RowItem(b, rows, r))
            BY <1>7, <3>4, <5>1
          <6>2. QED  BY <1>1, <1>7, <5>1, <6>1, RowsDescend DEF b, c
        <5>4. CutOf(file, b, rows, y) = d  BY <5>1 DEF CutOf
        <5> HIDE DEF d
        <5>5. d \in EndOf(b, p)..c  BY <1>2, <1>10, <1>11, <5>2, <5>3
        <5>6. QED  BY <5>2, <5>4, <5>5
      <4>3. QED  BY <3>3, <4>1, <4>2
    <3>7. QED  BY <1>9, <2>2, <3>6
  <2>3. QED  BY <2>1, <2>2
<1>14. QED  BY <1>7, <1>8, <1>13 DEF b, A, x, r, p, c

(* The last item ends behind the last block. *)
LEMMA CutLast ==
  ASSUME NEW file \in Lines, NEW rows, InsertFits(file, rows)
  PROVE  LET b == Parse(file)
             c == Cut(file, b, rows, Cardinality(Items(b, rows)))
         IN  c \in EndOf(b, Len(b))..Len(file) /\ Clean(file, c)
<1> DEFINE b == Parse(file)
           N == Len(b)
           S == Items(b, rows)
           asc == ItemPairs(b, rows)
           A == ItemList(b, rows)
           M == Cardinality(S)
           x == A[M]
           c == Cut(file, b, rows, M)
<1>1. OwnLines(b) /\ RowsFit(rows, b) /\ EndsLast(rows, b)  BY DEF InsertFits
<1>2. b \in Blocks /\ N \in Nat /\ Len(file) \in Nat  BY <1>1, Layout
<1>3. /\ IsFiniteSet(S) /\ Orders(asc, S)
      /\ \A u, v \in S : <<u, v>> \in asc <=> ItemBefore(u, v)
      /\ \A u \in S : /\ u[1] \in Nat /\ u[2] \in Nat
                      /\ IsBlockItem(u, b) \/ IsRowItem(u, b, rows)
      /\ \A j \in 1..N : BlockItem(j) \in S /\ BlockItem(j)[1] = j /\ BlockItem(j)[2] = 0
  BY <1>1, <1>2, ItemsAre
<1>4. M \in Nat  BY <1>3, FS_CardinalityType
<1>5. /\ \A m \in 1..M : A[m] \in S
      /\ \A z \in S : z = A[M] \/ <<z, A[M]>> \in asc
  BY <1>3, Neighbours DEF ItemList
<1>6. N \in 0..N  BY <1>2
<1>7. EndOf(b, N) \in 0..Len(file) /\ Clean(file, EndOf(b, N))  BY <1>1, <1>6, Layout
<1>8. c = IF M = 0 THEN 0 ELSE CutOf(file, b, rows, x)  BY DEF Cut
<1>9. M = 0 => S = {}  BY <1>3, FS_EmptySet
<1> HIDE DEF b, N, S, asc, A, M, x, c
<1>10. CASE M = 0
  <2>1. N = 0
    <3>1. ~(1 \in 1..N)  BY <1>3, <1>9, <1>10
    <3>2. QED  BY <1>2, <3>1
  <2>2. EndOf(b, N) = 0  BY <2>1 DEF EndOf
  <2>3. 0 \in EndOf(b, N)..Len(file)  BY <1>2, <2>2
  <2>4. QED  BY <1>7, <1>8, <1>10, <2>2, <2>3 DEF b, N, S, M, c
<1>11. CASE M # 0
  <2>1. M \in 1..M  BY <1>4, <1>11
  <2>2. x \in S  BY <1>5, <2>1 DEF x
  <2>3. x[1] \in Nat /\ x[2] \in Nat /\ (IsBlockItem(x, b) \/ IsRowItem(x, b, rows))
    BY <1>3, <2>2
  <2>4. N <= x[1]
    <3>1. CASE N = 0  BY <2>3, <3>1
    <3>2. CASE N # 0
      <4> DEFINE z == BlockItem(N)
      <4>1. N \in 1..N  BY <1>2, <3>2
      <4>2. z \in S /\ z[1] = N  BY <1>3, <4>1
      <4> HIDE DEF z
      <4>3. z = x \/ ItemBefore(z, x)  BY <1>3, <1>5, <2>2, <4>2 DEF x
      <4>4. z = x \/ z[1] < x[1] \/ z[1] = x[1]  BY <4>3 DEF ItemBefore
      <4>5. QED  BY <1>2, <2>3, <4>2, <4>4
    <3>3. QED  BY <3>1, <3>2
  <2>5. CutOf(file, b, rows, x) \in EndOf(b, N)..Len(file) /\ Clean(file, CutOf(file, b, rows, x))
    <3>1. CASE IsBlockItem(x, b)
      <4>1. x[1] \in 1..N /\ x[2] = 0  BY <3>1 DEF IsBlockItem, N
      <4>2. x[1] = N  BY <1>2, <2>3, <2>4, <4>1
      <4>3. CutOf(file, b, rows, x) = EndOf(b, N)  BY <4>1, <4>2 DEF CutOf
      <4>4. EndOf(b, N) \in EndOf(b, N)..Len(file)  BY <1>2, <1>7
      <4>5. QED  BY <1>7, <4>3, <4>4
    <3>2. CASE IsRowItem(x, b, rows)
      <4> DEFINE r == x[2]
                 d == PlaceOf(file, b, rows[r])
      <4>1. r # 0 /\ r \in 1..Len(rows) /\ x[1] = ItemPlace(b, rows, r)
        BY <3>2 DEF IsRowItem
      <4>2. /\ x[1] \in 0..N /\ d \in EndOf(b, x[1])..Len(file) /\ Clean(file, d)
        BY <1>1, <4>1, PlaceIs DEF b, N
      <4>3. x[1] = N  BY <1>2, <2>3, <2>4, <4>2
      <4>4. CutOf(file, b, rows, x) = d  BY <4>1 DEF CutOf
      <4>5. QED  BY <4>2, <4>3, <4>4
    <3>3. QED  BY <2>3, <3>1, <3>2
  <2>6. QED  BY <1>8, <1>11, <2>5 DEF b, N, S, M, c
<1>12. QED  BY <1>10, <1>11

(* What the file should say afterwards, item by item. *)
LEMMA ExpectInsertedIs ==
  ASSUME NEW file \in Lines, NEW blocks \in Blocks, NEW rows, RowsFit(rows, blocks)
  PROVE  LET exp == ExpectInserted(blocks, rows)
             M == Cardinality(Items(blocks, rows))
         IN  /\ exp \in Seq(Sayings) /\ Len(exp) = M /\ M \in Nat
             /\ \A n \in 1..M : exp[n] = ItemSays(blocks, rows, ItemList(blocks, rows)[n])
<1> DEFINE exp == ExpectInserted(blocks, rows)
           S == Items(blocks, rows)
           asc == ItemPairs(blocks, rows)
           A == ItemList(blocks, rows)
           M == Cardinality(S)
           says(n) == ItemSays(blocks, rows, A[n])
<1>1. /\ IsFiniteSet(S) /\ Orders(asc, S)
      /\ \A x \in S : IsBlockItem(x, blocks) \/ IsRowItem(x, blocks, rows)
  BY ItemsAre
<1>2. A \in Seq(S) /\ Len(A) = M /\ M \in Nat  BY <1>1, SortedLists DEF ItemList
<1>3. DOMAIN A = 1..M /\ \A n \in 1..M : A[n] \in S
  <2> HIDE DEF A, S
  <2>1. DOMAIN A = 1..Len(A)  BY <1>2, LenProperties
  <2>2. \A n \in 1..Len(A) : A[n] \in S  BY <1>2, ElementOfSeq
  <2>3. QED  BY <1>2, <2>1, <2>2
<1>4. exp = [n \in DOMAIN A |-> says(n)]
  BY DEF ExpectInserted, ItemList, Items, ItemPairs, BlockItem, RowItem, ItemPlace, ItemSays
<1>5. Outline(blocks) \in Seq(Sayings) /\ Len(Outline(blocks)) = Len(blocks)
  BY OutlineIs
<1> HIDE DEF exp, S, asc, A, M
<1>6. ASSUME NEW n \in 1..M PROVE says(n) \in Sayings
  <2> DEFINE x == A[n]
  <2>1. x \in S  BY <1>3
  <2>2. IsBlockItem(x, blocks) \/ IsRowItem(x, blocks, rows)  BY <1>1, <2>1
  <2> HIDE DEF x
  <2>3. CASE IsBlockItem(x, blocks)
    <3>1. x[2] = 0 /\ x[1] \in 1..Len(blocks)  BY <2>3 DEF IsBlockItem
    <3> DEFINE o == Outline(blocks)
    <3> HIDE DEF o
    <3>2. o[x[1]] \in Sayings  BY <1>5, <3>1, ElementOfSeq DEF o
    <3>3. QED  BY <3>1, <3>2 DEF ItemSays, x, o
  <2>4. CASE IsRowItem(x, blocks, rows)
    <3> DEFINE row == rows[x[2]]
    <3>1. x[2] # 0 /\ x[2] \in 1..Len(rows)  BY <2>4 DEF IsRowItem
    <3>2. row \in RowSet  BY <3>1, RowFields
    <3> HIDE DEF row
    <3>3. Writable(row.kind) /\ row.text \in Texts  BY <3>2 DEF RowSet, Writable
    <3>4. Said(row.kind, <<row.text>>) \in Sayings  BY <3>3, RenderedTold
    <3>5. says(n) = Said(row.kind, <<row.text>>)  BY <3>1 DEF ItemSays, Said, x, row
    <3>6. QED  BY <3>4, <3>5
  <2>5. QED  BY <2>2, <2>3, <2>4
<1> HIDE DEF says
<1>7. exp \in Seq(Sayings) /\ Len(exp) = M /\ \A n \in 1..M : exp[n] = says(n)
  <2>1. exp = [n \in 1..M |-> says(n)]  BY <1>3, <1>4
  <2>2. QED  BY <1>2, <1>6, <2>1
<1>8. QED  BY <1>2, <1>7 DEF exp, S, M, says, A

(* The number of a row's item. *)
ItemNumber(blocks, rows, r) ==
  Cardinality(Preceding(Items(blocks, rows), ItemPairs(blocks, rows),
                        RowItem(blocks, rows, r))) + 1

(* The rows are patched from the last of these positions to the first. *)
LEMMA ItemNumbers ==
  ASSUME NEW file \in Lines, NEW rows, InsertFits(file, rows)
  PROVE  LET b == Parse(file)
             M == Cardinality(Items(b, rows))
             pos == [r \in DOMAIN rows |-> ItemNumber(b, rows, r)]
         IN  /\ Descends(DOMAIN rows, RowPairs(file, b, rows), M, pos)
             /\ \A r \in 1..Len(rows) :
                  /\ pos[r] \in 1..M
                  /\ ItemList(b, rows)[pos[r]] = RowItem(b, rows, r)
             /\ \A n \in 1..M : \A r \in 1..Len(rows) :
                  ItemList(b, rows)[n] = RowItem(b, rows, r) => pos[r] = n
<1> DEFINE b == Parse(file)
           S == Items(b, rows)
           asc == ItemPairs(b, rows)
           A == ItemList(b, rows)
           M == Cardinality(S)
           C(x) == Cardinality(Preceding(S, asc, x))
           I(r) == RowItem(b, rows, r)
           pos == [r \in DOMAIN rows |-> ItemNumber(b, rows, r)]
           before == RowPairs(file, b, rows)
           Place(r) == PlaceOf(file, b, rows[r])
<1>1. OwnLines(b) /\ RowsFit(rows, b) /\ EndsLast(rows, b)  BY DEF InsertFits
<1>2. b \in Blocks  BY <1>1, Layout
<1>3. /\ IsFiniteSet(S) /\ Orders(asc, S)
      /\ \A u, v \in S : <<u, v>> \in asc <=> ItemBefore(u, v)
      /\ \A r \in 1..Len(rows) : I(r) \in S /\ I(r)[2] = r
  BY <1>1, <1>2, ItemsAre
<1>4. DOMAIN rows = 1..Len(rows)  BY <1>1, <1>2, RowFields
<1>5. /\ M \in Nat /\ \A n \in 1..M : C(A[n]) = n - 1
      /\ \A x \in S : C(x) \in 0..M - 1 /\ A[C(x) + 1] = x
  BY <1>3, SortedLists DEF ItemList
<1>6. \A x, y \in S : <<y, x>> \in asc => C(y) < C(x)  BY <1>3, PrecedingGrows
<1>7. /\ IsFiniteSet(DOMAIN rows) /\ Orders(before, DOMAIN rows)
      /\ \A x, y \in DOMAIN rows :
           <<x, y>> \in before <=> Place(x) > Place(y) \/ (Place(x) = Place(y) /\ x > y)
  BY <1>1, <1>2, InsertOrderIs
<1>8. \A x, y \in 1..Len(rows) :
        (Place(x) > Place(y) \/ (Place(x) = Place(y) /\ x > y)) <=> ItemBefore(I(y), I(x))
  BY <1>1, RowsDescend
<1>9. \A r \in 1..Len(rows) : pos[r] = C(I(r)) + 1  BY <1>4 DEF ItemNumber
<1>10. pos = [r \in 1..Len(rows) |-> pos[r]]  BY <1>4
<1> HIDE DEF b, S, asc, A, M, C, I, pos, before, Place
<1>11. ASSUME NEW r \in 1..Len(rows)
       PROVE  pos[r] \in 1..M /\ A[pos[r]] = I(r) /\ C(I(r)) \in Nat
  <2>1. C(I(r)) \in 0..M - 1 /\ A[C(I(r)) + 1] = I(r)  BY <1>3, <1>5
  <2>2. C(I(r)) + 1 \in 1..M  BY <1>5, <2>1
  <2>3. QED  BY <1>5, <1>9, <2>1, <2>2
<1>12. ASSUME NEW n \in 1..M, NEW r \in 1..Len(rows), A[n] = I(r)
       PROVE  pos[r] = n
  <2>1. C(I(r)) = n - 1  BY <1>5, <1>12
  <2>2. (n - 1) + 1 = n  BY <1>5
  <2>3. QED  BY <1>9, <2>1, <2>2
<1>13. ASSUME NEW x \in 1..Len(rows), NEW y \in 1..Len(rows)
       PROVE  <<x, y>> \in before <=> pos[y] < pos[x]
  <2>1. <<x, y>> \in before <=> <<I(y), I(x)>> \in asc  BY <1>3, <1>4, <1>7, <1>8
  <2>2. I(x) \in S /\ I(y) \in S /\ C(I(x)) \in Nat /\ C(I(y)) \in Nat  BY <1>3, <1>11
  <2>3. <<I(y), I(x)>> \in asc => C(I(y)) < C(I(x))  BY <1>6, <2>2
  <2>4. <<I(x), I(y)>> \in asc => C(I(x)) < C(I(y))  BY <1>6, <2>2
  <2>5. I(x) = I(y) \/ <<I(x), I(y)>> \in asc \/ <<I(y), I(x)>> \in asc
    BY <1>3, <2>2 DEF Orders
  <2>6. <<I(y), I(x)>> \in asc <=> C(I(y)) < C(I(x))  BY <2>2, <2>3, <2>4, <2>5
  <2>7. pos[x] = C(I(x)) + 1 /\ pos[y] = C(I(y)) + 1  BY <1>9
  <2>8. QED  BY <2>1, <2>2, <2>6, <2>7
<1>14. Descends(DOMAIN rows, before, M, pos)
  <2>1. pos \in [1..Len(rows) -> 1..M]  BY <1>10, <1>11
  <2>2. QED  BY <1>4, <1>5, <1>7, <1>13, <2>1 DEF Descends
<1>15. QED  BY <1>11, <1>12, <1>14 DEF b, S, A, M, I, pos, before

(* A row goes where it says, and stays behind the item before. *)
LEMMA RowStep ==
  ASSUME NEW file \in Lines, NEW rows, InsertFits(file, rows),
         NEW n \in 1..Cardinality(Items(Parse(file), rows)), NEW r \in 1..Len(rows),
         ItemList(Parse(file), rows)[n] = RowItem(Parse(file), rows, r),
         NEW l, NEW e, Standing(l, file, Cut(file, Parse(file), rows, n), e)
  PROVE  LET b == Parse(file)
             row == rows[r]
         IN  Standing(ApplyInsert(l, PlaceOf(file, b, row), row), file,
                      Cut(file, b, rows, n - 1),
                      <<ItemSays(b, rows, ItemList(b, rows)[n])>> \o e)
<1> DEFINE b == Parse(file)
           row == rows[r]
           x == ItemList(b, rows)[n]
           c == PlaceOf(file, b, row)
           p == ItemPlace(b, rows, r)
           d == Cut(file, b, rows, n - 1)
           m == ApplyInsert(l, c, row)
           se == <<Said(row.kind, <<row.text>>)>> \o e
<1>1. OwnLines(b) /\ RowsFit(rows, b) /\ EndsLast(rows, b)  BY DEF InsertFits
<1>2. b \in Blocks /\ Len(file) \in Nat /\ Len(b) \in Nat  BY <1>1, Layout
<1>3. row \in RowSet /\ r \in Nat \ {0}  BY <1>1, <1>2, RowFields
<1>4. x[2] = r  BY DEF RowItem
<1>5. x[2] # 0  BY <1>3, <1>4
<1>6. Cut(file, b, rows, n) = c /\ d \in EndOf(b, p)..c /\ Clean(file, d)
  BY <1>4, <1>5, CutBeforeRow
<1>7. /\ p \in 0..Len(b) /\ c \in EndOf(b, p)..Len(file) /\ c \in 0..Len(file)
      /\ p < Len(b) => c < b[p + 1].first
  BY <1>1, PlaceIs
<1>8. ItemSays(b, rows, x) = Said(row.kind, <<row.text>>)
  BY <1>4, <1>5 DEF ItemSays, Said
<1>9. Standing(l, file, c, e)  BY <1>6
<1> HIDE DEF b, row, x, c, p, d
<1>10. Standing(m, file, c, se)  BY <1>3, <1>7, <1>9, InsertOne
<1> HIDE DEF m, se
<1>11. Standing(m, file, d, se)  BY <1>1, <1>6, <1>7, <1>10, GapMoves DEF b
<1>12. QED  BY <1>8, <1>11 DEF m, se, b, row, x, c, d

(* A block stays, behind the item before. *)
LEMMA BlockStep ==
  ASSUME NEW file \in Lines, NEW rows, InsertFits(file, rows),
         NEW n \in 1..Cardinality(Items(Parse(file), rows)),
         ItemList(Parse(file), rows)[n][2] = 0,
         NEW l, NEW e, Standing(l, file, Cut(file, Parse(file), rows, n), e)
  PROVE  LET b == Parse(file)
         IN  Standing(l, file, Cut(file, b, rows, n - 1),
                      <<ItemSays(b, rows, ItemList(b, rows)[n])>> \o e)
<1> DEFINE b == Parse(file)
           x == ItemList(b, rows)[n]
           k == x[1]
<1>1. OwnLines(b)  BY DEF InsertFits
<1>2. /\ k \in 1..Len(b) /\ Cut(file, b, rows, n) = EndOf(b, k)
      /\ Cut(file, b, rows, n - 1) = EndOf(b, k - 1)
  BY CutBeforeBlock
<1>3. ItemSays(b, rows, x) = Outline(b)[k]  BY DEF ItemSays
<1>4. Standing(l, file, EndOf(b, k), e)  BY <1>2
<1> HIDE DEF x, k
<1>5. Standing(l, file, EndOf(b, k - 1), <<Outline(b)[k]>> \o e)
  BY <1>1, <1>2, <1>4, KeepOne
<1>6. QED  BY <1>2, <1>3, <1>5 DEF x

(* An INSERT puts every row where it says and changes nothing else. *)
LEMMA InsertedExact ==
  ASSUME NEW file \in Lines, NEW rows, InsertFits(file, rows)
  PROVE  Outline(Parse(Inserted(file, Parse(file), rows))) =
           ExpectInserted(Parse(file), rows)
<1> DEFINE b == Parse(file)
           S == DOMAIN rows
           M == Cardinality(Items(b, rows))
           A == ItemList(b, rows)
           exp == ExpectInserted(b, rows)
           before == RowPairs(file, b, rows)
           order == InsertOrder(file, b, rows)
           pos == [r \in S |-> ItemNumber(b, rows, r)]
           cut(n) == Cut(file, b, rows, n)
           D == {p \in (0..M) \X Lines : Standing(p[2], file, cut(p[1]), Part(exp, p[1], M))}
           C == Cardinality(S)
<1>1. OwnLines(b) /\ RowsFit(rows, b) /\ EndsLast(rows, b)  BY DEF InsertFits
<1>2. b \in Blocks /\ Len(b) \in Nat /\ Len(file) \in Nat /\ Plain(file)  BY <1>1, Layout
<1>3. /\ exp \in Seq(Sayings) /\ Len(exp) = M /\ M \in Nat
      /\ \A n \in 1..M : exp[n] = ItemSays(b, rows, A[n])
  BY <1>1, <1>2, ExpectInsertedIs
<1>4. /\ Descends(S, before, M, pos)
      /\ \A r \in 1..Len(rows) : pos[r] \in 1..M /\ A[pos[r]] = RowItem(b, rows, r)
      /\ \A n \in 1..M : \A r \in 1..Len(rows) : A[n] = RowItem(b, rows, r) => pos[r] = n
  BY ItemNumbers
<1>5. C \in Nat /\ order = Sorted(S, before) /\ (\A n \in 1..C : order[n] \in S)
      /\ S = 1..Len(rows)
  BY <1>1, <1>2, InsertOrderIs, RowFields
<1>6. PICK to : InsertsTo(to, file, b, rows) /\ Inserted(file, b, rows) = to[C]
  BY <1>1, <1>2, InsertedWalks
<1>7. /\ to[0] = file /\ \A n \in 0..C : to[n] \in Lines
      /\ \A n \in 1..C :
           to[n] = ApplyInsert(to[n - 1], PlaceOf(file, b, rows[order[n]]), rows[order[n]])
  BY <1>6 DEF InsertsTo
<1>8. ASSUME NEW n, NEW l
      PROVE  <<n, l>> \in D <=> /\ n \in 0..M /\ l \in Lines
                                /\ Standing(l, file, cut(n), Part(exp, n, M))
  OBVIOUS
<1>9. \A n \in 1..M : /\ A[n][2] = 0 \/ (\E r \in 1..Len(rows) : A[n] = RowItem(b, rows, r))
  <2>1. /\ IsFiniteSet(Items(b, rows)) /\ Orders(ItemPairs(b, rows), Items(b, rows))
        /\ \A u \in Items(b, rows) : IsBlockItem(u, b) \/ IsRowItem(u, b, rows)
    BY <1>1, <1>2, ItemsAre
  <2>2. \A n \in 1..M : A[n] \in Items(b, rows)  BY <2>1, Neighbours DEF ItemList
  <2> HIDE DEF A, M, b
  <2>3. ASSUME NEW n \in 1..M
        PROVE  A[n][2] = 0 \/ (\E r \in 1..Len(rows) : A[n] = RowItem(b, rows, r))
    <3>1. IsBlockItem(A[n], b) \/ IsRowItem(A[n], b, rows)  BY <2>1, <2>2
    <3>2. QED  BY <3>1 DEF IsBlockItem, IsRowItem
  <2>4. QED  BY <2>3
<1> HIDE DEF D, exp, cut
<1>10. ASSUME NEW n \in 1..M
       PROVE  <<exp[n]>> \o Part(exp, n, M) = Part(exp, n - 1, M) /\ n - 1 \in 0..M
  <2> HIDE DEF M
  <2>1. n \in 1..Len(exp)  BY <1>3
  <2>2. <<exp[n]>> \o Part(exp, n, Len(exp)) = Part(exp, n - 1, Len(exp))
    BY <1>3, <2>1, PartFirst
  <2>3. QED  BY <1>3, <2>2
<1>11. <<M, to[0]>> \in D
  <2>1. Standing(file, file, Len(file), <<>>)  BY StandingStart
  <2>2. cut(M) \in EndOf(b, Len(b))..Len(file) /\ Clean(file, cut(M))
    BY CutLast DEF cut
  <2>3. Len(b) \in 0..Len(b) /\ ~(Len(b) < Len(b))  BY <1>2
  <2>4. Standing(file, file, cut(M), <<>>)
    <3> DEFINE i == cut(M)
               q == Len(file)
               e == <<>>
               k == Len(b)
    <3>1. EndOf(b, k) \in 0..Len(file)  BY <1>1, <2>3, Layout
    <3>2. /\ k \in 0..Len(b) /\ ~(k < Len(b))
          /\ q \in EndOf(b, k)..Len(file) /\ i \in EndOf(b, k)..q
      BY <1>2, <2>2, <2>3, <3>1
    <3>3. Standing(file, file, q, e) /\ Clean(file, i)  BY <2>1, <2>2
    <3> HIDE DEF i, q, e, k
    <3>4. Standing(file, file, i, e)  BY <1>1, <3>2, <3>3, GapMoves
    <3>5. QED  BY <3>4 DEF i, e
  <2>5. Part(exp, M, M) = <<>>
    <3> HIDE DEF M
    <3>1. M \in 0..Len(exp) /\ M \in M..Len(exp)  BY <1>3
    <3>2. QED  BY <1>3, <3>1, Parts
  <2>6. M \in 0..M  BY <1>3
  <2>7. QED  BY <1>7, <1>8, <2>4, <2>5, <2>6
<1>12. ASSUME NEW n \in 1..M, NEW l, <<n, l>> \in D, \A x \in S : pos[x] # n
       PROVE  <<n - 1, l>> \in D
  <2>1. l \in Lines /\ Standing(l, file, cut(n), Part(exp, n, M))  BY <1>8, <1>12
  <2>2. A[n][2] = 0
    <3> HIDE DEF pos, A, M, b, S
    <3>1. ~(\E r \in 1..Len(rows) : A[n] = RowItem(b, rows, r))  BY <1>4, <1>5, <1>12
    <3>2. QED  BY <1>9, <3>1
  <2>3. Standing(l, file, cut(n - 1), <<ItemSays(b, rows, A[n])>> \o Part(exp, n, M))
    BY <2>1, <2>2, BlockStep DEF cut
  <2>4. QED  BY <1>3, <1>8, <1>10, <2>1, <2>3
<1>13. ASSUME NEW m \in 1..C, <<pos[order[m]], to[m - 1]>> \in D
       PROVE  <<pos[order[m]] - 1, to[m]>> \in D
  <2> DEFINE r == order[m]
             n == pos[r]
             l == to[m - 1]
  <2>1. r \in 1..Len(rows)  BY <1>5
  <2>2. n \in 1..M /\ A[n] = RowItem(b, rows, r)
    <3> HIDE DEF pos, A, M, b, r
    <3>1. QED  BY <1>4, <2>1
  <2>3. to[m] = ApplyInsert(l, PlaceOf(file, b, rows[r]), rows[r])  BY <1>7
  <2>4. to[m] \in Lines  BY <1>5, <1>7
  <2>5. <<n, l>> \in D  BY <1>13
  <2> HIDE DEF r, n, l, pos, order
  <2>6. Standing(l, file, cut(n), Part(exp, n, M))  BY <1>8, <2>5
  <2>7. Standing(to[m], file, cut(n - 1), <<ItemSays(b, rows, A[n])>> \o Part(exp, n, M))
    BY <2>1, <2>2, <2>3, <2>6, RowStep DEF cut
  <2>8. <<n - 1, to[m]>> \in D  BY <1>3, <1>8, <1>10, <2>2, <2>4, <2>7
  <2>9. QED  BY <2>8 DEF n, r
<1>14. Patching(S, before, M, pos, to, D)
  <2> HIDE DEF S, before, M, pos, order, A, b
  <2>1. QED  BY <1>5, <1>11, <1>12, <1>13 DEF Patching, C
<1>15. <<0, to[C]>> \in D
  <2> HIDE DEF S, before, M, pos, order, A, b
  <2>1. QED  BY <1>4, <1>14, Backward DEF C
<1>16. Standing(to[C], file, 0, Part(exp, 0, M))
  <2>1. cut(0) = 0  BY DEF cut, Cut
  <2>2. QED  BY <1>8, <1>15, <2>1
<1>17. Part(exp, 0, M) = exp
  <2> HIDE DEF M
  <2>1. 0 \in 0..Len(exp) /\ Len(exp) \in 0..Len(exp)  BY <1>3
  <2>2. QED  BY <1>3, <2>1, Parts
<1>18. Told(to[C]) = exp  BY <1>16, <1>17, StandingDone
<1>19. QED  BY <1>6, <1>18 DEF Told, exp

-----------------------------------------------------------------------------
(* The inductive invariant.                                                *)

StatementOf(kind, rows, todo, doc, original, patched, step) ==
  [kind |-> kind, rows |-> rows, todo |-> todo, doc |-> doc,
   original |-> original, patched |-> patched, step |-> step]

IsStatement(s) ==
  s = StatementOf(s.kind, s.rows, s.todo, s.doc, s.original, s.patched, s.step)

(* There is a document at hand exactly while it is written, and it has a   *)
(* source file.                                                            *)
AtHand ==
  /\ IsStatement(stmt)
  /\ stmt.step \in {"none", "write", "replace"}
  /\ IF stmt.step = "none" THEN stmt.doc = NoDoc ELSE stmt.doc \in Docs \ Sourceless
  /\ stmt.todo \subseteq Docs

Shapes ==
  /\ files = [d \in Docs |-> files[d]]
  /\ docs = [d \in Docs |-> docs[d]]
  /\ saved.docs = [d \in Docs |-> saved.docs[d]]
  /\ tx # NoTx => tx.docs = [d \in Docs |-> tx.docs[d]]
  /\ known \subseteq Docs

(* What was written is what the document will be replaced by, unless an    *)
(* editor was faster; but then the user knows.                             *)
WrittenIsPatched ==
  stmt.step = "replace" => files[stmt.doc] = stmt.patched \/ stmt.doc \in known

(* A document without a source file stays as it is, so that a rollback     *)
(* need not name it.                                                       *)
SourcelessStay ==
  tx # NoTx => \A d \in Sourceless : tx.docs[d] = docs[d]

Inv ==
  AtHand /\ Shapes /\ WrittenIsPatched /\ SourcelessStay /\ StaleOnlyWhenKnown

-----------------------------------------------------------------------------
(* Statements as values.                                                   *)

LEMMA FieldsAre ==
  ASSUME NEW k, NEW r, NEW t, NEW d, NEW o, NEW p, NEW st
  PROVE  LET s == StatementOf(k, r, t, d, o, p, st)
         IN  /\ IsStatement(s)
             /\ s.kind = k /\ s.rows = r /\ s.todo = t /\ s.doc = d
             /\ s.original = o /\ s.patched = p /\ s.step = st
BY DEF StatementOf, IsStatement

LEMMA IdleIs ==
  /\ IsStatement(Idle) /\ Idle.step = "none" /\ Idle.doc = NoDoc
  /\ Idle.todo = {} /\ Idle.kind = "none"
  /\ Idle.original = <<>> /\ Idle.patched = <<>>
BY DEF Idle, IsStatement, StatementOf

(* What is matched leaves the document at hand as it is. *)
WithRows(s, kind, rows, todo) ==
  [s EXCEPT !.kind = kind, !.rows = rows, !.todo = todo]

LEMMA RowsGiven ==
  ASSUME NEW s, IsStatement(s), NEW kind, NEW rows, NEW todo
  PROVE  LET t == WithRows(s, kind, rows, todo)
         IN  /\ IsStatement(t) /\ t.step = s.step /\ t.doc = s.doc
             /\ t.todo = todo /\ t.kind = kind /\ t.rows = rows
             /\ t.original = s.original /\ t.patched = s.patched
<1> DEFINE a == [s EXCEPT !.kind = kind]
           b == [a EXCEPT !.rows = rows]
           c == [b EXCEPT !.todo = todo]
<1>1. a = StatementOf(kind, s.rows, s.todo, s.doc, s.original, s.patched, s.step)
  BY DEF IsStatement, StatementOf
<1> HIDE DEF a
<1>2. b = StatementOf(kind, rows, s.todo, s.doc, s.original, s.patched, s.step)
  BY <1>1 DEF StatementOf
<1> HIDE DEF b
<1>3. c = StatementOf(kind, rows, todo, s.doc, s.original, s.patched, s.step)
  BY <1>2 DEF StatementOf
<1> HIDE DEF c
<1>4. WithRows(s, kind, rows, todo) = c
  BY Zenon DEF a, b, c, WithRows
<1> QED BY <1>3, <1>4, FieldsAre

(* A document is taken to be patched. *)
WithPatch(s, todo, d, step, text, new) ==
  [s EXCEPT !.todo = todo, !.doc = d, !.step = step, !.original = text,
            !.patched = new]

LEMMA PatchGiven ==
  ASSUME NEW s, IsStatement(s), NEW todo, NEW d, NEW step, NEW text, NEW new
  PROVE  LET t == WithPatch(s, todo, d, step, text, new)
         IN  /\ IsStatement(t) /\ t.step = step /\ t.doc = d
             /\ t.todo = todo /\ t.kind = s.kind /\ t.rows = s.rows
             /\ t.original = text /\ t.patched = new
<1> DEFINE a == [s EXCEPT !.todo = todo]
           b == [a EXCEPT !.doc = d]
           c == [b EXCEPT !.step = step]
           e == [c EXCEPT !.original = text]
           f == [e EXCEPT !.patched = new]
<1>1. a = StatementOf(s.kind, s.rows, todo, s.doc, s.original, s.patched, s.step)
  BY DEF IsStatement, StatementOf
<1> HIDE DEF a
<1>2. b = StatementOf(s.kind, s.rows, todo, d, s.original, s.patched, s.step)
  BY <1>1 DEF StatementOf
<1> HIDE DEF b
<1>3. c = StatementOf(s.kind, s.rows, todo, d, s.original, s.patched, step)
  BY <1>2 DEF StatementOf
<1> HIDE DEF c
<1>4. e = StatementOf(s.kind, s.rows, todo, d, text, s.patched, step)
  BY <1>3 DEF StatementOf
<1> HIDE DEF e
<1>5. f = StatementOf(s.kind, s.rows, todo, d, text, new, step)
  BY <1>4 DEF StatementOf
<1> HIDE DEF f
<1>6. WithPatch(s, todo, d, step, text, new) = f
  BY Zenon DEF a, b, c, e, f, WithPatch
<1> QED BY <1>5, <1>6, FieldsAre

(* The document at hand is done. *)
WithoutDoc(s) == [s EXCEPT !.step = "none", !.doc = NoDoc]

LEMMA DoneGiven ==
  ASSUME NEW s, IsStatement(s)
  PROVE  LET t == WithoutDoc(s)
         IN  /\ IsStatement(t) /\ t.step = "none" /\ t.doc = NoDoc
             /\ t.todo = s.todo /\ t.kind = s.kind /\ t.rows = s.rows
             /\ t.original = s.original /\ t.patched = s.patched
<1> DEFINE a == [s EXCEPT !.step = "none"]
           b == [a EXCEPT !.doc = NoDoc]
<1>1. a = StatementOf(s.kind, s.rows, s.todo, s.doc, s.original, s.patched, "none")
  BY DEF IsStatement, StatementOf
<1> HIDE DEF a
<1>2. b = StatementOf(s.kind, s.rows, s.todo, NoDoc, s.original, s.patched, "none")
  BY <1>1 DEF StatementOf
<1> HIDE DEF b
<1>3. WithoutDoc(s) = b
  BY Zenon DEF a, b, WithoutDoc
<1> QED BY <1>2, <1>3, FieldsAre

(* The file of the document at hand is written. *)
WithFile(s) == [s EXCEPT !.step = "replace"]

LEMMA WrittenGiven ==
  ASSUME NEW s, IsStatement(s)
  PROVE  LET t == WithFile(s)
         IN  /\ IsStatement(t) /\ t.step = "replace" /\ t.doc = s.doc
             /\ t.todo = s.todo /\ t.kind = s.kind /\ t.rows = s.rows
             /\ t.original = s.original /\ t.patched = s.patched
<1>1. WithFile(s)
        = StatementOf(s.kind, s.rows, s.todo, s.doc, s.original, s.patched,
                      "replace")
  BY DEF IsStatement, StatementOf, WithFile
<1> QED BY <1>1, FieldsAre

(* A statement begins without a document at hand.                          *)
LEMMA StatementIs ==
  ASSUME NEW kind, NEW rows, NEW none
  PROVE  LET s == Statement(kind, rows, none)
         IN  /\ IsStatement(s) /\ s.step = "none" /\ s.doc = NoDoc
             /\ s.todo \subseteq Docs /\ s.kind = kind /\ s.rows = rows
             /\ s.original = <<>> /\ s.patched = <<>>
<1> DEFINE todo == {d \in Docs : rows[d] # none}
<1>1. Statement(kind, rows, none) = WithRows(Idle, kind, rows, todo)
  BY Zenon DEF Statement, WithRows
<1>2. todo \subseteq Docs
  OBVIOUS
<1> HIDE DEF todo
<1> QED BY <1>1, <1>2, IdleIs, RowsGiven

LEMMA StartedIs ==
  ASSUME NEW s \in Matched \cup UNION {Collected(n) : n \in 1..MaxRows}
  PROVE  /\ IsStatement(s) /\ s.step = "none" /\ s.doc = NoDoc
         /\ s.todo \subseteq Docs
<1>1. CASE s \in Matched
  <2>1. PICK kind, rows : s = Statement(kind, rows, {})
    BY <1>1 DEF Matched
  <2> QED BY <2>1, StatementIs
<1>2. CASE \E n \in 1..MaxRows : s \in Collected(n)
  <2>1. PICK n \in 1..MaxRows : s \in Collected(n)
    BY <1>2
  <2>2. \E places, kinds : s = InsertOf(places, kinds)
    BY <2>1 DEF Collected
  <2> QED BY <2>2, StatementIs DEF InsertOf
<1> QED BY <1>1, <1>2

-----------------------------------------------------------------------------
(* Who is told.                                                            *)

(* A step keeps the property, if every document that it leaves out of step *)
(* was so before, is told of, or is at hand.                               *)
LEMMA Telling ==
  ASSUME StaleOnlyWhenKnown, NEW S, Tell(S),
         \A d \in Docs : \/ docs'[d] = Parse(files'[d])
                         \/ d \in S \/ d = stmt'.doc
                         \/ /\ docs'[d] = docs[d] /\ files'[d] = files[d]
                            /\ d # stmt.doc
  PROVE  StaleOnlyWhenKnown'
BY DEF StaleOnlyWhenKnown, Tell, Fresh

(* The same for a step that tells nobody anything. *)
LEMMA Silence ==
  ASSUME StaleOnlyWhenKnown, known' = known,
         \A d \in Docs : \/ d = stmt'.doc
                         \/ /\ docs'[d] = docs[d] /\ files'[d] = files[d]
                            /\ d # stmt.doc
  PROVE  StaleOnlyWhenKnown'
BY DEF StaleOnlyWhenKnown, Fresh

LEMMA KnownDocs ==
  ASSUME Shapes, NEW S \in SUBSET Docs, Tell(S)
  PROVE  known' \subseteq Docs
BY DEF Shapes, Tell

-----------------------------------------------------------------------------
(* The steps of a statement.                                               *)

LEMMA InitInv == Init => Inv
<1> SUFFICES ASSUME Init PROVE Inv
  OBVIOUS
<1>1. PICK f \in [Docs -> Lines] : InitWith(f)
  BY DEF Init
<1>2. stmt = Idle
  BY DEF Init
<1>3. AtHand
  BY <1>2, IdleIs DEF AtHand
<1>4. Shapes
  BY <1>1 DEF InitWith, Shapes
<1>5. WrittenIsPatched
  BY <1>2, IdleIs DEF WrittenIsPatched
<1>6. SourcelessStay
  BY <1>1 DEF InitWith, SourcelessStay
<1>7. StaleOnlyWhenKnown
  BY <1>1 DEF InitWith, StaleOnlyWhenKnown, Fresh
<1> QED BY <1>3, <1>4, <1>5, <1>6, <1>7 DEF Inv

LEMMA Starts == Inv /\ Start => Inv'
<1> SUFFICES ASSUME Inv, Start PROVE Inv'
  OBVIOUS
<1>1. /\ stmt = Idle /\ UNCHANGED <<files, docs, hashed, saved, tx, known>>
      /\ stmt' \in Matched \cup UNION {Collected(n) : n \in 1..MaxRows}
  BY DEF Start
<1>2. /\ IsStatement(stmt') /\ stmt'.step = "none" /\ stmt'.doc = NoDoc
      /\ stmt'.todo \subseteq Docs
  BY <1>1, StartedIs
<1>3. AtHand'
  BY <1>2 DEF AtHand
<1>4. Shapes' /\ SourcelessStay'
  BY <1>1 DEF Inv, Shapes, SourcelessStay
<1>5. WrittenIsPatched'
  BY <1>2 DEF WrittenIsPatched
<1>6. StaleOnlyWhenKnown'
  BY <1>1, IdleIs, Silence, DocsAreNamed DEF Inv
<1> QED BY <1>3, <1>4, <1>5, <1>6 DEF Inv

LEMMA Patches ==
  ASSUME Inv, NEW d \in Docs, Patch(d)
  PROVE  Inv'
<1> DEFINE todo == stmt.todo \ {d}
           t == WithPatch(stmt, todo, d, "write", files[d], Patched(d))
<1>1. /\ stmt' = t /\ d \notin Sourceless
      /\ UNCHANGED <<files, docs, hashed, saved, tx, known>>
      /\ stmt.step = "none"
  BY DEF Patch, Patchable, WithPatch
<1>2. IsStatement(t) /\ t.step = "write" /\ t.doc = d /\ t.todo = todo
  BY PatchGiven DEF Inv, AtHand
<1>3. todo \subseteq Docs
  BY DEF Inv, AtHand
<1> HIDE DEF t, todo
<1>4. AtHand'
  BY <1>1, <1>2, <1>3 DEF AtHand
<1>5. Shapes' /\ SourcelessStay'
  BY <1>1 DEF Inv, Shapes, SourcelessStay
<1>6. WrittenIsPatched'
  BY <1>1, <1>2 DEF WrittenIsPatched
<1>7. StaleOnlyWhenKnown'
  BY <1>1, Silence, DocsAreNamed DEF Inv, AtHand
<1> QED BY <1>4, <1>5, <1>6, <1>7 DEF Inv

(* A statement that ends with an error tells of the document at hand, the  *)
(* only one whose file may have changed.                                   *)
LEMMA Fails ==
  ASSUME Inv, Fail, UNCHANGED <<docs, saved, tx>>,
         files' = [d \in Docs |-> files'[d]],
         \A d \in Docs : files'[d] = files[d] \/ d = stmt.doc
  PROVE  Inv'
<1>1. stmt' = Idle /\ Tell({stmt.doc} \cap Docs)
  BY DEF Fail
<1>2. AtHand'
  BY <1>1, IdleIs DEF AtHand
<1>3. known' \subseteq Docs
  BY <1>1, KnownDocs DEF Inv
<1>4. Shapes' /\ SourcelessStay'
  BY <1>3 DEF Inv, Shapes, SourcelessStay
<1>5. WrittenIsPatched'
  BY <1>1, IdleIs DEF WrittenIsPatched
<1>6. StaleOnlyWhenKnown'
  BY <1>1, Telling DEF Inv
<1> QED BY <1>2, <1>4, <1>5, <1>6 DEF Inv

LEMMA PatchesFail ==
  ASSUME Inv, NEW d \in Docs, PatchFails(d)
  PROVE  Inv'
BY Fails DEF PatchFails, Inv, Shapes

LEMMA TornFiles ==
  ASSUME Shapes, stmt.doc \in Docs, files' \in Torn
  PROVE  /\ files' = [d \in Docs |-> files'[d]]
         /\ \A d \in Docs : files'[d] = files[d] \/ d = stmt.doc
BY DEF Shapes, Torn

LEMMA WritesFail == Inv /\ WriteFails => Inv'
BY Fails, TornFiles DEF WriteFails, Inv, AtHand

LEMMA ReplacesFail == Inv /\ ReplaceFails => Inv'
BY Fails DEF ReplaceFails, Inv, Shapes

LEMMA Writes == Inv /\ WriteFile => Inv'
<1> SUFFICES ASSUME Inv, WriteFile PROVE Inv'
  OBVIOUS
<1> DEFINE t == WithFile(stmt)
<1>1. /\ stmt' = t /\ stmt.step = "write"
      /\ files' = [files EXCEPT ![stmt.doc] = stmt.patched]
      /\ UNCHANGED <<docs, saved, tx, known>>
  BY DEF WriteFile, WithFile
<1>2. stmt.doc \in Docs \ Sourceless
  BY <1>1 DEF Inv, AtHand
<1>3. /\ IsStatement(t) /\ t.step = "replace" /\ t.doc = stmt.doc
      /\ t.todo = stmt.todo /\ t.patched = stmt.patched
  BY WrittenGiven DEF Inv, AtHand
<1> HIDE DEF t
<1>4. AtHand'
  BY <1>1, <1>2, <1>3 DEF AtHand, Inv
<1>5. /\ files'[stmt.doc] = stmt.patched
      /\ \A d \in Docs \ {stmt.doc} : files'[d] = files[d]
      /\ files' = [d \in Docs |-> files'[d]]
  BY <1>1, <1>2 DEF Inv, Shapes
<1>6. Shapes' /\ SourcelessStay'
  BY <1>1, <1>5 DEF Inv, Shapes, SourcelessStay
<1>7. WrittenIsPatched'
  BY <1>1, <1>3, <1>5 DEF WrittenIsPatched
<1>8. StaleOnlyWhenKnown'
  BY <1>1, <1>3, <1>5 DEF Inv, StaleOnlyWhenKnown, Fresh
<1> QED BY <1>4, <1>6, <1>7, <1>8 DEF Inv

(* The document is replaced by what was written to its file. *)
LEMMA Replaces == Inv /\ ReplaceDocument => Inv'
<1> SUFFICES ASSUME Inv, ReplaceDocument PROVE Inv'
  OBVIOUS
<1> DEFINE t == WithoutDoc(stmt)
           d0 == stmt.doc
<1>1. /\ stmt' = t /\ stmt.step = "replace"
      /\ docs' = [docs EXCEPT ![d0] = Parse(stmt.patched)]
      /\ saved' = [docs |-> docs', hashed |-> hashed]
      /\ UNCHANGED <<files, hashed, tx>> /\ Tell({})
  BY DEF ReplaceDocument, WithoutDoc
<1>2. d0 \in Docs \ Sourceless
  BY <1>1 DEF Inv, AtHand
<1>3. IsStatement(t) /\ t.step = "none" /\ t.doc = NoDoc /\ t.todo = stmt.todo
  BY DoneGiven DEF Inv, AtHand
<1> HIDE DEF t
<1>4. AtHand'
  BY <1>1, <1>3 DEF AtHand, Inv
<1>5. /\ docs'[d0] = Parse(stmt.patched)
      /\ \A d \in Docs \ {d0} : docs'[d] = docs[d]
      /\ docs' = [d \in Docs |-> docs'[d]]
  BY <1>1, <1>2 DEF Inv, Shapes
<1>6. known' \subseteq Docs
  BY <1>1, KnownDocs DEF Inv
<1>7. Shapes'
  BY <1>1, <1>5, <1>6 DEF Inv, Shapes
<1>8. SourcelessStay'
  BY <1>1, <1>2, <1>5, DocsAreNamed DEF Inv, SourcelessStay
<1>9. WrittenIsPatched'
  BY <1>1, <1>3 DEF WrittenIsPatched
<1>10. StaleOnlyWhenKnown'
  <2>1. CASE files[d0] = stmt.patched
    <3>1. docs'[d0] = Parse(files'[d0])
      BY <1>1, <1>5, <2>1
    <3> QED BY <1>1, <1>5, <3>1, Telling DEF Inv
  <2>2. CASE d0 \in known
    <3> SUFFICES ASSUME NEW d \in Docs
                 PROVE  Fresh(d)' \/ d \in known' \/ d = stmt'.doc
      BY DEF StaleOnlyWhenKnown
    <3>1. d = d0 \/ Fresh(d) \/ d \in known
      BY DEF Inv, StaleOnlyWhenKnown
    <3> QED BY <1>1, <1>5, <2>2, <3>1 DEF Tell, Fresh
  <2> QED BY <1>1, <2>1, <2>2 DEF Inv, WrittenIsPatched
<1> QED BY <1>4, <1>7, <1>8, <1>9, <1>10 DEF Inv

LEMMA Finishes == Inv /\ Finish => Inv'
<1> SUFFICES ASSUME Inv, Finish PROVE Inv'
  OBVIOUS
<1>1. /\ stmt' = Idle /\ stmt.step = "none"
      /\ UNCHANGED <<files, docs, hashed, saved, tx, known>>
  BY DEF Finish
<1>2. AtHand' /\ WrittenIsPatched'
  BY <1>1, IdleIs DEF AtHand, WrittenIsPatched
<1>3. Shapes' /\ SourcelessStay'
  BY <1>1 DEF Inv, Shapes, SourcelessStay
<1>4. StaleOnlyWhenKnown'
  BY <1>1, Silence, DocsAreNamed DEF Inv, AtHand
<1> QED BY <1>2, <1>3, <1>4 DEF Inv

-----------------------------------------------------------------------------
(* Transactions, re-indexing, editors and crashes.                         *)

(* Between statements, no document is at hand. *)
LEMMA AtRest ==
  ASSUME stmt = Idle, stmt' = stmt
  PROVE  AtHand' /\ WrittenIsPatched' /\ stmt.doc = NoDoc
BY IdleIs DEF AtHand, WrittenIsPatched

(* What BEGIN remembers is different from no transaction.                  *)
LEMMA Begins == Inv /\ Begin => Inv'
<1> SUFFICES ASSUME Inv, Begin PROVE Inv'
  OBVIOUS
<1>1. /\ stmt = Idle /\ tx' = [docs |-> docs, hashed |-> hashed]
      /\ UNCHANGED <<files, docs, hashed, saved, stmt, known>>
  BY DEF Begin
<1>2. Shapes' /\ SourcelessStay'
  BY <1>1 DEF Inv, Shapes, SourcelessStay
<1>3. StaleOnlyWhenKnown'
  BY <1>1, AtRest, Silence, DocsAreNamed DEF Inv
<1> QED BY <1>1, <1>2, <1>3, AtRest DEF Inv

LEMMA Commits == Inv /\ Commit => Inv'
<1> SUFFICES ASSUME Inv, Commit PROVE Inv'
  OBVIOUS
<1>1. /\ stmt = Idle /\ tx' = NoTx
      /\ UNCHANGED <<files, docs, hashed, saved, stmt, known>>
  BY DEF Commit
<1>2. Shapes' /\ SourcelessStay'
  BY <1>1 DEF Inv, Shapes, SourcelessStay
<1>3. StaleOnlyWhenKnown'
  BY <1>1, AtRest, Silence, DocsAreNamed DEF Inv
<1> QED BY <1>1, <1>2, <1>3, AtRest DEF Inv

(* ROLLBACK, and one whose catalog is not written: the documents are those *)
(* of BEGIN, and the user is told of each that is another now.             *)
LEMMA GoesBack ==
  ASSUME Inv, stmt = Idle, tx # NoTx, tx' = NoTx, docs' = tx.docs,
         UNCHANGED <<files, stmt>>, saved' \in {saved, tx},
         NEW S \in SUBSET Docs, Tell(S), Written \subseteq S
  PROVE  Inv'
<1>1. known' \subseteq Docs
  BY KnownDocs DEF Inv
<1>2. Shapes' /\ SourcelessStay'
  BY <1>1 DEF Inv, Shapes, SourcelessStay
<1>3. ASSUME NEW d \in Docs
      PROVE  d \in S \/ docs'[d] = docs[d]
  BY <1>3 DEF Written, Inv, SourcelessStay
<1>4. stmt.doc \notin Docs
  BY AtRest, DocsAreNamed
<1>5. StaleOnlyWhenKnown'
  BY <1>3, <1>4, Telling DEF Inv
<1> QED BY <1>2, <1>5, AtRest DEF Inv

LEMMA RollsBack == Inv /\ Rollback => Inv'
<1>1. Written \in SUBSET Docs
  BY DEF Written
<1> QED BY <1>1, GoesBack DEF Rollback

LEMMA RollsBackInMemory == Inv /\ RollbackFails => Inv'
<1>1. Written \subseteq Docs /\ Docs \in SUBSET Docs
  BY DEF Written
<1> QED BY <1>1, GoesBack DEF RollbackFails

(* A file that is read again is in step, and every other one is as before. *)
LEMMA Reindexes == Inv /\ Reindex => Inv'
<1> SUFFICES ASSUME Inv, Reindex PROVE Inv'
  OBVIOUS
<1> DEFINE changed == {d \in Docs \ Sourceless : files[d] # hashed[d]}
<1>1. /\ stmt = Idle
      /\ docs' = [d \in Docs |-> IF d \in changed THEN Parse(files[d])
                                 ELSE docs[d]]
      /\ saved' = [docs |-> docs', hashed |-> hashed']
      /\ UNCHANGED <<files, tx, stmt>> /\ Tell({})
  BY DEF Reindex
<1>2. changed \subseteq Docs \ Sourceless
  OBVIOUS
<1> HIDE DEF changed
<1>3. /\ docs' = [d \in Docs |-> docs'[d]]
      /\ \A d \in Docs : docs'[d] = IF d \in changed THEN Parse(files[d])
                                    ELSE docs[d]
  BY <1>1
<1>4. known' \subseteq Docs
  BY <1>1, KnownDocs DEF Inv
<1>5. Shapes'
  BY <1>1, <1>3, <1>4 DEF Inv, Shapes
<1>6. SourcelessStay'
  BY <1>1, <1>2, <1>3, DocsAreNamed DEF Inv, SourcelessStay
<1>7. stmt.doc \notin Docs
  BY <1>1, AtRest, DocsAreNamed
<1>8. StaleOnlyWhenKnown'
  BY <1>1, <1>3, <1>7, Telling DEF Inv
<1> QED BY <1>1, <1>5, <1>6, <1>8, AtRest DEF Inv

LEMMA Edits ==
  ASSUME Inv, NEW d \in Docs, Edit(d)
  PROVE  Inv'
<1>1. /\ UNCHANGED <<docs, saved, tx, stmt>> /\ Tell({d})
      /\ \E f : files' = [files EXCEPT ![d] = f]
  BY DEF Edit
<1>2. /\ files' = [e \in Docs |-> files'[e]]
      /\ \A e \in Docs \ {d} : files'[e] = files[e]
  BY <1>1 DEF Inv, Shapes
<1>3. known' \subseteq Docs
  BY <1>1, KnownDocs DEF Inv
<1>4. Shapes' /\ SourcelessStay' /\ AtHand'
  BY <1>1, <1>2, <1>3 DEF Inv, Shapes, SourcelessStay, AtHand
<1>5. WrittenIsPatched'
  <2> SUFFICES ASSUME stmt.step = "replace"
               PROVE  files'[stmt.doc] = stmt.patched \/ stmt.doc \in known'
    BY <1>1 DEF WrittenIsPatched
  <2>1. stmt.doc \in Docs
    BY DEF Inv, AtHand
  <2>2. CASE stmt.doc = d \/ stmt.doc \in known
    BY <1>1, <2>1, <2>2 DEF Tell
  <2>3. CASE stmt.doc # d /\ stmt.doc \notin known
    BY <1>2, <2>1, <2>3 DEF Inv, WrittenIsPatched
  <2> QED BY <2>2, <2>3
<1>6. StaleOnlyWhenKnown'
  BY <1>1, <1>2, Telling DEF Inv, StaleOnlyWhenKnown, Tell, Fresh
<1> QED BY <1>4, <1>5, <1>6 DEF Inv

(* The next process loads what was saved, which is another catalog only    *)
(* after a rollback that failed.                                           *)
LEMMA Crashes == Inv /\ Crash => Inv'
<1> SUFFICES ASSUME Inv, Crash PROVE Inv'
  OBVIOUS
<1> DEFINE S == {d \in Docs : d = stmt.doc \/ docs # saved.docs}
<1>1. /\ stmt' = Idle /\ docs' = saved.docs /\ tx' = NoTx /\ saved' = saved
      /\ Tell(S)
  BY DEF Crash
<1>2. /\ files' = [d \in Docs |-> files'[d]]
      /\ \A d \in Docs : files'[d] = files[d] \/ d = stmt.doc
  <2>1. CASE stmt.step = "write"
    BY <2>1, TornFiles DEF Crash, Inv, AtHand
  <2>2. CASE stmt.step # "write"
    BY <2>2 DEF Crash, Inv, Shapes
  <2> QED BY <2>1, <2>2
<1>3. /\ S \in SUBSET Docs
      /\ \A d \in Docs : d \in S \/ (d # stmt.doc /\ docs' = docs)
  BY <1>1
<1> HIDE DEF S
<1>4. known' \subseteq Docs
  BY <1>1, <1>3, KnownDocs DEF Inv
<1>5. Shapes' /\ SourcelessStay'
  BY <1>1, <1>2, <1>4 DEF Inv, Shapes, SourcelessStay
<1>6. AtHand' /\ WrittenIsPatched'
  BY <1>1, IdleIs DEF AtHand, WrittenIsPatched
<1>7. StaleOnlyWhenKnown'
  BY <1>1, <1>2, <1>3, Telling DEF Inv
<1> QED BY <1>5, <1>6, <1>7 DEF Inv

LEMMA Stutters == Inv /\ UNCHANGED vars => Inv'
BY DEF vars, Inv, AtHand, Shapes, WrittenIsPatched, SourcelessStay,
       StaleOnlyWhenKnown, Fresh

LEMMA NextInv == Inv /\ [Next]_vars => Inv'
BY Starts, Patches, PatchesFail, Edits, Writes, WritesFail, Replaces,
   ReplacesFail, Finishes, Begins, Commits, RollsBack, RollsBackInMemory,
   Reindexes, Crashes, Stutters DEF Next

-----------------------------------------------------------------------------
(* In every reachable state: the document at hand is one with a file, what *)
(* was written is what will replace it unless the user knows better, and   *)
(* documents without a file are those that BEGIN remembered.               *)
THEOREM Invariance == Spec => []Inv
BY InitInv, NextInv, PTL DEF Spec

(* However statements, failures, transactions, re-indexing, crashes and an *)
(* editor interleave (execute_sql_mut, diff_written_paths, reindex_paths): *)
(* a document has the blocks of its file, is at hand, or the user was told *)
(* that it has not.                                                        *)
THEOREM DisagreementIsKnown == Spec => []StaleOnlyWhenKnown
<1>1. Inv => StaleOnlyWhenKnown  BY DEF Inv
<1>2. QED  BY <1>1, Invariance, PTL

-----------------------------------------------------------------------------
(* What a statement has in hand.                                           *)

(* The rows of a statement for a document that it has not come to. *)
RowsFor(kind, rows, blocks) ==
  \/ kind \in {"update", "delete"} /\ rows \in SUBSET DOMAIN blocks
  \/ kind = "insert" /\ rows \in Seq(RowSet)

(* The patched text is the text that was read, with these rows. *)
IsPatch(kind, rows, blocks, original, patched) ==
  \/ /\ kind = "update" /\ rows \in SUBSET DOMAIN blocks
     /\ \A k \in rows : Writable(blocks[k].kind)
     /\ patched = Updated(original, blocks, rows, NewText[1])
  \/ /\ kind = "delete" /\ rows \in SUBSET DOMAIN blocks
     /\ patched = Deleted(original, blocks, rows)
  \/ /\ kind = "insert" /\ RowsFit(rows, blocks)
     /\ patched = Inserted(original, blocks, rows)

(* A document is patched by the rows that were matched in it, for nothing  *)
(* but the statement itself changes it in between.                         *)
PatchIsOfRows ==
  /\ \A d \in stmt.todo : RowsFor(stmt.kind, stmt.rows[d], docs[d])
  /\ stmt.doc \notin stmt.todo
  /\ stmt.step # "none" =>
       IsPatch(stmt.kind, stmt.rows[stmt.doc], docs[stmt.doc],
               stmt.original, stmt.patched)

(* The store, the files and the bounds. *)
Stored ==
  /\ files \in [Docs -> Lines]
  /\ docs \in [Docs -> Blocks]
  /\ hashed \in [Docs -> Lines]
  /\ saved \in Snapshot
  /\ tx \in Snapshot \cup {NoTx}
  /\ known \in SUBSET Docs

(* The statement. *)
InHand ==
  /\ stmt.kind \in {"none", "update", "delete", "insert"}
  /\ stmt.step \in {"none", "write", "replace"}
  /\ stmt.todo \in SUBSET Docs
  /\ stmt.doc \in Docs \cup {NoDoc}
  /\ stmt.original \in Lines /\ stmt.patched \in Lines

Counted == statements \in 0..MaxStatements /\ edits \in 0..MaxEdits

Held == Stored /\ InHand /\ Counted /\ PatchIsOfRows

(* The type invariant is a part of it. *)
LEMMA HeldIsTyped == Held => TypeOK
BY DEF Held, Stored, InHand, Counted, TypeOK

(* There is a text to write. *)
LEMMA TextGiven == NewText[1] \in Texts
<1>1. 1 \in 1..Len(NewText)
  BY TextsAreGiven
<1>2. QED  BY <1>1, TextsAreGiven, ElementOfSeq

(* A patched text is a text. *)
LEMMA PatchIsLines ==
  ASSUME NEW kind, NEW rows, NEW blocks \in Blocks, NEW original \in Lines,
         NEW patched, IsPatch(kind, rows, blocks, original, patched)
  PROVE  patched \in Lines
<1>1. CASE /\ rows \in SUBSET DOMAIN blocks
           /\ \A k \in rows : Writable(blocks[k].kind)
           /\ patched = Updated(original, blocks, rows, NewText[1])
  <2>1. PICK to : /\ UpdatesTo(to, original, blocks, rows, NewText[1])
                  /\ patched = to[Cardinality(rows)]
    BY <1>1, TextGiven, UpdatedWalks
  <2>2. Cardinality(rows) \in Nat
    BY <1>1, BottomUpIs
  <2>3. QED  BY <2>1, <2>2 DEF UpdatesTo
<1>2. CASE /\ rows \in SUBSET DOMAIN blocks
           /\ patched = Deleted(original, blocks, rows)
  <2>1. PICK to : /\ DeletesTo(to, original, blocks, rows)
                  /\ patched = to[Cardinality(rows)]
    BY <1>2, DeletedWalks
  <2>2. Cardinality(rows) \in Nat
    BY <1>2, BottomUpIs
  <2>3. QED  BY <2>1, <2>2 DEF DeletesTo
<1>3. CASE /\ RowsFit(rows, blocks)
           /\ patched = Inserted(original, blocks, rows)
  <2>1. PICK to : /\ InsertsTo(to, original, blocks, rows)
                  /\ patched = to[Cardinality(DOMAIN rows)]
    BY <1>3, InsertedWalks
  <2>2. Cardinality(DOMAIN rows) \in Nat
    BY <1>3, InsertOrderIs
  <2>3. QED  BY <2>1, <2>2 DEF InsertsTo
<1>4. QED  BY <1>1, <1>2, <1>3 DEF IsPatch

(* A file without its first line, or with one more. *)
LEMMA EditIsLines ==
  ASSUME NEW text \in Lines
  PROVE  /\ <<Blank>> \o text \in Lines
         /\ 1 \in DOMAIN text => Tail(text) \in Lines
<1>1. <<Blank>> \in Lines
  <2>1. Blank \in Line  BY DEF Line
  <2> HIDE DEF Blank
  <2>2. QED  BY <2>1 DEF Lines
<1>2. <<Blank>> \o text \in Lines
  <2> DEFINE b == <<Blank>>
  <2> HIDE DEF b
  <2>1. b \o text \in Lines  BY <1>1, ConcatProperties DEF b, Lines
  <2>2. QED  BY <2>1 DEF b
<1>3. ASSUME 1 \in DOMAIN text PROVE Tail(text) \in Lines
  <2>1. text # <<>>  BY <1>3
  <2>2. QED  BY <2>1, HeadTailProperties DEF Lines
<1>4. QED  BY <1>2, <1>3

(* So is one that is cut short. *)
LEMMA CutIsLines ==
  ASSUME NEW text \in Lines, NEW n \in 0..Len(text)
  PROVE  SubSeq(text, 1, n) \in Lines
<1>1. Len(text) \in Nat /\ \A i \in 1..Len(text) : text[i] \in Line
  BY DEF Lines
<1>2. QED  BY <1>1, SubSeqProperties DEF Lines

-----------------------------------------------------------------------------
(* The rows of a new statement.                                            *)

(* Places are numbers of blocks. *)
LEMMA PlacesAre ==
  ASSUME docs \in [Docs -> Blocks], NEW p \in Places
  PROVE  p[2] \in Nat
<1>1. PICK d \in Docs : p \in {<<d, k>> : k \in AtEnd..Len(docs[d]) + 1}
  BY DEF Places
<1>2. Len(docs[d]) \in Nat
  BY BlocksAreSeqs
<1>3. PICK k \in AtEnd..Len(docs[d]) + 1 : p = <<d, k>>
  BY <1>1
<1>4. QED  BY <1>2, <1>3 DEF AtEnd

(* The rows of an INSERT for one document. *)
LEMMA RowsOfAre ==
  ASSUME docs \in [Docs -> Blocks], NEW d, NEW n \in 1..MaxRows,
         NEW places \in [1..n -> Places], NEW kinds \in [1..n -> {"heading", "paragraph"}]
  PROVE  RowsOf(d, places, kinds) \in Seq(RowSet)
<1> DEFINE mine == {r \in DOMAIN places : places[r][1] = d}
           asc == {p \in mine \X mine : p[1] < p[2]}
           of == Sorted(mine, asc)
           row(i) == [after |-> places[of[i]][2], kind |-> kinds[of[i]],
                      text |-> NewText[of[i]]]
<1>1. /\ n \in Nat /\ NewText \in Seq(Texts)
      /\ \A r \in 1..n : r \in Nat /\ r \in 1..Len(NewText)
  <2>1. MaxRows \in 0..Len(NewText) /\ Len(NewText) \in Nat
    BY DocsAreNamed, TextsAreGiven, LenProperties
  <2>2. QED  BY <2>1, TextsAreGiven
<1>2. mine \subseteq 1..n
  OBVIOUS
<1>3. IsFiniteSet(mine)
  <2>1. IsFiniteSet(1..n)  BY <1>1, FS_Interval
  <2>2. QED  BY <1>2, <2>1, FS_Subset
<1>4. \A x, y \in mine : <<x, y>> \in asc <=> x < y
  OBVIOUS
<1>5. RowsOf(d, places, kinds) = [i \in DOMAIN of |-> row(i)]
  BY DEF RowsOf
<1> HIDE DEF mine, asc
<1>6. Orders(asc, mine)
  <2>1. \A x \in mine : <<x, x>> \notin asc
    BY <1>1, <1>2, <1>4
  <2>2. \A x, y, z \in mine : <<x, y>> \in asc /\ <<y, z>> \in asc => <<x, z>> \in asc
    BY <1>1, <1>2, <1>4
  <2>3. ASSUME NEW x \in mine, NEW y \in mine
        PROVE  x = y \/ <<x, y>> \in asc \/ <<y, x>> \in asc
    <3>1. x \in Nat /\ y \in Nat  BY <1>1, <1>2
    <3>2. QED  BY <1>4, <3>1
  <2>4. QED  BY <2>1, <2>2, <2>3 DEF Orders
<1>7. of \in Seq(mine) /\ Len(of) \in Nat
  BY <1>3, <1>6, SortedLists
<1> HIDE DEF of
<1>8. DOMAIN of = 1..Len(of) /\ \A i \in 1..Len(of) : of[i] \in mine
  BY <1>7, LenProperties, ElementOfSeq
<1>9. ASSUME NEW i \in 1..Len(of) PROVE row(i) \in RowSet
  <2>1. of[i] \in 1..n
    BY <1>2, <1>8
  <2>2. places[of[i]] \in Places /\ kinds[of[i]] \in {"heading", "paragraph"}
    BY <2>1
  <2>3. places[of[i]][2] \in Nat
    BY <2>2, PlacesAre
  <2>4. NewText[of[i]] \in Texts
    BY <1>1, <2>1, ElementOfSeq
  <2>5. QED  BY <2>2, <2>3, <2>4 DEF RowSet
<1> HIDE DEF row
<1>10. [i \in 1..Len(of) |-> row(i)] \in Seq(RowSet)
  <2>1. [i \in 1..Len(of) |-> row(i)] \in [1..Len(of) -> RowSet]  BY <1>9
  <2>2. QED  BY <1>7, <2>1, SeqDef
<1>11. QED  BY <1>5, <1>8, <1>10

(* Every document of a new statement has rows of its kind. *)
LEMMA StartedFits ==
  ASSUME docs \in [Docs -> Blocks],
         NEW s \in Matched \cup UNION {Collected(n) : n \in 1..MaxRows}
  PROVE  /\ s.kind \in {"update", "delete", "insert"}
         /\ s.original = <<>> /\ s.patched = <<>>
         /\ \A d \in Docs : RowsFor(s.kind, s.rows[d], docs[d])
<1>1. CASE s \in Matched
  <2>1. PICK kind \in {"update", "delete"}, rows \in MatchedBlocks :
               s = Statement(kind, rows, {})
    BY <1>1 DEF Matched
  <2>2. /\ s.kind = kind /\ s.rows = rows
        /\ s.original = <<>> /\ s.patched = <<>>
    BY <2>1, StatementIs
  <2>3. \A d \in Docs : rows[d] \subseteq DOMAIN docs[d]
    BY DEF MatchedBlocks
  <2>4. QED  BY <2>2, <2>3 DEF RowsFor
<1>2. CASE \E n \in 1..MaxRows : s \in Collected(n)
  <2>1. PICK n \in 1..MaxRows : s \in Collected(n)
    BY <1>2
  <2>2. PICK places \in [1..n -> Places],
             kinds \in [1..n -> {"heading", "paragraph"}] :
               s = InsertOf(places, kinds)
    BY <2>1 DEF Collected
  <2> DEFINE rows == [d \in Docs |-> RowsOf(d, places, kinds)]
  <2>3. \A d \in Docs : rows[d] \in Seq(RowSet)
    BY RowsOfAre
  <2>4. s = Statement("insert", rows, <<>>)
    BY <2>2 DEF InsertOf
  <2> HIDE DEF rows
  <2>5. /\ s.kind = "insert" /\ s.rows = rows
        /\ s.original = <<>> /\ s.patched = <<>>
    BY <2>4, StatementIs
  <2>6. QED  BY <2>3, <2>5 DEF RowsFor
<1>3. QED  BY <1>1, <1>2

-----------------------------------------------------------------------------
(* The steps keep what is held.                                            *)

(* Without a statement, there is nothing in hand. *)
LEMMA IdleIsHeld ==
  ASSUME stmt = Idle
  PROVE  InHand /\ PatchIsOfRows
BY IdleIs, DocsAreNamed, LinesAreSeqs DEF InHand, PatchIsOfRows

LEMMA NextIsIdle ==
  ASSUME stmt' = Idle
  PROVE  InHand' /\ PatchIsOfRows'
BY IdleIs, DocsAreNamed, LinesAreSeqs DEF InHand, PatchIsOfRows

(* What the parser finds are blocks. *)
LEMMA ParseIsBlocks == \A text \in Lines : Parse(text) \in Blocks
BY ToldIs

(* In the beginning, there is no statement. *)
LEMMA InitHeld == Init => Held
<1> SUFFICES ASSUME Init PROVE Held
  OBVIOUS
<1>1. PICK f \in [Docs -> Lines] : InitWith(f)
  BY DEF Init
<1>2. Stored
  <2>1. docs \in [Docs -> Blocks]
    BY <1>1, ParseIsBlocks DEF InitWith
  <2>2. QED  BY <1>1, <2>1 DEF InitWith, Stored, Snapshot
<1>3. Counted
  BY BoundsAreNumbers DEF Init, Counted
<1>4. InHand /\ PatchIsOfRows
  BY IdleIsHeld DEF Init
<1> QED BY <1>2, <1>3, <1>4 DEF Held

(* A new statement has its rows and no document at hand. *)
LEMMA StartHolds == Held /\ Start => Held'
<1> SUFFICES ASSUME Held, Start PROVE Held'
  OBVIOUS
<1>1. /\ UNCHANGED <<files, docs, hashed, saved, tx, known, edits>>
      /\ statements < MaxStatements /\ statements' = statements + 1
      /\ stmt' \in Matched \cup UNION {Collected(n) : n \in 1..MaxRows}
  BY DEF Start
<1>2. Stored /\ Counted
  BY DEF Held
<1>3. Stored'
  BY <1>1, <1>2 DEF Stored
<1>4. Counted'
  BY <1>1, <1>2, BoundsAreNumbers DEF Counted
<1>5. /\ stmt'.step = "none" /\ stmt'.doc = NoDoc /\ stmt'.todo \subseteq Docs
      /\ stmt'.kind \in {"update", "delete", "insert"}
      /\ stmt'.original = <<>> /\ stmt'.patched = <<>>
      /\ \A d \in Docs : RowsFor(stmt'.kind, stmt'.rows[d], docs[d])
  BY <1>1, <1>2, StartedIs, StartedFits DEF Stored
<1>6. InHand'
  BY <1>5, LinesAreSeqs DEF InHand
<1>7. PatchIsOfRows'
  BY <1>1, <1>5, DocsAreNamed DEF PatchIsOfRows
<1> QED BY <1>3, <1>4, <1>6, <1>7 DEF Held

(* The patched text is made from what was matched. *)
LEMMA PatchHolds ==
  ASSUME Inv, Held, NEW d \in Docs, Patch(d)
  PROVE  Held'
<1> DEFINE todo == stmt.todo \ {d}
           t == WithPatch(stmt, todo, d, "write", files[d], Patched(d))
           rows == stmt.rows[d]
<1>1. /\ stmt' = t /\ d \in stmt.todo /\ Patchable(d)
      /\ UNCHANGED <<files, docs, hashed, saved, tx, known, statements, edits>>
  BY DEF Patch, WithPatch
<1>2. /\ t.step = "write" /\ t.doc = d /\ t.todo = todo
      /\ t.kind = stmt.kind /\ t.rows = stmt.rows
      /\ t.original = files[d] /\ t.patched = Patched(d)
  BY PatchGiven DEF Inv, AtHand
<1>3. Stored /\ InHand /\ Counted /\ PatchIsOfRows
  BY DEF Held
<1>4. RowsFor(stmt.kind, rows, docs[d])
  BY <1>1, <1>3 DEF PatchIsOfRows
<1>5. IsPatch(stmt.kind, rows, docs[d], files[d], Patched(d))
  BY <1>1, <1>4 DEF RowsFor, Patchable, Patched, IsPatch, RowsFit
<1>6. files[d] \in Lines /\ Patched(d) \in Lines
  BY <1>3, <1>5, PatchIsLines DEF Stored
<1> HIDE DEF t, rows
<1>7. Stored' /\ Counted'
  BY <1>1, <1>3 DEF Stored, Counted
<1>8. InHand'
  BY <1>1, <1>2, <1>3, <1>6 DEF InHand
<1>9. PatchIsOfRows'
  <2>1. \A e \in stmt'.todo : RowsFor(stmt'.kind, stmt'.rows[e], docs'[e])
    BY <1>1, <1>2, <1>3 DEF PatchIsOfRows
  <2>2. stmt'.doc \notin stmt'.todo
    BY <1>1, <1>2
  <2>3. IsPatch(stmt'.kind, stmt'.rows[stmt'.doc], docs'[stmt'.doc],
                stmt'.original, stmt'.patched)
    BY <1>1, <1>2, <1>5 DEF rows
  <2>4. QED  BY <2>1, <2>2, <2>3 DEF PatchIsOfRows
<1> QED BY <1>7, <1>8, <1>9 DEF Held

(* The patched text, whole or cut short, is in the file. *)
LEMMA TornIsLines ==
  ASSUME Held, stmt.doc \in Docs, files' \in Torn
  PROVE  files' \in [Docs -> Lines]
<1>1. files \in [Docs -> Lines] /\ stmt.patched \in Lines
  BY DEF Held, Stored, InHand
<1>2. CASE files' = files
  BY <1>1, <1>2
<1>3. CASE \E n \in 0..Len(stmt.patched) :
             files' = [files EXCEPT ![stmt.doc] = SubSeq(stmt.patched, 1, n)]
  <2>1. PICK n \in 0..Len(stmt.patched) :
               files' = [files EXCEPT ![stmt.doc] = SubSeq(stmt.patched, 1, n)]
    BY <1>3
  <2> DEFINE text == SubSeq(stmt.patched, 1, n)
  <2>2. text \in Lines
    BY <1>1, CutIsLines
  <2>3. files' = [files EXCEPT ![stmt.doc] = text]
    BY <2>1
  <2> HIDE DEF text
  <2>4. QED  BY <1>1, <2>2, <2>3
<1>4. QED  BY <1>2, <1>3 DEF Torn

(* A statement ends, with an error or without. *)
LEMMA EndHolds ==
  ASSUME Held, stmt' = Idle, files' \in [Docs -> Lines], known' \in SUBSET Docs,
         UNCHANGED <<docs, hashed, saved, tx, statements, edits>>
  PROVE  Held'
<1>1. Stored' /\ Counted'
  BY DEF Held, Stored, Counted
<1> QED BY <1>1, NextIsIdle DEF Held

(* An error ends the statement. *)
LEMMA FailHolds ==
  ASSUME Held, Fail, files' \in [Docs -> Lines],
         UNCHANGED <<docs, hashed, saved, tx, statements, edits>>
  PROVE  Held'
<1>1. stmt' = Idle /\ Tell({stmt.doc} \cap Docs)
  BY DEF Fail
<1>2. known' \in SUBSET Docs
  BY <1>1 DEF Tell, Held, Stored
<1> QED BY <1>1, <1>2, EndHolds

LEMMA PatchFailsHolds ==
  ASSUME Held, NEW d \in Docs, PatchFails(d)
  PROVE  Held'
<1>1. files' \in [Docs -> Lines]
  BY DEF PatchFails, Held, Stored
<1> QED BY <1>1, FailHolds DEF PatchFails

LEMMA WriteFailsHolds == Inv /\ Held /\ WriteFails => Held'
BY FailHolds, TornIsLines DEF WriteFails, Inv, AtHand

LEMMA ReplaceFailsHolds == Held /\ ReplaceFails => Held'
<1> SUFFICES ASSUME Held, ReplaceFails PROVE Held'
  OBVIOUS
<1>1. files' \in [Docs -> Lines]
  BY DEF ReplaceFails, Held, Stored
<1> QED BY <1>1, FailHolds DEF ReplaceFails

LEMMA FinishHolds == Held /\ Finish => Held'
<1> SUFFICES ASSUME Held, Finish PROVE Held'
  OBVIOUS
<1>1. files' \in [Docs -> Lines] /\ known' \in SUBSET Docs
  BY DEF Finish, Held, Stored
<1> QED BY <1>1, EndHolds DEF Finish

(* The text in hand stays what it is when it is written. *)
LEMMA WriteHolds == Inv /\ Held /\ WriteFile => Held'
<1> SUFFICES ASSUME Inv, Held, WriteFile PROVE Held'
  OBVIOUS
<1> DEFINE t == WithFile(stmt)
<1>1. /\ stmt' = t /\ stmt.step = "write"
      /\ files' = [files EXCEPT ![stmt.doc] = stmt.patched]
      /\ UNCHANGED <<docs, hashed, saved, tx, known, statements, edits>>
  BY DEF WriteFile, WithFile
<1>2. /\ t.step = "replace" /\ t.doc = stmt.doc
      /\ t.todo = stmt.todo /\ t.kind = stmt.kind /\ t.rows = stmt.rows
      /\ t.original = stmt.original /\ t.patched = stmt.patched
  BY WrittenGiven DEF Inv, AtHand
<1> HIDE DEF t
<1>3. Stored /\ InHand /\ Counted /\ PatchIsOfRows
  BY DEF Held
<1>4. files' \in [Docs -> Lines]
  BY <1>1, <1>3 DEF Stored, InHand
<1>5. Stored' /\ Counted'
  BY <1>1, <1>3, <1>4 DEF Stored, Counted
<1>6. InHand'
  BY <1>1, <1>2, <1>3 DEF InHand
<1>7. PatchIsOfRows'
  BY <1>1, <1>2, <1>3 DEF PatchIsOfRows
<1> QED BY <1>5, <1>6, <1>7 DEF Held

(* No document to come is the one that is replaced. *)
LEMMA ReplaceHolds == Inv /\ Held /\ ReplaceDocument => Held'
<1> SUFFICES ASSUME Inv, Held, ReplaceDocument PROVE Held'
  OBVIOUS
<1> DEFINE t == WithoutDoc(stmt)
<1>1. /\ stmt' = t /\ stmt.step = "replace"
      /\ docs' = [docs EXCEPT ![stmt.doc] = Parse(stmt.patched)]
      /\ saved' = [docs |-> docs', hashed |-> hashed]
      /\ UNCHANGED <<files, hashed, tx, statements, edits>> /\ Tell({})
  BY DEF ReplaceDocument, WithoutDoc
<1>2. /\ t.step = "none" /\ t.doc = NoDoc
      /\ t.todo = stmt.todo /\ t.kind = stmt.kind /\ t.rows = stmt.rows
      /\ t.original = stmt.original /\ t.patched = stmt.patched
  BY DoneGiven DEF Inv, AtHand
<1> HIDE DEF t
<1>3. Stored /\ InHand /\ Counted /\ PatchIsOfRows
  BY DEF Held
<1>4. /\ docs' \in [Docs -> Blocks]
      /\ \A d \in Docs : d # stmt.doc => docs'[d] = docs[d]
  BY <1>1, <1>3, ParseIsBlocks DEF Stored, InHand
<1>5. known' \in SUBSET Docs
  BY <1>1, <1>3 DEF Tell, Stored
<1>6. saved' \in Snapshot
  BY <1>1, <1>3, <1>4 DEF Snapshot, Stored
<1>7. Stored' /\ Counted'
  BY <1>1, <1>3, <1>4, <1>5, <1>6 DEF Stored, Counted
<1>8. InHand'
  BY <1>1, <1>2, <1>3 DEF InHand
<1>9. PatchIsOfRows'
  <2>1. \A d \in stmt'.todo : d \in Docs /\ d # stmt.doc
    BY <1>1, <1>2, <1>3 DEF InHand, PatchIsOfRows
  <2>2. \A d \in stmt'.todo : RowsFor(stmt'.kind, stmt'.rows[d], docs'[d])
    BY <1>1, <1>2, <1>3, <1>4, <2>1 DEF PatchIsOfRows
  <2>3. stmt'.doc \notin stmt'.todo
    BY <1>1, <1>2, <2>1, DocsAreNamed
  <2>4. QED  BY <1>1, <1>2, <2>2, <2>3 DEF PatchIsOfRows
<1> QED BY <1>7, <1>8, <1>9 DEF Held

(* Between statements, what happens to the documents is of no concern.     *)
LEMMA RestHolds ==
  ASSUME Held, stmt' = Idle, Stored',
         UNCHANGED <<statements, edits>>
  PROVE  Held'
<1>1. Counted'
  BY DEF Held, Counted
<1> QED BY <1>1, NextIsIdle DEF Held

(* BEGIN and COMMIT leave the documents as they are, *)
LEMMA BeginHolds == Held /\ Begin => Held'
<1> SUFFICES ASSUME Held, Begin PROVE Held'
  OBVIOUS
<1>1. Stored'
  BY DEF Begin, Held, Stored, Snapshot
<1> QED BY <1>1, RestHolds DEF Begin

LEMMA CommitHolds == Held /\ Commit => Held'
<1> SUFFICES ASSUME Held, Commit PROVE Held'
  OBVIOUS
<1>1. Stored'
  BY DEF Commit, Held, Stored
<1> QED BY <1>1, RestHolds DEF Commit

(* ROLLBACK takes back others of the same kind, *)
LEMMA RollbackHolds == Held /\ (Rollback \/ RollbackFails) => Held'
<1> SUFFICES ASSUME Held, Rollback \/ RollbackFails PROVE Held'
  OBVIOUS
<1>1. /\ stmt = Idle /\ stmt' = stmt /\ tx \in Snapshot /\ tx' = NoTx
      /\ docs' = tx.docs /\ hashed' = tx.hashed /\ saved' \in {saved, tx}
      /\ UNCHANGED <<files, statements, edits>>
      /\ \E S : S \subseteq Docs /\ Tell(S)
  BY DEF Rollback, RollbackFails, Written, Held, Stored
<1>2. known' \in SUBSET Docs
  BY <1>1 DEF Tell, Held, Stored
<1>3. Stored'
  BY <1>1, <1>2 DEF Held, Stored, Snapshot
<1> QED BY <1>1, <1>3, RestHolds

(* and so does a file that is parsed again. *)
LEMMA ReindexHolds == Held /\ Reindex => Held'
<1> SUFFICES ASSUME Held, Reindex PROVE Held'
  OBVIOUS
<1> DEFINE changed == {d \in Docs \ Sourceless : files[d] # hashed[d]}
<1>1. /\ stmt = Idle /\ stmt' = stmt
      /\ docs' = [d \in Docs |-> IF d \in changed THEN Parse(files[d])
                                 ELSE docs[d]]
      /\ hashed' = [d \in Docs |-> IF d \in changed THEN files[d]
                                   ELSE hashed[d]]
      /\ saved' = [docs |-> docs', hashed |-> hashed']
      /\ UNCHANGED <<files, tx, statements, edits>> /\ Tell({})
  BY DEF Reindex
<1> HIDE DEF changed
<1>2. docs' \in [Docs -> Blocks] /\ hashed' \in [Docs -> Lines]
  BY <1>1, ParseIsBlocks DEF Held, Stored
<1>3. known' \in SUBSET Docs
  BY <1>1 DEF Tell, Held, Stored
<1>4. Stored'
  BY <1>1, <1>2, <1>3 DEF Held, Stored, Snapshot
<1> QED BY <1>1, <1>4, RestHolds

(* An editor changes a file, not what the statement has read of it. *)
LEMMA EditHolds ==
  ASSUME Held, NEW d \in Docs, Edit(d)
  PROVE  Held'
<1>1. /\ UNCHANGED <<docs, hashed, saved, tx, stmt, statements>> /\ Tell({d})
      /\ edits < MaxEdits /\ edits' = edits + 1
  BY DEF Edit
<1>2. files[d] \in Lines
  BY DEF Held, Stored
<1>3. \E text \in Lines : files' = [files EXCEPT ![d] = text]
  <2>1. CASE files' = [files EXCEPT ![d] = <<Blank>> \o @]
    BY <1>2, <2>1, EditIsLines
  <2>2. CASE 1 \in DOMAIN files[d] /\ files' = [files EXCEPT ![d] = Tail(files[d])]
    BY <1>2, <2>2, EditIsLines
  <2>3. QED  BY <2>1, <2>2 DEF Edit
<1>4. files' \in [Docs -> Lines]
  BY <1>3 DEF Held, Stored
<1>5. known' \in SUBSET Docs
  BY <1>1 DEF Tell, Held, Stored
<1>6. Stored' /\ InHand' /\ PatchIsOfRows'
  BY <1>1, <1>4, <1>5 DEF Held, Stored, InHand, PatchIsOfRows
<1>7. Counted'
  BY <1>1, BoundsAreNumbers DEF Held, Counted
<1> QED BY <1>6, <1>7 DEF Held

(* The next process loads what was saved, and knows of no statement. *)
LEMMA CrashHolds == Inv /\ Held /\ Crash => Held'
<1> SUFFICES ASSUME Inv, Held, Crash PROVE Held'
  OBVIOUS
<1>1. /\ docs' = saved.docs /\ hashed' = saved.hashed /\ tx' = NoTx
      /\ stmt' = Idle /\ UNCHANGED <<saved, statements, edits>>
      /\ \E S : S \subseteq Docs /\ Tell(S)
  BY DEF Crash
<1>2. files' \in [Docs -> Lines]
  <2>1. CASE stmt.step = "write"
    BY <2>1, TornIsLines DEF Crash, Inv, AtHand
  <2>2. CASE stmt.step # "write"
    BY <2>2 DEF Crash, Held, Stored
  <2>3. QED  BY <2>1, <2>2
<1>3. known' \in SUBSET Docs
  BY <1>1 DEF Tell, Held, Stored
<1>4. Stored'
  BY <1>1, <1>2, <1>3 DEF Held, Stored, Snapshot
<1> QED BY <1>1, <1>4, RestHolds

LEMMA StutterHolds == Held /\ UNCHANGED vars => Held'
BY DEF vars, Held, Stored, InHand, Counted, PatchIsOfRows

(* Every step keeps it. *)
LEMMA NextHeld == Inv /\ Held /\ [Next]_vars => Held'
BY StartHolds, PatchHolds, PatchFailsHolds, EditHolds, WriteHolds,
   WriteFailsHolds, ReplaceHolds, ReplaceFailsHolds, FinishHolds, BeginHolds,
   CommitHolds, RollbackHolds, ReindexHolds, CrashHolds, StutterHolds DEF Next

(* In every reachable state, what a statement has in hand is what it       *)
(* matched, in the documents as they were when it matched it, and the      *)
(* patched text is made from that and the text that was read.              *)
THEOREM Holding == Spec => []Held
BY InitHeld, NextHeld, InitInv, NextInv, Invariance, PTL DEF Spec

(* Files are lines, documents are blocks, and a statement is at one        *)
(* document at a time (execute_sql_mut).                                   *)
THEOREM TypeCorrect == Spec => []TypeOK
BY Holding, HeldIsTyped, PTL

-----------------------------------------------------------------------------
(* What the patches do.                                                    *)

(* What is in hand for an UPDATE is what its lemma asks for. *)
LEMMA UpdateHeldIsExact == Held => UpdateIsExact
<1> SUFFICES ASSUME Held, PatchedFresh("update"), OwnLines(Before)
             PROVE  Outline(After) = ExpectUpdated(Before, Rows, NewText[1])
  BY DEF UpdateIsExact
<1>1. /\ stmt.original \in Lines /\ docs[stmt.doc] = Parse(stmt.original)
      /\ IsPatch("update", stmt.rows[stmt.doc], docs[stmt.doc],
                 stmt.original, stmt.patched)
  BY DEF PatchedFresh, Held, InHand, PatchIsOfRows
<1> QED BY <1>1, TextGiven, UpdatedExact DEF IsPatch, Before, Rows, After

(* The same for a DELETE, *)
LEMMA DeleteHeldIsExact == Held => DeleteIsExact
<1> SUFFICES ASSUME Held, PatchedFresh("delete"), Spaced(Before)
             PROVE  Outline(After) = ExpectDeleted(Before, Rows)
  BY DEF DeleteIsExact
<1>1. /\ stmt.original \in Lines /\ docs[stmt.doc] = Parse(stmt.original)
      /\ IsPatch("delete", stmt.rows[stmt.doc], docs[stmt.doc],
                 stmt.original, stmt.patched)
  BY DEF PatchedFresh, Held, InHand, PatchIsOfRows
<1> QED BY <1>1, DeletedExact DEF IsPatch, Before, Rows, After

(* and for an INSERT. *)
LEMMA InsertHeldIsExact == Held => InsertIsExact
<1> SUFFICES ASSUME Held, PatchedFresh("insert"), OwnLines(Before),
                    EndsLast(Rows, Before)
             PROVE  Outline(After) = ExpectInserted(Before, Rows)
  BY DEF InsertIsExact, EndsLast
<1>1. /\ stmt.original \in Lines /\ docs[stmt.doc] = Parse(stmt.original)
      /\ IsPatch("insert", stmt.rows[stmt.doc], docs[stmt.doc],
                 stmt.original, stmt.patched)
  BY DEF PatchedFresh, Held, InHand, PatchIsOfRows
<1>2. RowsFit(Rows, Before) /\ stmt.patched = Inserted(stmt.original, Before, Rows)
  BY <1>1 DEF IsPatch, Before, Rows
<1>3. InsertFits(stmt.original, Rows)
  BY <1>1, <1>2 DEF InsertFits, Before
<1> QED BY <1>1, <1>2, <1>3, InsertedExact DEF Before, After

(* Whatever file an UPDATE reads whose blocks share no line, the text that *)
(* it writes has the blocks of the file, the matched ones with the new     *)
(* text and all others as they were (apply_matched_edits).                 *)
THEOREM UpdatesAreExact == Spec => []UpdateIsExact
BY Holding, UpdateHeldIsExact, PTL

(* Whatever file a DELETE reads whose blocks are apart, the text that it   *)
(* writes has the blocks that were not matched, in their order and as they *)
(* were (apply_matched_edits with its blank lines).                        *)
THEOREM DeletesAreExact == Spec => []DeleteIsExact
BY Holding, DeleteHeldIsExact, PTL

(* However many rows an INSERT writes and wherever they go, the text has   *)
(* the blocks of the file as they were and each row as a block behind the  *)
(* one it names, the rows of one place in the order of VALUES              *)
(* (apply_new_blocks).                                                     *)
THEOREM InsertsAreExact == Spec => []InsertIsExact
BY Holding, InsertHeldIsExact, PTL
=============================================================================
