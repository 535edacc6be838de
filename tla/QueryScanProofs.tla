-------------------------- MODULE QueryScanProofs --------------------------
(***************************************************************************)
(* Proofs about QueryScan, for any stores, clauses and tokenizers: an      *)
(* index read from the store file is the one that was written, and the     *)
(* lookups and skips of a query do not change its answer.                  *)
(***************************************************************************)
EXTENDS QueryScan, FiniteSetTheorems, SequenceTheorems, TLAPS

-----------------------------------------------------------------------------
(* Numbers and finite sets of them.                                        *)

(* A set of natural numbers that is not empty has a least element. *)
LEMMA LeastNatural ==
  ASSUME NEW T \in SUBSET Nat, T # {}
  PROVE  \E m \in T : \A n \in T : m <= n
<1>1. PICK m \in T : \A n \in T : ~(<<n, m>> \in OpToRel(<, Nat))
  BY NatLessThanWellFounded, WFMin
<1>2. \A n \in T : ~(n < m)  BY <1>1 DEF OpToRel
<1>3. QED  BY <1>2

(* Induction up to N, over a set. *)
LEMMA UpTo ==
  ASSUME NEW N \in Nat, NEW T, 0 \in T,
         \A n \in 1..N : n - 1 \in T => n \in T
  PROVE  0..N \subseteq T
<1> DEFINE Rest == {n \in 0..N : n \notin T}
<1>1. SUFFICES ASSUME Rest # {} PROVE FALSE  OBVIOUS
<1>6. Rest \in SUBSET Nat  OBVIOUS
<1>2. PICK m \in Rest : \A n \in Rest : m <= n  BY <1>1, <1>6, LeastNatural
<1>3. m # 0 /\ m - 1 \in 0..N /\ m - 1 \notin Rest  BY <1>2
<1>4. m - 1 \in T  BY <1>3
<1>5. QED  BY <1>2, <1>3, <1>4

LEMMA Greatest ==
  ASSUME NEW S \in SUBSET Nat, S # {}, NEW b \in Nat, \A x \in S : x <= b
  PROVE  Max(S) \in S /\ \A x \in S : x <= Max(S)
<1> DEFINE T == {b - x : x \in S}
<1>1. T \in SUBSET Nat /\ T # {}
  <2>1. \A x \in S : b - x \in Nat  OBVIOUS
  <2>2. QED  BY <2>1
<1>2. PICK m \in T : \A n \in T : m <= n  BY <1>1, LeastNatural
<1>3. PICK x \in S : m = b - x  BY <1>2
<1>4. \A y \in S : x >= y
  <2>1. TAKE y \in S
  <2>2. m <= b - y  BY <1>2
  <2>3. QED  BY <1>3, <2>2
<1>5. \E z \in S : \A y \in S : z >= y  BY <1>4
<1> DEFINE P(z) == \A y \in S : z >= y
<1>6. Max(S) = CHOOSE z \in S : P(z)  BY DEF Max
<1> HIDE DEF P
<1>7. \E z \in S : P(z)  BY <1>5 DEF P
<1>8. Max(S) \in S /\ P(Max(S))  BY <1>6, <1>7
<1>9. QED  BY <1>8 DEF P

LEMMA Smallest ==
  ASSUME NEW S \in SUBSET Nat, S # {}
  PROVE  Min(S) \in S /\ \A x \in S : Min(S) <= x
<1> DEFINE P(z) == \A y \in S : z =< y
<1>1. \E z \in S : P(z)  BY LeastNatural
<1>2. Min(S) = CHOOSE z \in S : P(z)  BY DEF Min
<1> HIDE DEF P
<1>3. Min(S) \in S /\ P(Min(S))  BY <1>1, <1>2
<1>4. QED  BY <1>3 DEF P

(* Ascending lists each element of a finite set of numbers once, in order. *)
LEMMA AscendingLists ==
  ASSUME NEW S \in SUBSET Nat, IsFiniteSet(S)
  PROVE  /\ Ascending(S) \in Seq(S)
         /\ Len(Ascending(S)) = Cardinality(S)
         /\ DOMAIN Ascending(S) = 1..Cardinality(S)
         /\ Range(Ascending(S)) = S
         /\ \A i, j \in DOMAIN Ascending(S) :
              i < j => Ascending(S)[i] < Ascending(S)[j]
<1> DEFINE Below(x) == {y \in S : y < x}
           N == Cardinality(S)
           R == [x \in S |-> Cardinality(Below(x)) + 1]
           A == Ascending(S)
<1>1. N \in Nat  BY FS_CardinalityType
<1>2. ASSUME NEW x \in S
      PROVE  /\ IsFiniteSet(Below(x)) /\ Cardinality(Below(x)) \in Nat
             /\ x \notin Below(x) /\ Below(x) \in SUBSET S
  <2>1. x \notin Below(x) /\ Below(x) \in SUBSET S  OBVIOUS
  <2>2. QED  BY <2>1, FS_Subset, FS_CardinalityType
<1>3. ASSUME NEW x \in S PROVE R[x] \in 1..N
  <2> HIDE DEF Below
  <2>1. Cardinality(Below(x)) <= N /\ Cardinality(Below(x)) # N
    BY <1>2, FS_Subset
  <2>2. QED  BY <1>1, <1>2, <2>1
<1>4. ASSUME NEW x \in S, NEW y \in S, x < y PROVE R[x] < R[y]
  <2>1. Below(x) \in SUBSET Below(y) /\ x \in Below(y)
    <3>1. \A z \in S : z < x => z < y  BY <1>4
    <3>2. QED  BY <1>4, <3>1
  <2> HIDE DEF Below
  <2>2. Cardinality(Below(x)) <= Cardinality(Below(y))
    BY <1>2, <2>1, FS_Subset
  <2>3. Cardinality(Below(x)) # Cardinality(Below(y))
    BY <1>2, <2>1, FS_Subset
  <2>4. QED  BY <1>2, <2>2, <2>3
<1> HIDE DEF R
<1>5. R \in [S -> 1..N]  BY <1>3 DEF R
<1>6. ASSUME NEW x \in S, NEW y \in S, R[x] = R[y] PROVE x = y
  <2>1. x \in Nat /\ y \in Nat /\ R[x] \in Nat /\ R[y] \in Nat  BY <1>3
  <2>2. QED  BY <1>4, <1>6, <2>1
<1>7. R \in Surjection(S, 1..N)
  <2>1. R \in Injection(S, 1..N)  BY <1>5, <1>6 DEF Injection, IsInjective
  <2>2. IsFiniteSet(1..N) /\ Cardinality(1..N) = N  BY <1>1, FS_Interval
  <2>3. QED  BY <2>1, <2>2, FS_Injection
<1>8. A = [k \in 1..N |-> CHOOSE x \in S : Cardinality(Below(x)) = k - 1]
  BY DEF Ascending
<1>9. ASSUME NEW k \in 1..N PROVE A[k] \in S /\ R[A[k]] = k
  <2>1. PICK x \in S : R[x] = k  BY <1>7 DEF Surjection
  <2>2. Cardinality(Below(x)) = k - 1
    <3>1. Cardinality(Below(x)) \in Nat /\ R[x] = Cardinality(Below(x)) + 1
      BY <1>2 DEF R
    <3> HIDE DEF Below
    <3>2. QED  BY <2>1, <3>1
  <2>3. A[k] = CHOOSE z \in S : Cardinality(Below(z)) = k - 1  BY <1>8
  <2> HIDE DEF A, Below
  <2>4. A[k] \in S /\ Cardinality(Below(A[k])) = k - 1  BY <2>2, <2>3
  <2>5. QED  BY <2>4 DEF R
<1>10. DOMAIN A = 1..N  BY <1>8
<1> HIDE DEF A
<1>11. A \in Seq(S) /\ Len(A) = N
  <2>1. A \in [1..N -> S]  BY <1>8, <1>9
  <2>2. QED  BY <1>1, <2>1
<1>12. ASSUME NEW x \in S PROVE \E k \in 1..N : A[k] = x
  <2>1. A[R[x]] \in S /\ R[A[R[x]]] = R[x]  BY <1>3, <1>9
  <2>2. QED  BY <1>3, <1>6, <2>1
<1>13. Range(A) = S  BY <1>9, <1>10, <1>12 DEF Range
<1>14. ASSUME NEW i \in 1..N, NEW j \in 1..N, i < j PROVE A[i] < A[j]
  <2>1. A[i] \in S /\ A[j] \in S /\ R[A[i]] = i /\ R[A[j]] = j  BY <1>9
  <2>2. A[i] # A[j]  BY <1>14, <2>1
  <2>3. ~(A[j] < A[i])
    <3>1. A[j] < A[i] => R[A[j]] < R[A[i]]  BY <1>4, <2>1
    <3>2. QED  BY <1>14, <2>1, <3>1
  <2>4. A[i] \in Nat /\ A[j] \in Nat  BY <2>1
  <2>5. QED  BY <2>2, <2>3, <2>4
<1>15. QED  BY <1>10, <1>11, <1>13, <1>14 DEF A

-----------------------------------------------------------------------------
(* What is written is what is read.                                        *)

Shapes == {"type", "number", "text", "list"}

(* What a shape can write. *)
Fits(shape) == CASE shape = "type" -> Range(TypeNames)
                 [] shape = "number" -> Nat
                 [] shape = "text" -> Texts
                 [] shape = "list" -> {S \in SUBSET Nat : IsFiniteSet(S)}

Bytes == Nat \cup DOMAIN Lower

(* The sequence s is in the data from place p on. *)
HasAt(data, p, s) == \A j \in 1..Len(s) : data[p + j - 1] = s[j]

LEMMA HasAtParts ==
  ASSUME NEW data, NEW p \in Nat, NEW s \in Seq(Bytes), NEW t \in Seq(Bytes),
         HasAt(data, p, s \o t)
  PROVE  HasAt(data, p, s) /\ HasAt(data, p + Len(s), t)
<1> DEFINE u == s \o t
<1>1. /\ Len(u) = Len(s) + Len(t) /\ Len(s) \in Nat /\ Len(t) \in Nat
      /\ \A i \in 1..Len(s) + Len(t) :
           u[i] = IF i <= Len(s) THEN s[i] ELSE t[i - Len(s)]
  BY ConcatProperties, LenProperties
<1>2. \A j \in 1..Len(u) : data[p + j - 1] = u[j]  BY DEF HasAt
<1> HIDE DEF u
<1>3. ASSUME NEW j \in 1..Len(s) PROVE data[p + j - 1] = s[j]
  <2>1. j \in 1..Len(u)  BY <1>1
  <2>2. QED  BY <1>1, <1>2, <2>1
<1>4. ASSUME NEW j \in 1..Len(t) PROVE data[p + Len(s) + j - 1] = t[j]
  <2>1. j + Len(s) \in 1..Len(u) /\ ~(j + Len(s) <= Len(s))  BY <1>1
  <2>2. u[j + Len(s)] = t[j]  BY <1>1, <2>1
  <2>3. data[p + (j + Len(s)) - 1] = u[j + Len(s)]  BY <1>2, <2>1
  <2>4. p + (j + Len(s)) - 1 = p + Len(s) + j - 1  BY <1>1
  <2>5. QED  BY <2>2, <2>3, <2>4
<1>5. QED  BY <1>3, <1>4 DEF HasAt

LEMMA TypesHaveOrds ==
  ASSUME NEW type \in Range(TypeNames)
  PROVE  TypeOrd(type) \in 0..14 /\ TypeFromOrd(TypeOrd(type)) = type
<1>1. DOMAIN TypeNames = 1..15  BY DEF TypeNames
<1>2. PICK k \in 1..15 : TypeNames[k] = type  BY <1>1 DEF Range
<1>3. k - 1 \in 0..14 /\ TypeNames[(k - 1) + 1] = type  BY <1>2
<1> DEFINE P(n) == TypeNames[n + 1] = type
<1>4. TypeOrd(type) = CHOOSE n \in 0..14 : P(n)  BY DEF TypeOrd
<1>5. P(k - 1)  BY <1>3
<1> HIDE DEF P
<1>6. TypeOrd(type) \in 0..14 /\ P(TypeOrd(type))  BY <1>3, <1>4, <1>5
<1>7. QED  BY <1>6 DEF P, TypeFromOrd

(* A sequence of one element in front of another. *)
LEMMA Led ==
  ASSUME NEW n \in Nat, NEW s \in Seq(Bytes)
  PROVE  /\ <<n>> \in Seq(Bytes) /\ Len(<<n>>) = 1 /\ <<n>>[1] = n
         /\ <<n>> \o s \in Seq(Bytes) /\ Len(<<n>> \o s) = Len(s) + 1
         /\ \A data, p : p \in Nat /\ HasAt(data, p, <<n>> \o s) =>
              data[p] = n /\ HasAt(data, p + 1, s)
<1>1. <<n>> \in Seq(Bytes) /\ Len(<<n>>) = 1 /\ <<n>>[1] = n  BY DEF Bytes
<1>2. <<n>> \o s \in Seq(Bytes) /\ Len(<<n>> \o s) = Len(s) + 1
  BY <1>1, ConcatProperties, LenProperties
<1>3. ASSUME NEW data, NEW p \in Nat, HasAt(data, p, <<n>> \o s)
      PROVE  data[p] = n /\ HasAt(data, p + 1, s)
  <2>1. HasAt(data, p, <<n>>) /\ HasAt(data, p + 1, s)
    BY <1>1, <1>3, HasAtParts
  <2>2. 1 \in 1..Len(<<n>>) /\ p + 1 - 1 = p  BY <1>1
  <2>3. QED  BY <1>1, <2>1, <2>2 DEF HasAt
<1>4. QED  BY <1>1, <1>2, <1>3

LEMMA TextsAreBytes ==
  ASSUME NEW text \in Texts
  PROVE  /\ text \in Seq(Bytes) /\ Len(text) \in Nat
BY LenProperties, SeqMonotonic DEF Texts, Bytes

LEMMA ListsAreBytes ==
  ASSUME NEW S \in SUBSET Nat, IsFiniteSet(S)
  PROVE  /\ Ascending(S) \in Seq(Bytes) /\ Cardinality(S) \in Nat
         /\ Len(Ascending(S)) = Cardinality(S)
         /\ DOMAIN Ascending(S) = 1..Cardinality(S)
         /\ Range(Ascending(S)) = S
<1>1. Ascending(S) \in Seq(S) /\ S \subseteq Bytes  BY AscendingLists DEF Bytes
<1>2. Ascending(S) \in Seq(Bytes)  BY <1>1, SeqMonotonic
<1>3. QED  BY <1>2, AscendingLists, FS_CardinalityType

LEMMA Encoded ==
  ASSUME NEW shape \in Shapes, NEW x \in Fits(shape)
  PROVE  Encode(shape, x) \in Seq(Bytes) /\ Len(Encode(shape, x)) \in Nat
<1>1. CASE shape = "type"
  <2>1. Encode(shape, x) = <<TypeOrd(x)>> /\ TypeOrd(x) \in Nat
    BY <1>1, TypesHaveOrds DEF Encode, Fits
  <2>2. QED  BY <2>1, Led, EmptySeq
<1>2. CASE shape = "number"
  <2>1. Encode(shape, x) = <<x>> /\ x \in Nat  BY <1>2 DEF Encode, Fits
  <2>2. QED  BY <2>1, Led, EmptySeq
<1>3. CASE shape = "text"
  <2>1. Encode(shape, x) = <<Len(x)>> \o x /\ x \in Texts
    BY <1>3 DEF Encode, Fits
  <2>2. QED  BY <2>1, Led, TextsAreBytes, LenProperties
<1>4. CASE shape = "list"
  <2>1. /\ Encode(shape, x) = <<Cardinality(x)>> \o Ascending(x)
        /\ x \in SUBSET Nat /\ IsFiniteSet(x)
    BY <1>4 DEF Encode, Fits
  <2>2. QED  BY <2>1, Led, ListsAreBytes, LenProperties
<1>5. QED  BY <1>1, <1>2, <1>3, <1>4 DEF Shapes

LEMMA Decoded ==
  ASSUME NEW shape \in Shapes, NEW x \in Fits(shape), NEW data, NEW p \in Nat,
         HasAt(data, p, Encode(shape, x))
  PROVE  Decode(shape, data, p) = [got |-> x, at |-> p + Len(Encode(shape, x))]
<1> DEFINE e == Encode(shape, x)
<1>1. CASE shape = "type"
  <2>1. e = <<TypeOrd(x)>> /\ TypeFromOrd(TypeOrd(x)) = x /\ TypeOrd(x) \in Nat
    BY <1>1, TypesHaveOrds DEF Encode, Fits
  <2>2. Len(e) = 1 /\ e[1] = TypeOrd(x)  BY <2>1, Led, EmptySeq
  <2>3. data[p] = TypeOrd(x)
    <3>1. 1 \in 1..Len(e) /\ p + 1 - 1 = p  BY <2>2
    <3>2. QED  BY <2>2, <3>1 DEF HasAt
  <2>4. Decode(shape, data, p) = [got |-> TypeFromOrd(data[p]), at |-> p + 1]
    BY <1>1 DEF Decode
  <2>5. QED  BY <2>1, <2>2, <2>3, <2>4
<1>2. CASE shape = "number"
  <2>1. e = <<x>> /\ x \in Nat  BY <1>2 DEF Encode, Fits
  <2>2. Len(e) = 1 /\ e[1] = x  BY <2>1, Led, EmptySeq
  <2>3. data[p] = x
    <3>1. 1 \in 1..Len(e) /\ p + 1 - 1 = p  BY <2>2
    <3>2. QED  BY <2>2, <3>1 DEF HasAt
  <2>4. Decode(shape, data, p) = [got |-> data[p], at |-> p + 1]
    BY <1>2 DEF Decode
  <2>5. QED  BY <2>2, <2>3, <2>4
<1>3. CASE shape = "text"
  <2>1. e = <<Len(x)>> \o x /\ x \in Texts  BY <1>3 DEF Encode, Fits
  <2>2. x \in Seq(Bytes) /\ Len(x) \in Nat  BY <2>1, TextsAreBytes
  <2>3. Len(e) = Len(x) + 1 /\ data[p] = Len(x) /\ HasAt(data, p + 1, x)
    BY <2>1, <2>2, Led
  <2> DEFINE r == SubSeq(data, p + 1, p + Len(x))
  <2>4. r = x
    <3>1. \A i \in p + 1..p + Len(x) : data[i] \in Bytes
      <4>1. TAKE i \in p + 1..p + Len(x)
      <4>2. i - p \in 1..Len(x) /\ (p + 1) + (i - p) - 1 = i  BY <2>2
      <4>3. data[i] = x[i - p]  BY <2>3, <4>2 DEF HasAt
      <4>4. QED  BY <2>2, <4>2, <4>3, ElementOfSeq
    <3>2. /\ r \in Seq(Bytes)
          /\ Len(r) = IF p + 1 <= p + Len(x) THEN p + Len(x) - (p + 1) + 1 ELSE 0
          /\ \A i \in 1..p + Len(x) - (p + 1) + 1 : r[i] = data[(p + 1) + i - 1]
      BY <2>2, <3>1, SubSeqProperties
    <3> HIDE DEF r
    <3>3. Len(r) = Len(x)  BY <2>2, <3>2
    <3>4. \A i \in 1..Len(r) : r[i] = x[i]
      BY <2>2, <2>3, <3>2, <3>3 DEF HasAt
    <3>5. QED  BY <2>2, <3>2, <3>3, <3>4, SeqEqual
  <2>5. Decode(shape, data, p) =
          [got |-> SubSeq(data, p + 1, p + data[p]), at |-> p + data[p] + 1]
    BY <1>3 DEF Decode
  <2> HIDE DEF e
  <2>6. p + Len(x) + 1 = p + Len(e)  BY <2>2, <2>3
  <2>7. QED  BY <2>3, <2>4, <2>5, <2>6 DEF e
<1>4. CASE shape = "list"
  <2>1. /\ e = <<Cardinality(x)>> \o Ascending(x)
        /\ x \in SUBSET Nat /\ IsFiniteSet(x)
    BY <1>4 DEF Encode, Fits
  <2> DEFINE s == Ascending(x)
             n == Cardinality(x)
  <2>2. /\ s \in Seq(Bytes) /\ n \in Nat /\ Len(s) = n /\ DOMAIN s = 1..n
        /\ Range(s) = x
    BY <2>1, ListsAreBytes
  <2>8. e = <<n>> \o s /\ HasAt(data, p, e)  BY <2>1
  <2> HIDE DEF s, n, e
  <2>3. Len(e) = n + 1 /\ data[p] = n /\ HasAt(data, p + 1, s)
    BY <2>2, <2>8, Led, LenProperties
  <2>4. {data[j] : j \in p + 1..p + n} = x
    <3>1. \A i \in 1..n : data[p + i] = s[i]
      <4>1. TAKE i \in 1..n
      <4>2. (p + 1) + i - 1 = p + i  OBVIOUS
      <4>3. QED  BY <2>2, <2>3, <4>2 DEF HasAt
    <3>2. x = {s[i] : i \in 1..n}  BY <2>2 DEF Range
    <3>3. \A j \in p + 1..p + n : data[j] \in x
      <4>1. TAKE j \in p + 1..p + n
      <4>2. j - p \in 1..n /\ p + (j - p) = j  BY <2>2
      <4>3. QED  BY <3>1, <3>2, <4>2
    <3>4. \A y \in x : \E j \in p + 1..p + n : y = data[j]
      <4>1. TAKE y \in x
      <4>2. PICK i \in 1..n : y = s[i]  BY <3>2
      <4>3. p + i \in p + 1..p + n /\ data[p + i] = y  BY <2>2, <3>1, <4>2
      <4>4. QED  BY <4>3
    <3>5. QED  BY <3>3, <3>4
  <2>5. Decode(shape, data, p) =
          [got |-> {data[j] : j \in p + 1..p + data[p]}, at |-> p + data[p] + 1]
    BY <1>4 DEF Decode
  <2>6. p + n + 1 = p + Len(e)  BY <2>2, <2>3
  <2>7. QED  BY <2>3, <2>4, <2>5, <2>6 DEF e
<1>5. QED  BY <1>1, <1>2, <1>3, <1>4 DEF Shapes, e

(* A map of a section, whose keys and values can be written. *)
IsMap(f, key, value) ==
  /\ IsFiniteSet(DOMAIN f)
  /\ f = [k \in DOMAIN f |-> f[k]]
  /\ \A k \in DOMAIN f : k \in Fits(key) /\ f[k] \in Fits(value)

(* One step of EncodeMap: s.left without the key k that is written now. *)
NextKey(s) == CHOOSE k \in s.left : TRUE
After(f, key, value, s) ==
  [left |-> s.left \ {NextKey(s)},
   out |-> s.out \o Encode(key, NextKey(s)) \o Encode(value, f[NextKey(s)])]

Start(f) == [left |-> DOMAIN f, out |-> <<Cardinality(DOMAIN f)>>]

(* to holds the first n steps of EncodeMap. *)
Walk(f, key, value, to, n) ==
  /\ DOMAIN to = 0..n
  /\ to[0] = Start(f)
  /\ \A m \in 1..n : to[m] = After(f, key, value, to[m - 1])

Rest(f, s, n) ==
  /\ s = [left |-> s.left, out |-> s.out]
  /\ s.left \subseteq DOMAIN f /\ IsFiniteSet(s.left) /\ Cardinality(s.left) = n
  /\ s.out \in Seq(Bytes)

LEMMA AfterIsRest ==
  ASSUME NEW key \in Shapes, NEW value \in Shapes, NEW f, IsMap(f, key, value),
         NEW n \in Nat, NEW s, Rest(f, s, n + 1)
  PROVE  /\ Rest(f, After(f, key, value, s), n)
         /\ NextKey(s) \in s.left
<1> DEFINE k == NextKey(s)
           a == Encode(key, k)
           b == Encode(value, f[k])
<1>1. s.left # {}  BY FS_EmptySet DEF Rest
<1>2. k \in s.left  BY <1>1 DEF NextKey
<1>3. k \in DOMAIN f  BY <1>2 DEF Rest
<1>4. a \in Seq(Bytes) /\ b \in Seq(Bytes)  BY <1>3, Encoded DEF IsMap
<1>5. /\ IsFiniteSet(s.left \ {k})
      /\ Cardinality(s.left \ {k}) = n
  <2> DEFINE L == s.left
  <2>1. IsFiniteSet(L) /\ Cardinality(L) = n + 1 /\ k \in L
    BY <1>2 DEF Rest
  <2> HIDE DEF L, k
  <2>2. IsFiniteSet(L \ {k}) /\ Cardinality(L \ {k}) = Cardinality(L) - 1
    BY <2>1, FS_RemoveElement
  <2>3. QED  BY <2>1, <2>2 DEF L, k
<1>6. After(f, key, value, s) = [left |-> s.left \ {k}, out |-> s.out \o a \o b]
  BY DEF After
<1> HIDE DEF k, a, b
<1>7. s.out \o a \o b \in Seq(Bytes)  BY <1>4, ConcatProperties DEF Rest
<1>8. s.left \ {k} \subseteq DOMAIN f  BY DEF Rest
<1> DEFINE r == After(f, key, value, s)
<1>9. r.left = s.left \ {k} /\ r.out = s.out \o a \o b
      /\ r = [left |-> r.left, out |-> r.out]
  BY <1>6
<1> HIDE DEF r
<1>10. Rest(f, r, n)  BY <1>5, <1>7, <1>8, <1>9 DEF Rest
<1>11. QED  BY <1>2, <1>10 DEF r, k

LEMMA WalksAreRests ==
  ASSUME NEW key \in Shapes, NEW value \in Shapes, NEW f, IsMap(f, key, value),
         NEW N \in Nat, N = Cardinality(DOMAIN f),
         NEW n \in 0..N, NEW to, Walk(f, key, value, to, n)
  PROVE  \A m \in 0..n : Rest(f, to[m], N - m)
<1> DEFINE T == {m \in 0..n : Rest(f, to[m], N - m)}
<1>1. Rest(f, to[0], N - 0)
  <2>1. to[0] = Start(f)  BY DEF Walk
  <2>2. <<N>> \in Seq(Bytes)  BY DEF Bytes
  <2>3. Start(f) = [left |-> DOMAIN f, out |-> <<N>>]  BY DEF Start
  <2>4. N - 0 = N  OBVIOUS
  <2>5. QED  BY <2>1, <2>2, <2>3, <2>4 DEF Rest, IsMap
<1>2. ASSUME NEW m \in 1..n, Rest(f, to[m - 1], N - (m - 1))
      PROVE  Rest(f, to[m], N - m)
  <2>1. N - m \in Nat /\ N - (m - 1) = (N - m) + 1  OBVIOUS
  <2>2. to[m] = After(f, key, value, to[m - 1])  BY DEF Walk
  <2>3. QED  BY <1>2, <2>1, <2>2, AfterIsRest
<1>3. \A m \in 1..n : m - 1 \in T => m \in T  BY <1>2
<1>4. 0 \in T  BY <1>1
<1> HIDE DEF T
<1>5. 0..n \subseteq T  BY <1>3, <1>4, UpTo
<1>6. QED  BY <1>5 DEF T

LEMMA WalkExists ==
  ASSUME NEW key \in Shapes, NEW value \in Shapes, NEW f, IsMap(f, key, value),
         NEW N \in Nat, N = Cardinality(DOMAIN f)
  PROVE  \E to : Walk(f, key, value, to, N)
<1> DEFINE T == {n \in 0..N : \E to : Walk(f, key, value, to, n)}
<1>1. 0 \in T
  <2>1. Walk(f, key, value, [m \in 0..0 |-> Start(f)], 0)  BY DEF Walk
  <2>2. QED  BY <2>1
<1>2. ASSUME NEW n \in 1..N, NEW to, Walk(f, key, value, to, n - 1)
      PROVE  \E w : Walk(f, key, value, w, n)
  <2> DEFINE w == [m \in 0..n |-> IF m = n THEN After(f, key, value, to[n - 1])
                                  ELSE to[m]]
  <2>1. DOMAIN w = 0..n /\ w[n] = After(f, key, value, to[n - 1])  OBVIOUS
  <2>2. \A m \in 0..n - 1 : w[m] = to[m]  OBVIOUS
  <2> HIDE DEF w
  <2>3. w[0] = Start(f)  BY <1>2, <2>2 DEF Walk
  <2>4. ASSUME NEW m \in 1..n PROVE w[m] = After(f, key, value, w[m - 1])
    <3>1. CASE m = n  BY <2>1, <2>2, <3>1
    <3>2. CASE m # n
      <4>1. m \in 1..n - 1 /\ m - 1 \in 0..n - 1  BY <3>2
      <4>2. to[m] = After(f, key, value, to[m - 1])  BY <1>2, <4>1 DEF Walk
      <4>3. QED  BY <2>2, <4>1, <4>2
    <3>3. QED  BY <3>1, <3>2
  <2>5. Walk(f, key, value, w, n)  BY <2>1, <2>3, <2>4 DEF Walk
  <2>6. QED  BY <2>5
<1>3. \A n \in 1..N : n - 1 \in T => n \in T  BY <1>2
<1> HIDE DEF T
<1>4. 0..N \subseteq T  BY <1>1, <1>3, UpTo
<1>5. QED  BY <1>4 DEF T

(* EncodeMap writes the size and then the entries, one step after another. *)
LEMMA EncodeMapWalks ==
  ASSUME NEW key \in Shapes, NEW value \in Shapes, NEW f, IsMap(f, key, value),
         NEW N \in Nat, N = Cardinality(DOMAIN f)
  PROVE  \E to : /\ Walk(f, key, value, to, N)
                 /\ EncodeMap(f, key, value) = to[N].out
<1> DEFINE P(to) ==
      to = [n \in 0..N |-> IF n = 0 THEN Start(f)
                           ELSE After(f, key, value, to[n - 1])]
<1>1. EncodeMap(f, key, value) = (CHOOSE to : P(to))[N].out
  BY DEF EncodeMap, Start, After, NextKey
<1>2. ASSUME NEW to, P(to) PROVE Walk(f, key, value, to, N)
  BY <1>2 DEF Walk
<1>3. \E to : P(to)
  <2>1. PICK to : Walk(f, key, value, to, N)  BY WalkExists
  <2> DEFINE w == [n \in 0..N |-> to[n]]
  <2>2. w = [n \in 0..N |-> IF n = 0 THEN Start(f)
                            ELSE After(f, key, value, w[n - 1])]
    <3>1. \A n \in 0..N : n # 0 => n - 1 \in 0..N /\ n \in 1..N  OBVIOUS
    <3>2. \A n \in 0..N : w[n] = IF n = 0 THEN Start(f)
                                 ELSE After(f, key, value, w[n - 1])
      BY <2>1, <3>1 DEF Walk
    <3> HIDE DEF w
    <3>3. w = [n \in 0..N |-> w[n]]  BY DEF w
    <3>4. QED  BY <3>2, <3>3
  <2>3. P(w)  BY <2>2
  <2>4. QED  BY <2>3
<1> HIDE DEF P
<1>4. P(CHOOSE to : P(to))  BY <1>3
<1>5. QED  BY <1>1, <1>2, <1>4

KeyBytes(key, s) == Encode(key, NextKey(s))
ValueBytes(f, value, s) == Encode(value, f[NextKey(s)])

(* The entry of step m: its key and its value follow what was written. *)
LEMMA EntryIsAt ==
  ASSUME NEW key \in Shapes, NEW value \in Shapes, NEW f, IsMap(f, key, value),
         NEW n \in Nat, NEW s, Rest(f, s, n + 1), NEW data, NEW p \in Nat,
         HasAt(data, p, After(f, key, value, s).out)
  PROVE  /\ HasAt(data, p, s.out)
         /\ HasAt(data, p + Len(s.out), KeyBytes(key, s))
         /\ HasAt(data, p + Len(s.out) + Len(KeyBytes(key, s)),
                  ValueBytes(f, value, s))
         /\ Len(s.out) \in Nat
         /\ Len(KeyBytes(key, s)) \in Nat
         /\ Len(ValueBytes(f, value, s)) \in Nat
         /\ Len(After(f, key, value, s).out) =
              Len(s.out) + Len(KeyBytes(key, s)) + Len(ValueBytes(f, value, s))
<1> DEFINE a == Encode(key, NextKey(s))
           b == Encode(value, f[NextKey(s)])
           o == s.out
<1>1. NextKey(s) \in DOMAIN f  BY AfterIsRest DEF Rest
<1>11. KeyBytes(key, s) = a /\ ValueBytes(f, value, s) = b
  BY DEF KeyBytes, ValueBytes
<1>2. a \in Seq(Bytes) /\ b \in Seq(Bytes)  BY <1>1, Encoded DEF IsMap
<1>3. After(f, key, value, s).out = (o \o a) \o b  BY DEF After
<1>4. o \in Seq(Bytes)  BY DEF Rest
<1> HIDE DEF a, b, o
<1>5. o \o a \in Seq(Bytes)  BY <1>2, <1>4, ConcatProperties
<1>6. HasAt(data, p, o \o a) /\ HasAt(data, p + Len(o \o a), b)
  BY <1>2, <1>3, <1>5, HasAtParts
<1>7. HasAt(data, p, o) /\ HasAt(data, p + Len(o), a)
  BY <1>2, <1>4, <1>6, HasAtParts
<1>8. /\ Len(o) \in Nat /\ Len(a) \in Nat /\ Len(b) \in Nat
      /\ Len(o \o a) = Len(o) + Len(a)
      /\ Len((o \o a) \o b) = Len(o \o a) + Len(b)
  BY <1>2, <1>4, <1>5, ConcatProperties, LenProperties
<1>9. p + Len(o \o a) = p + Len(o) + Len(a)  BY <1>8
<1>12. Len(After(f, key, value, s).out) = Len(o) + Len(a) + Len(b)
  BY <1>3, <1>8
<1>10. QED  BY <1>6, <1>7, <1>8, <1>9, <1>11, <1>12 DEF o

(* All that was written before step n is still there. *)
LEMMA PrefixesAreAt ==
  ASSUME NEW key \in Shapes, NEW value \in Shapes, NEW f, IsMap(f, key, value),
         NEW N \in Nat, N = Cardinality(DOMAIN f),
         NEW to, Walk(f, key, value, to, N),
         NEW data, NEW p \in Nat, HasAt(data, p, to[N].out)
  PROVE  \A m \in 0..N : HasAt(data, p, to[m].out)
<1> DEFINE T == {j \in 0..N : HasAt(data, p, to[N - j].out)}
<1>1. 0 \in T
  <2>1. N - 0 = N  OBVIOUS
  <2>2. QED  BY <2>1
<1>2. ASSUME NEW j \in 1..N, HasAt(data, p, to[N - (j - 1)].out)
      PROVE  HasAt(data, p, to[N - j].out)
  <2> DEFINE m == N - (j - 1)
  <2>1. m \in 1..N /\ m - 1 = N - j /\ N - (m - 1) = (N - m) + 1 /\ N - m \in Nat
    OBVIOUS
  <2> HIDE DEF m
  <2>2. to[m] = After(f, key, value, to[m - 1])  BY <2>1 DEF Walk
  <2>3. m - 1 \in 0..N  BY <2>1
  <2>4. Rest(f, to[m - 1], N - (m - 1))  BY <2>3, WalksAreRests
  <2>5. HasAt(data, p, to[m].out)  BY <1>2 DEF m
  <2>6. HasAt(data, p, to[m - 1].out)
    <3>1. HasAt(data, p, After(f, key, value, to[m - 1]).out)  BY <2>2, <2>5
    <3>2. N - m \in Nat /\ Rest(f, to[m - 1], (N - m) + 1)  BY <2>1, <2>4
    <3>3. QED  BY <3>1, <3>2, EntryIsAt
  <2>7. QED  BY <2>1, <2>6
<1>3. \A j \in 1..N : j - 1 \in T => j \in T  BY <1>2
<1> HIDE DEF T
<1>4. 0..N \subseteq T  BY <1>1, <1>3, UpTo
<1>5. ASSUME NEW m \in 0..N PROVE HasAt(data, p, to[m].out)
  <2>1. N - m \in 0..N /\ N - (N - m) = m  OBVIOUS
  <2>2. N - m \in T  BY <1>4, <2>1
  <2>3. QED  BY <2>1, <2>2 DEF T
<1>6. QED  BY <1>5

(* One step of DecodeMap, and what it has read after the steps before. *)
NextRead(data, key, value, so) ==
  LET k == Decode(key, data, so.at)
      v == Decode(value, data, k.at)
  IN  [got |-> Inserted(so.got, k.got, v.got), at |-> v.at]

ReadSoFar(f, p, s) ==
  [got |-> [k \in DOMAIN f \ s.left |-> f[k]], at |-> p + Len(s.out)]

LEMMA EntryIsRead ==
  ASSUME NEW key \in Shapes, NEW value \in Shapes, NEW f, IsMap(f, key, value),
         NEW n \in Nat, NEW s, Rest(f, s, n + 1), NEW data, NEW p \in Nat,
         HasAt(data, p, After(f, key, value, s).out)
  PROVE  NextRead(data, key, value, ReadSoFar(f, p, s)) =
           ReadSoFar(f, p, After(f, key, value, s))
<1> DEFINE k == NextKey(s)
           a == Encode(key, k)
           b == Encode(value, f[k])
           o == s.out
           g == [x \in DOMAIN f \ s.left |-> f[x]]
           r == After(f, key, value, s)
<1>1. k \in DOMAIN f /\ k \in s.left  BY AfterIsRest DEF Rest
<1>2. /\ HasAt(data, p + Len(o), a)
      /\ HasAt(data, p + Len(o) + Len(a), b)
      /\ Len(o) \in Nat /\ Len(a) \in Nat /\ Len(b) \in Nat
      /\ Len(r.out) = Len(o) + Len(a) + Len(b)
  <2>1. /\ HasAt(data, p + Len(s.out), KeyBytes(key, s))
        /\ HasAt(data, p + Len(s.out) + Len(KeyBytes(key, s)),
                 ValueBytes(f, value, s))
        /\ Len(s.out) \in Nat
        /\ Len(KeyBytes(key, s)) \in Nat
        /\ Len(ValueBytes(f, value, s)) \in Nat
        /\ Len(After(f, key, value, s).out) =
             Len(s.out) + Len(KeyBytes(key, s)) + Len(ValueBytes(f, value, s))
    BY EntryIsAt
  <2>2. KeyBytes(key, s) = a /\ ValueBytes(f, value, s) = b
    BY DEF KeyBytes, ValueBytes
  <2> HIDE DEF a, b
  <2>3. QED  BY <2>1, <2>2
<1>3. k \in Fits(key) /\ f[k] \in Fits(value)  BY <1>1 DEF IsMap
<1>4. r.left = s.left \ {k}  BY DEF After
<1>5. ReadSoFar(f, p, s) = [got |-> g, at |-> p + Len(o)]  BY DEF ReadSoFar
<1>6. ReadSoFar(f, p, r) =
        [got |-> [x \in DOMAIN f \ r.left |-> f[x]], at |-> p + Len(r.out)]
  BY DEF ReadSoFar
<1>7. p + Len(o) \in Nat /\ p + Len(o) + Len(a) \in Nat
      /\ p + Len(o) + Len(a) + Len(b) = p + Len(r.out)
  <2> HIDE DEF a, b, o, r
  <2>1. QED  BY <1>2
<1>8. Inserted(g, k, f[k]) = [x \in DOMAIN f \ r.left |-> f[x]]
  <2> HIDE DEF k, r
  <2>1. {k} \cup (DOMAIN f \ s.left) = DOMAIN f \ r.left  BY <1>1, <1>4
  <2>2. \A x \in DOMAIN f \ r.left :
          (IF x = k THEN f[k] ELSE g[x]) = f[x]
    BY <1>1, <1>4
  <2>3. DOMAIN g = DOMAIN f \ s.left  OBVIOUS
  <2> HIDE DEF g
  <2>4. Inserted(g, k, f[k]) = [x \in DOMAIN f \ r.left |->
                                  IF x = k THEN f[k] ELSE g[x]]
    BY <2>1, <2>3 DEF Inserted
  <2>5. QED  BY <2>2, <2>4
<1> HIDE DEF a, b, o, g, k, r
<1>9. Decode(key, data, p + Len(o)) = [got |-> k, at |-> p + Len(o) + Len(a)]
  BY <1>2, <1>3, <1>7, Decoded DEF a
<1>10. Decode(value, data, p + Len(o) + Len(a)) =
         [got |-> f[k], at |-> p + Len(o) + Len(a) + Len(b)]
  BY <1>2, <1>3, <1>7, Decoded DEF b
<1>11. NextRead(data, key, value, [got |-> g, at |-> p + Len(o)]) =
         [got |-> Inserted(g, k, f[k]), at |-> p + Len(o) + Len(a) + Len(b)]
  BY <1>9, <1>10 DEF NextRead
<1>12. QED  BY <1>5, <1>6, <1>7, <1>8, <1>11 DEF r

(* What DecodeMap reads is what EncodeMap wrote, wherever it is. *)
LEMMA MapIsRead ==
  ASSUME NEW key \in Shapes, NEW value \in Shapes, NEW f, IsMap(f, key, value),
         NEW data, NEW p \in Nat, HasAt(data, p, EncodeMap(f, key, value))
  PROVE  DecodeMap(data, p, key, value) =
           [got |-> f, at |-> p + Len(EncodeMap(f, key, value))]
<1> DEFINE N == Cardinality(DOMAIN f)
<1>1. N \in Nat  BY FS_CardinalityType DEF IsMap
<1> HIDE DEF N
<1>2. PICK to : Walk(f, key, value, to, N) /\ EncodeMap(f, key, value) = to[N].out
  BY <1>1, EncodeMapWalks DEF N
<1>3. \A m \in 0..N : HasAt(data, p, to[m].out)
  BY <1>1, <1>2, PrefixesAreAt DEF N
<1>4. \A m \in 0..N : Rest(f, to[m], N - m)
  <2>1. N \in 0..N  BY <1>1
  <2>2. QED  BY <1>1, <1>2, <2>1, WalksAreRests DEF N
<1>5. to[0] = [left |-> DOMAIN f, out |-> <<N>>]
  BY <1>2 DEF Walk, Start, N
<1>6. data[p] = N
  <2>1. HasAt(data, p, <<N>>)
    <3>1. 0 \in 0..N  BY <1>1
    <3>2. QED  BY <1>3, <1>5, <3>1
  <2>2. Len(<<N>>) = 1 /\ <<N>>[1] = N  OBVIOUS
  <2>3. 1 \in 1..1 /\ p + 1 - 1 = p  OBVIOUS
  <2>4. QED  BY <2>1, <2>2, <2>3 DEF HasAt
<1> DEFINE R(n) == ReadSoFar(f, p, to[n])
           Zero == [got |-> <<>>, at |-> p + 1]
           Q(read) == read = [n \in 0..N |-> IF n = 0 THEN Zero
                       ELSE NextRead(data, key, value, read[n - 1])]
<1>7. R(0) = Zero
  <2>1. R(0) = [got |-> [k \in DOMAIN f \ DOMAIN f |-> f[k]], at |-> p + Len(<<N>>)]
    BY <1>5 DEF ReadSoFar
  <2>2. [k \in DOMAIN f \ DOMAIN f |-> f[k]] = <<>>  OBVIOUS
  <2>3. Len(<<N>>) = 1  OBVIOUS
  <2>4. QED  BY <2>1, <2>2, <2>3
<1>8. ASSUME NEW n \in 1..N PROVE R(n) = NextRead(data, key, value, R(n - 1))
  <2>1. n - 1 \in 0..N /\ N - n \in Nat /\ N - (n - 1) = (N - n) + 1 /\ n \in 0..N
    BY <1>1
  <2>2. to[n] = After(f, key, value, to[n - 1])  BY <1>2 DEF Walk
  <2>3. Rest(f, to[n - 1], (N - n) + 1)
    <3>1. Rest(f, to[n - 1], N - (n - 1))  BY <1>4, <2>1
    <3>2. QED  BY <2>1, <3>1
  <2>4. HasAt(data, p, to[n].out)  BY <1>3, <2>1
  <2>5. QED  BY <2>1, <2>2, <2>3, <2>4, EntryIsRead
<1> HIDE DEF R
<1>9. Q([n \in 0..N |-> R(n)])
  <2> DEFINE r == [n \in 0..N |-> R(n)]
  <2>1. \A n \in 0..N : n # 0 => n - 1 \in 0..N /\ n \in 1..N  BY <1>1
  <2>2. \A n \in 0..N : r[n] = IF n = 0 THEN Zero
                               ELSE NextRead(data, key, value, r[n - 1])
    BY <1>7, <1>8, <2>1
  <2>3. r = [n \in 0..N |-> r[n]]  OBVIOUS
  <2> HIDE DEF r
  <2>4. Q(r)  BY <2>2, <2>3
  <2>5. QED  BY <2>4 DEF r
<1>10. ASSUME NEW c, Q(c) PROVE c[N] = R(N)
  <2> DEFINE T == {n \in 0..N : c[n] = R(n)}
  <2>1. 0 \in T  BY <1>1, <1>7, <1>10
  <2>2. ASSUME NEW n \in 1..N, n - 1 \in T PROVE n \in T
    <3>1. n \in 0..N /\ n # 0  BY <1>1
    <3>2. c[n] = NextRead(data, key, value, c[n - 1])  BY <1>10, <3>1
    <3>3. QED  BY <1>8, <2>2, <3>1, <3>2
  <2> HIDE DEF T
  <2>3. 0..N \subseteq T  BY <1>1, <2>1, <2>2, UpTo
  <2>4. N \in T  BY <1>1, <2>3
  <2>5. QED  BY <2>4 DEF T
<1>11. DecodeMap(data, p, key, value) = (CHOOSE read : Q(read))[N]
  BY <1>6 DEF DecodeMap, NextRead
<1> HIDE DEF Q
<1>12. Q(CHOOSE read : Q(read))  BY <1>9
<1>13. DecodeMap(data, p, key, value) = R(N)  BY <1>10, <1>11, <1>12
<1>14. R(N) = [got |-> f, at |-> p + Len(to[N].out)]
  <2>1. Rest(f, to[N], 0)
    <3>1. N \in 0..N /\ N - N = 0  BY <1>1
    <3>2. QED  BY <1>4, <3>1
  <2>2. to[N].left = {}  BY <2>1, FS_EmptySet DEF Rest
  <2>3. R(N) = [got |-> [k \in DOMAIN f |-> f[k]], at |-> p + Len(to[N].out)]
    BY <2>2 DEF R, ReadSoFar
  <2>4. QED  BY <2>3 DEF IsMap
<1>15. QED  BY <1>2, <1>13, <1>14

LEMMA MapIsWritten ==
  ASSUME NEW key \in Shapes, NEW value \in Shapes, NEW f, IsMap(f, key, value)
  PROVE  /\ EncodeMap(f, key, value) \in Seq(Bytes)
         /\ Len(EncodeMap(f, key, value)) \in Nat
<1> DEFINE N == Cardinality(DOMAIN f)
<1>1. N \in Nat  BY FS_CardinalityType DEF IsMap
<1>2. PICK to : Walk(f, key, value, to, N) /\ EncodeMap(f, key, value) = to[N].out
  BY <1>1, EncodeMapWalks
<1>3. Rest(f, to[N], N - N)
  <2>1. N \in 0..N  BY <1>1
  <2> HIDE DEF N
  <2>2. QED  BY <1>1, <1>2, <2>1, WalksAreRests DEF N
<1>4. to[N].out \in Seq(Bytes)  BY <1>3 DEF Rest
<1>5. QED  BY <1>2, <1>4, LenProperties

(* An index whose sections can be written. *)
IsIndex(index) ==
  /\ index = [bitmap |-> index.bitmap, byPre |-> index.byPre,
              byPost |-> index.byPost, byContent |-> index.byContent,
              byLang |-> index.byLang, byDepth |-> index.byDepth,
              terms |-> index.terms, blockCount |-> index.blockCount,
              tokenCount |-> index.tokenCount]
  /\ IsMap(index.bitmap, "type", "list")
  /\ IsMap(index.byPre, "number", "number")
  /\ IsMap(index.byPost, "number", "number")
  /\ IsMap(index.byContent, "text", "list")
  /\ IsMap(index.byLang, "text", "list")
  /\ IsMap(index.byDepth, "number", "list")
  /\ IsMap(index.terms, "text", "list")
  /\ index.blockCount \in Nat /\ index.tokenCount \in Nat

(* A section behind what is in front of it: both are where they should be, *)
(* and the section is read as the map that was written.                    *)
LEMMA SectionIsRead ==
  ASSUME NEW key \in Shapes, NEW value \in Shapes, NEW f, IsMap(f, key, value),
         NEW t \in Seq(Bytes), NEW data,
         HasAt(data, 1, t \o EncodeMap(f, key, value))
  PROVE  /\ HasAt(data, 1, t)
         /\ DecodeMap(data, 1 + Len(t), key, value) =
              [got |-> f, at |-> 1 + Len(t \o EncodeMap(f, key, value))]
<1> DEFINE m == EncodeMap(f, key, value)
<1>1. m \in Seq(Bytes) /\ Len(m) \in Nat  BY MapIsWritten
<1>2. Len(t) \in Nat  BY LenProperties
<1> HIDE DEF m
<1>3. HasAt(data, 1, t) /\ HasAt(data, 1 + Len(t), m)
  BY <1>1, HasAtParts DEF m
<1>4. Len(t \o m) = Len(t) + Len(m)  BY <1>1, ConcatProperties
<1>5. 1 + Len(t) \in Nat /\ 1 + Len(t) + Len(m) = 1 + Len(t \o m)
  BY <1>1, <1>2, <1>4
<1>6. DecodeMap(data, 1 + Len(t), key, value) =
        [got |-> f, at |-> 1 + Len(t) + Len(m)]
  BY <1>3, <1>5, MapIsRead DEF m
<1>7. QED  BY <1>3, <1>5, <1>6 DEF m

(* Behind the sections are the two counts. *)
LEMMA IndexIsRead ==
  ASSUME NEW index, IsIndex(index)
  PROVE  FromBytes(ToBytes(index)) = index
<1> DEFINE m1 == EncodeMap(index.bitmap, "type", "list")
           m2 == EncodeMap(index.byPre, "number", "number")
           m3 == EncodeMap(index.byPost, "number", "number")
           m4 == EncodeMap(index.byContent, "text", "list")
           m5 == EncodeMap(index.byLang, "text", "list")
           m6 == EncodeMap(index.byDepth, "number", "list")
           m7 == EncodeMap(index.terms, "text", "list")
           c == <<index.blockCount, index.tokenCount>>
           t2 == m1 \o m2
           t3 == t2 \o m3
           t4 == t3 \o m4
           t5 == t4 \o m5
           t6 == t5 \o m6
           t7 == t6 \o m7
           data == t7 \o c
           S(n) == n \in Seq(Bytes)
<1>1. ToBytes(index) = data  BY DEF ToBytes
<1>2. S(m1) /\ S(m2) /\ S(m3) /\ S(m4) /\ S(m5) /\ S(m6) /\ S(m7)
  BY MapIsWritten DEF IsIndex, Shapes
<1>3. S(c) /\ Len(c) = 2 /\ c[1] = index.blockCount /\ c[2] = index.tokenCount
  BY DEF IsIndex, Bytes
<1> HIDE DEF m1, m2, m3, m4, m5, m6, m7, c
<1>4. S(t2) /\ S(t3) /\ S(t4) /\ S(t5) /\ S(t6) /\ S(t7) /\ S(data)
  <2>1. S(t2)  BY <1>2, ConcatProperties
  <2> HIDE DEF t2
  <2>2. S(t3)  BY <1>2, <2>1, ConcatProperties
  <2> HIDE DEF t3
  <2>3. S(t4)  BY <1>2, <2>2, ConcatProperties
  <2> HIDE DEF t4
  <2>4. S(t5)  BY <1>2, <2>3, ConcatProperties
  <2> HIDE DEF t5
  <2>5. S(t6)  BY <1>2, <2>4, ConcatProperties
  <2> HIDE DEF t6
  <2>6. S(t7)  BY <1>2, <2>5, ConcatProperties
  <2> HIDE DEF t7
  <2>7. S(data)  BY <1>3, <2>6, ConcatProperties
  <2>8. QED  BY <2>1, <2>2, <2>3, <2>4, <2>5, <2>6, <2>7
<1> DEFINE d == data
<1>5. HasAt(d, 1, t7) /\ HasAt(d, 1 + Len(t7), c)
  <2> HIDE DEF t7
  <2>1. HasAt(data, 1, data)
    <3>1. \A j \in 1..Len(data) : 1 + j - 1 = j
      <4> HIDE DEF data
      <4>1. Len(data) \in Nat  BY <1>4, LenProperties
      <4>2. QED  BY <4>1
    <3> HIDE DEF data
    <3>2. QED  BY <3>1 DEF HasAt
  <2>2. QED  BY <1>3, <1>4, <2>1, HasAtParts
<1> HIDE DEF d
<1>6. /\ HasAt(d, 1, t6)
      /\ DecodeMap(d, 1 + Len(t6), "text", "list") =
           [got |-> index.terms, at |-> 1 + Len(t7)]
  <2> HIDE DEF t6
  <2>1. QED  BY <1>4, <1>5, SectionIsRead DEF m7, IsIndex, Shapes
<1>7. /\ HasAt(d, 1, t5)
      /\ DecodeMap(d, 1 + Len(t5), "number", "list") =
           [got |-> index.byDepth, at |-> 1 + Len(t6)]
  <2> HIDE DEF t5
  <2>1. QED  BY <1>4, <1>6, SectionIsRead DEF m6, IsIndex, Shapes
<1>8. /\ HasAt(d, 1, t4)
      /\ DecodeMap(d, 1 + Len(t4), "text", "list") =
           [got |-> index.byLang, at |-> 1 + Len(t5)]
  <2> HIDE DEF t4
  <2>1. QED  BY <1>4, <1>7, SectionIsRead DEF m5, IsIndex, Shapes
<1>9. /\ HasAt(d, 1, t3)
      /\ DecodeMap(d, 1 + Len(t3), "text", "list") =
           [got |-> index.byContent, at |-> 1 + Len(t4)]
  <2> HIDE DEF t3
  <2>1. QED  BY <1>4, <1>8, SectionIsRead DEF m4, IsIndex, Shapes
<1>10. /\ HasAt(d, 1, t2)
       /\ DecodeMap(d, 1 + Len(t2), "number", "number") =
            [got |-> index.byPost, at |-> 1 + Len(t3)]
  <2> HIDE DEF t2
  <2>1. QED  BY <1>4, <1>9, SectionIsRead DEF m3, IsIndex, Shapes
<1>11. /\ HasAt(d, 1, m1)
       /\ DecodeMap(d, 1 + Len(m1), "number", "number") =
            [got |-> index.byPre, at |-> 1 + Len(t2)]
  BY <1>2, <1>10, SectionIsRead DEF m2, IsIndex, Shapes
<1>12. DecodeMap(d, 1, "type", "list") =
         [got |-> index.bitmap, at |-> 1 + Len(m1)]
  <2>1. 1 \in Nat  OBVIOUS
  <2>2. QED  BY <1>11, <2>1, MapIsRead DEF m1, IsIndex, Shapes
<1>13. /\ d[1 + Len(t7)] = index.blockCount
       /\ d[1 + Len(t7) + 1] = index.tokenCount
  <2> HIDE DEF t7
  <2>1. Len(t7) \in Nat  BY <1>4, LenProperties
  <2>2. 1 + Len(t7) + 1 - 1 = 1 + Len(t7) /\ 1 + Len(t7) + 2 - 1 = 1 + Len(t7) + 1
    BY <2>1
  <2>3. \A j \in 1..2 : d[1 + Len(t7) + j - 1] = c[j]  BY <1>3, <1>5 DEF HasAt
  <2>4. 1 \in 1..2 /\ 2 \in 1..2  OBVIOUS
  <2>5. QED  BY <1>3, <2>2, <2>3, <2>4
<1> HIDE DEF t2, t3, t4, t5, t6, t7, data
<1>14. FromBytes(d) =
         [bitmap |-> index.bitmap, byPre |-> index.byPre,
          byPost |-> index.byPost, byContent |-> index.byContent,
          byLang |-> index.byLang, byDepth |-> index.byDepth,
          terms |-> index.terms, blockCount |-> index.blockCount,
          tokenCount |-> index.tokenCount]
  <2> DEFINE r1 == DecodeMap(d, 1, "type", "list")
             r2 == DecodeMap(d, r1.at, "number", "number")
             r3 == DecodeMap(d, r2.at, "number", "number")
             r4 == DecodeMap(d, r3.at, "text", "list")
             r5 == DecodeMap(d, r4.at, "text", "list")
             r6 == DecodeMap(d, r5.at, "number", "list")
             r7 == DecodeMap(d, r6.at, "text", "list")
  <2>1. FromBytes(d) =
          [bitmap |-> r1.got, byPre |-> r2.got, byPost |-> r3.got,
           byContent |-> r4.got, byLang |-> r5.got, byDepth |-> r6.got,
           terms |-> r7.got, blockCount |-> d[r7.at],
           tokenCount |-> d[r7.at + 1]]
    BY Zenon DEF FromBytes
  <2>2. r1 = [got |-> index.bitmap, at |-> 1 + Len(m1)]  BY <1>12
  <2> HIDE DEF r1
  <2>3. r2 = [got |-> index.byPre, at |-> 1 + Len(t2)]  BY <1>11, <2>2
  <2> HIDE DEF r2
  <2>4. r3 = [got |-> index.byPost, at |-> 1 + Len(t3)]  BY <1>10, <2>3
  <2> HIDE DEF r3
  <2>5. r4 = [got |-> index.byContent, at |-> 1 + Len(t4)]  BY <1>9, <2>4
  <2> HIDE DEF r4
  <2>6. r5 = [got |-> index.byLang, at |-> 1 + Len(t5)]  BY <1>8, <2>5
  <2> HIDE DEF r5
  <2>7. r6 = [got |-> index.byDepth, at |-> 1 + Len(t6)]  BY <1>7, <2>6
  <2> HIDE DEF r6
  <2>8. r7 = [got |-> index.terms, at |-> 1 + Len(t7)]  BY <1>6, <2>7
  <2> HIDE DEF r7
  <2>9. QED
    BY <1>13, <2>1, <2>2, <2>3, <2>4, <2>5, <2>6, <2>7, <2>8
<1>15. QED  BY <1>1, <1>14 DEF d, IsIndex

-----------------------------------------------------------------------------
(* The index of a document can be written.                                 *)

LEMMA ImageIsFinite ==
  ASSUME NEW S, IsFiniteSet(S), NEW f, S \subseteq DOMAIN f
  PROVE  IsFiniteSet({f[x] : x \in S})
<1> DEFINE g == [x \in S |-> f[x]]
           T == {f[x] : x \in S}
<1>1. g \in Surjection(S, T)  BY DEF Surjection
<1>2. QED  BY <1>1, FS_Surjection

LEMMA RangeIsFinite ==
  ASSUME NEW n \in Nat, NEW f, DOMAIN f = 1..n
  PROVE  IsFiniteSet(Range(f)) /\ Range(f) = {f[i] : i \in 1..n}
<1>1. IsFiniteSet(1..n)  BY FS_Interval
<1>2. Range(f) = {f[i] : i \in 1..n}  BY DEF Range
<1>3. QED  BY <1>1, <1>2, ImageIsFinite

LEMMA PartsAreFinite ==
  ASSUME NEW n \in Nat, NEW S \in SUBSET (1..n)
  PROVE  IsFiniteSet(S) /\ S \in SUBSET Nat
<1>1. IsFiniteSet(1..n)  BY FS_Interval
<1>2. IsFiniteSet(S)  BY <1>1, FS_Subset
<1>3. S \in SUBSET Nat  OBVIOUS
<1>4. QED  BY <1>2, <1>3

(* The lists of Postings, and that they can be written. *)
LEMMA PostingsList ==
  ASSUME NEW n \in Nat, NEW keys, DOMAIN keys = 1..n, NEW key \in Shapes,
         \A i \in 1..n : IsFiniteSet(keys[i]) /\ keys[i] \subseteq Fits(key)
  PROVE  /\ IsMap(Postings(keys), key, "list")
         /\ \A k : Entry(Postings(keys), k) = {i \in 1..n : k \in keys[i]}
<1> DEFINE D == UNION Range(keys)
           f == Postings(keys)
<1>1. f = [k \in D |-> {i \in 1..n : k \in keys[i]}]  BY DEF Postings
<1>2. IsFiniteSet(Range(keys)) /\ Range(keys) = {keys[i] : i \in 1..n}
  BY RangeIsFinite
<1>3. IsFiniteSet(D)  BY <1>2, FS_UNION
<1>4. \A k : k \in D <=> \E i \in 1..n : k \in keys[i]  BY <1>2
<1> HIDE DEF D, f
<1>5. \A k \in D : k \in Fits(key)  BY <1>4
<1>6. \A k \in D : f[k] \in Fits("list")
  <2>1. TAKE k \in D
  <2>2. f[k] \in SUBSET (1..n)  BY <1>1
  <2>3. IsFiniteSet(f[k]) /\ f[k] \in SUBSET Nat  BY <2>2, PartsAreFinite
  <2>4. QED  BY <2>3 DEF Fits
<1>7. IsMap(f, key, "list")
  <2>1. DOMAIN f = D /\ f = [k \in D |-> f[k]]  BY <1>1
  <2>2. QED  BY <1>3, <1>5, <1>6, <2>1 DEF IsMap
<1>8. ASSUME NEW k PROVE Entry(f, k) = {i \in 1..n : k \in keys[i]}
  <2>1. CASE k \in D  BY <1>1, <2>1 DEF Entry
  <2>2. CASE k \notin D
    <3>1. Entry(f, k) = {}  BY <1>1, <2>2 DEF Entry
    <3>2. \A i \in 1..n : k \notin keys[i]  BY <1>4, <2>2
    <3>3. QED  BY <3>1, <3>2
  <2>3. QED  BY <2>1, <2>2
<1>9. QED  BY <1>7, <1>8 DEF f

LEMMA ByNumberFinds ==
  ASSUME NEW n \in Nat, NEW numbers \in [1..n -> Nat]
  PROVE  /\ IsMap(ByNumber(numbers), "number", "number")
         /\ DOMAIN ByNumber(numbers) = Range(numbers)
         /\ \A k \in Range(numbers) :
              /\ ByNumber(numbers)[k] \in 1..n
              /\ numbers[ByNumber(numbers)[k]] = k
<1> DEFINE f == ByNumber(numbers)
           At(k) == {i \in 1..n : numbers[i] = k}
<1>1. f = [k \in Range(numbers) |-> Max(At(k))]  BY DEF ByNumber
<1>2. ASSUME NEW k \in Range(numbers) PROVE Max(At(k)) \in At(k)
  <2>1. At(k) # {}  BY DEF Range
  <2>2. At(k) \in SUBSET Nat /\ \A i \in At(k) : i <= n  OBVIOUS
  <2> HIDE DEF At
  <2>3. QED  BY <2>1, <2>2, Greatest
<1>3. IsFiniteSet(Range(numbers)) /\ Range(numbers) \subseteq Nat
  BY RangeIsFinite DEF Range
<1>4. \A k \in Range(numbers) : f[k] \in 1..n /\ numbers[f[k]] = k
  BY <1>1, <1>2
<1> HIDE DEF f
<1>5. IsMap(f, "number", "number")
  <2>1. DOMAIN f = Range(numbers) /\ f = [k \in Range(numbers) |-> f[k]]  BY <1>1
  <2>2. \A k \in Range(numbers) : f[k] \in Nat  BY <1>4
  <2>3. QED  BY <1>3, <2>1, <2>2 DEF IsMap, Fits
<1>6. QED  BY <1>1, <1>4, <1>5 DEF f

LEMMA FoldIsText ==
  ASSUME NEW text \in Texts
  PROVE  /\ Fold(text) \in Texts /\ Len(Fold(text)) = Len(text)
         /\ \A i \in 1..Len(text) : Fold(text)[i] = Lower[text[i]]
         /\ Fold(Fold(text)) = Fold(text)
<1> DEFINE f == Fold(text)
<1>1. Len(text) \in Nat /\ DOMAIN text = 1..Len(text)
      /\ \A i \in 1..Len(text) : text[i] \in DOMAIN Lower
  BY LenProperties DEF Texts
<1>2. f = [i \in 1..Len(text) |-> Lower[text[i]]]  BY <1>1 DEF Fold
<1>3. \A c \in DOMAIN Lower : Lower[c] \in DOMAIN Lower /\ Lower[Lower[c]] = Lower[c]
  BY CharactersAreLower
<1>4. f \in [1..Len(text) -> DOMAIN Lower]  BY <1>1, <1>2, <1>3
<1>5. f \in Texts /\ Len(f) = Len(text)  BY <1>1, <1>4 DEF Texts
<1>6. Fold(f) = [i \in 1..Len(text) |-> Lower[f[i]]]  BY <1>2 DEF Fold
<1>7. Fold(f) = f  BY <1>1, <1>2, <1>3, <1>6
<1>8. QED  BY <1>2, <1>5, <1>7 DEF f

LEMMA WindowsAreParts ==
  ASSUME NEW text \in Texts, NEW k
  PROVE  /\ IsFiniteSet(Windows(text, k))
         /\ \A w \in Windows(text, k) :
              w[1] \in 1..Len(text) /\ w[2] \in 1..Len(text)
<1> DEFINE I == 1..Len(text)
<1>1. DOMAIN text = I /\ Len(text) \in Nat  BY LenProperties DEF Texts
<1>2. Windows(text, k) \subseteq {<<i, j>> : i, j \in I}  BY <1>1 DEF Windows
<1>3. {<<i, j>> : i, j \in I} = I \X I  OBVIOUS
<1>4. IsFiniteSet(I)  BY <1>1, FS_Interval
<1>5. IsFiniteSet(I \X I)  BY <1>4, FS_Product
<1>6. Windows(text, k) \in SUBSET (I \X I)  BY <1>2, <1>3
<1>7. QED  BY <1>5, <1>6, FS_Subset

LEMMA TokensAreTexts ==
  ASSUME NEW text \in Texts, NEW k
  PROVE  IsFiniteSet(Tokens(text, k)) /\ Tokens(text, k) \subseteq Texts
<1> DEFINE l == Fold(text)
           W == Windows(l, k)
           f == [w \in W |-> SubSeq(l, w[1], w[2])]
<1>1. l \in Texts  BY FoldIsText
<1>2. Tokens(text, k) = {SubSeq(l, w[1], w[2]) : w \in W}  BY DEF Tokens
<1>3. IsFiniteSet(W)
      /\ \A w \in W : w[1] \in 1..Len(l) /\ w[2] \in 1..Len(l)
  BY <1>1, WindowsAreParts
<1> HIDE DEF l, W
<1>4. Tokens(text, k) = {f[w] : w \in W}  BY <1>2
<1>5. IsFiniteSet({f[w] : w \in W})
  <2>1. W \subseteq DOMAIN f  OBVIOUS
  <2> HIDE DEF f
  <2>2. QED  BY <1>3, <2>1, ImageIsFinite
<1>6. ASSUME NEW w \in W PROVE SubSeq(l, w[1], w[2]) \in Texts
  <2>1. w[1] \in Int /\ w[2] \in Int /\ 1 <= w[1] /\ w[2] <= Len(l)
        /\ Len(l) \in Nat
    BY <1>1, <1>3, LenProperties DEF Texts
  <2>2. \A i \in w[1]..w[2] : l[i] \in DOMAIN Lower
    <3>1. TAKE i \in w[1]..w[2]
    <3>2. i \in 1..Len(l)  BY <2>1
    <3>3. QED  BY <1>1, <3>2, ElementOfSeq DEF Texts
  <2>3. QED  BY <2>1, <2>2, SubSeqProperties DEF Texts
<1>7. QED  BY <1>2, <1>4, <1>5, <1>6

LEMMA BlockFields ==
  ASSUME NEW blocks \in Seq(Blocks)
  PROVE  /\ Len(blocks) \in Nat /\ DOMAIN blocks = 1..Len(blocks)
         /\ \A i \in 1..Len(blocks) :
              /\ blocks[i].type \in Range(TypeNames)
              /\ blocks[i].content \in Texts /\ blocks[i].lang \in Texts \cup {NoLang}
              /\ blocks[i].depth \in 0..DepthWidth - 1
              /\ blocks[i].pre \in 0..PreWidth - 1 /\ blocks[i].post \in Nat
<1>1. /\ Len(blocks) \in Nat /\ DOMAIN blocks = 1..Len(blocks)
      /\ blocks \in [1..Len(blocks) -> Blocks]
  BY LenProperties
<1>2. \A i \in 1..Len(blocks) : blocks[i] \in Blocks  BY <1>1
<1>3. \A b \in Blocks :
        /\ b.type \in Range(TypeNames)
        /\ b.content \in Texts /\ b.lang \in Texts \cup {NoLang}
        /\ b.depth \in 0..DepthWidth - 1
        /\ b.pre \in 0..PreWidth - 1 /\ b.post \in Nat
  BY DEF Blocks
<1>4. QED  BY <1>1, <1>2, <1>3

LEMMA TokenCountIsNatural ==
  ASSUME NEW blocks \in Seq(Blocks), NEW k
  PROVE  TokenCount(blocks, k) \in Nat
<1> DEFINE n == Len(blocks)
           At(i) == TokensAt(blocks[i].content, k, i)
           U == UNION {At(i) : i \in 1..n}
<1>1. n \in Nat /\ DOMAIN blocks = 1..n
      /\ \A i \in 1..n : blocks[i].content \in Texts
  BY BlockFields
<1>2. ASSUME NEW i \in 1..n PROVE IsFiniteSet(At(i))
  <2> DEFINE W == Windows(Fold(blocks[i].content), k)
             f == [w \in W |-> <<i, w>>]
  <2>1. IsFiniteSet(W)  BY <1>1, FoldIsText, WindowsAreParts
  <2>2. At(i) = {<<i, w>> : w \in W}  BY DEF TokensAt
  <2> HIDE DEF W, At
  <2>3. At(i) = {f[w] : w \in W}  BY <2>2
  <2>4. W \subseteq DOMAIN f  OBVIOUS
  <2> HIDE DEF f
  <2>5. QED  BY <2>1, <2>3, <2>4, ImageIsFinite
<1>3. TokenCount(blocks, k) = Cardinality(U)  BY <1>1 DEF TokenCount
<1> DEFINE g == [i \in 1..n |-> At(i)]
<1>4. {At(i) : i \in 1..n} = {g[i] : i \in 1..n}  OBVIOUS
<1> HIDE DEF At, n
<1>5. IsFiniteSet(1..n) /\ 1..n \subseteq DOMAIN g  BY <1>1, FS_Interval
<1>6. IsFiniteSet({g[i] : i \in 1..n})
  <2> HIDE DEF g
  <2>1. QED  BY <1>5, ImageIsFinite
<1>7. IsFiniteSet(U)  BY <1>2, <1>4, <1>6, FS_UNION
<1>8. QED  BY <1>3, <1>7, FS_CardinalityType

(* What is in the index x of a document of n blocks. *)
Describes(x, blocks, n, k) ==
  /\ x.blockCount = n
  /\ \A t : Entry(x.bitmap, t) = {i \in 1..n : blocks[i].type = t}
  /\ \A t : Entry(x.byContent, t) = {i \in 1..n : t \in ContentKeys(blocks[i])}
  /\ \A t : Entry(x.byLang, t) = {i \in 1..n : t \in LangKeys(blocks[i])}
  /\ \A t : Entry(x.byDepth, t) = {i \in 1..n : t \in DepthKeys(blocks[i])}
  /\ \A t : Entry(x.terms, t) = {i \in 1..n : t \in Tokens(blocks[i].content, k)}
  /\ DOMAIN x.byPre = {blocks[i].pre : i \in 1..n}
  /\ \A p \in DOMAIN x.byPre : x.byPre[p] \in 1..n /\ blocks[x.byPre[p]].pre = p

LEMMA BuildFinds ==
  ASSUME NEW blocks \in Seq(Blocks), NEW k,
         NEW n \in Nat, n = Len(blocks), NEW x, x = Build(blocks, k)
  PROVE  IsIndex(x) /\ Describes(x, blocks, n, k)
<1> DEFINE types == [i \in 1..n |-> {blocks[i].type}]
           pres == [i \in 1..n |-> blocks[i].pre]
           posts == [i \in 1..n |-> blocks[i].post]
           contents == [i \in 1..n |-> ContentKeys(blocks[i])]
           langs == [i \in 1..n |-> LangKeys(blocks[i])]
           depths == [i \in 1..n |-> DepthKeys(blocks[i])]
           tokens == [i \in 1..n |-> Tokens(blocks[i].content, k)]
           Y == [bitmap |-> Postings(types), byPre |-> ByNumber(pres),
                 byPost |-> ByNumber(posts), byContent |-> Postings(contents),
                 byLang |-> Postings(langs), byDepth |-> Postings(depths),
                 terms |-> Postings(tokens), blockCount |-> n,
                 tokenCount |-> TokenCount(blocks, k)]
<1>1. /\ DOMAIN blocks = 1..n
      /\ \A i \in 1..n :
              /\ blocks[i].type \in Range(TypeNames)
              /\ blocks[i].content \in Texts /\ blocks[i].lang \in Texts \cup {NoLang}
              /\ blocks[i].depth \in 0..DepthWidth - 1
              /\ blocks[i].pre \in 0..PreWidth - 1 /\ blocks[i].post \in Nat
  BY BlockFields
<1>2. x = Y  BY <1>1 DEF Build
<1>3. \A a : IsFiniteSet({a})  BY FS_Singleton
<1>4. /\ IsMap(Postings(types), "type", "list")
      /\ \A t : Entry(Postings(types), t) = {i \in 1..n : t \in types[i]}
  <2>1. \A i \in 1..n : IsFiniteSet(types[i]) /\ types[i] \subseteq Fits("type")
    BY <1>1, <1>3 DEF Fits
  <2>2. DOMAIN types = 1..n  OBVIOUS
  <2> HIDE DEF types
  <2>3. QED  BY <2>1, <2>2, PostingsList DEF Shapes
<1>5. /\ IsMap(Postings(contents), "text", "list")
      /\ \A t : Entry(Postings(contents), t) = {i \in 1..n : t \in contents[i]}
  <2>1. \A i \in 1..n : /\ IsFiniteSet(contents[i])
                        /\ contents[i] \subseteq Fits("text")
    BY <1>1, <1>3, FoldIsText DEF Fits, ContentKeys
  <2>2. DOMAIN contents = 1..n  OBVIOUS
  <2> HIDE DEF contents
  <2>3. QED  BY <2>1, <2>2, PostingsList DEF Shapes
<1>6. /\ IsMap(Postings(langs), "text", "list")
      /\ \A t : Entry(Postings(langs), t) = {i \in 1..n : t \in langs[i]}
  <2>1. ASSUME NEW i \in 1..n
        PROVE  IsFiniteSet(langs[i]) /\ langs[i] \subseteq Fits("text")
    <3>1. langs[i] \in SUBSET {blocks[i].lang} /\ NoLang \notin langs[i]
      BY DEF LangKeys
    <3>2. IsFiniteSet(langs[i])  BY <1>3, <3>1, FS_Subset
    <3>3. QED  BY <1>1, <3>1, <3>2 DEF Fits
  <2>2. DOMAIN langs = 1..n  OBVIOUS
  <2> HIDE DEF langs
  <2>3. QED  BY <2>1, <2>2, PostingsList DEF Shapes
<1>7. /\ IsMap(Postings(depths), "number", "list")
      /\ \A t : Entry(Postings(depths), t) = {i \in 1..n : t \in depths[i]}
  <2>1. ASSUME NEW i \in 1..n
        PROVE  IsFiniteSet(depths[i]) /\ depths[i] \subseteq Fits("number")
    <3>1. depths[i] \in SUBSET {blocks[i].depth}  BY DEF DepthKeys
    <3>2. IsFiniteSet(depths[i])  BY <1>3, <3>1, FS_Subset
    <3>4. blocks[i].depth \in Nat  BY <1>1
    <3>3. QED  BY <3>1, <3>2, <3>4 DEF Fits
  <2>2. DOMAIN depths = 1..n  OBVIOUS
  <2> HIDE DEF depths
  <2>3. QED  BY <2>1, <2>2, PostingsList DEF Shapes
<1>8. /\ IsMap(Postings(tokens), "text", "list")
      /\ \A t : Entry(Postings(tokens), t) = {i \in 1..n : t \in tokens[i]}
  <2>1. \A i \in 1..n : /\ IsFiniteSet(tokens[i])
                        /\ tokens[i] \subseteq Fits("text")
    BY <1>1, TokensAreTexts DEF Fits
  <2>2. DOMAIN tokens = 1..n  OBVIOUS
  <2> HIDE DEF tokens
  <2>3. QED  BY <2>1, <2>2, PostingsList DEF Shapes
<1>9. /\ IsMap(ByNumber(pres), "number", "number")
      /\ DOMAIN ByNumber(pres) = Range(pres)
      /\ \A p \in Range(pres) : /\ ByNumber(pres)[p] \in 1..n
                                /\ pres[ByNumber(pres)[p]] = p
  <2>1. pres \in [1..n -> Nat]  BY <1>1
  <2> HIDE DEF pres
  <2>2. QED  BY <2>1, ByNumberFinds
<1>10. IsMap(ByNumber(posts), "number", "number")
  <2>1. posts \in [1..n -> Nat]  BY <1>1
  <2> HIDE DEF posts
  <2>2. QED  BY <2>1, ByNumberFinds
<1>11. TokenCount(blocks, k) \in Nat  BY TokenCountIsNatural
<1>12. Range(pres) = {blocks[i].pre : i \in 1..n}  BY DEF Range
<1>13. \A p \in Range(pres) : blocks[ByNumber(pres)[p]].pre = p  BY <1>9
<1>14. /\ \A t : Entry(Postings(types), t) = {i \in 1..n : blocks[i].type = t}
       /\ \A t : Entry(Postings(contents), t) =
                   {i \in 1..n : t \in ContentKeys(blocks[i])}
       /\ \A t : Entry(Postings(langs), t) = {i \in 1..n : t \in LangKeys(blocks[i])}
       /\ \A t : Entry(Postings(depths), t) =
                   {i \in 1..n : t \in DepthKeys(blocks[i])}
       /\ \A t : Entry(Postings(tokens), t) =
                   {i \in 1..n : t \in Tokens(blocks[i].content, k)}
  <2>1. \A t : {i \in 1..n : t \in types[i]} = {i \in 1..n : blocks[i].type = t}
    OBVIOUS
  <2>2. \A t : {i \in 1..n : t \in contents[i]} =
                 {i \in 1..n : t \in ContentKeys(blocks[i])}
    OBVIOUS
  <2>3. \A t : {i \in 1..n : t \in langs[i]} =
                 {i \in 1..n : t \in LangKeys(blocks[i])}
    OBVIOUS
  <2>4. \A t : {i \in 1..n : t \in depths[i]} =
                 {i \in 1..n : t \in DepthKeys(blocks[i])}
    OBVIOUS
  <2>5. \A t : {i \in 1..n : t \in tokens[i]} =
                 {i \in 1..n : t \in Tokens(blocks[i].content, k)}
    OBVIOUS
  <2> HIDE DEF types, contents, langs, depths, tokens
  <2>6. QED
    BY <1>4, <1>5, <1>6, <1>7, <1>8, <2>1, <2>2, <2>3, <2>4, <2>5
<1> HIDE DEF types, pres, posts, contents, langs, depths, tokens
<1>15. IsIndex(Y)
  BY <1>4, <1>5, <1>6, <1>7, <1>8, <1>9, <1>10, <1>11 DEF IsIndex
<1>16. /\ x.bitmap = Postings(types) /\ x.byPre = ByNumber(pres)
       /\ x.byContent = Postings(contents) /\ x.byLang = Postings(langs)
       /\ x.byDepth = Postings(depths) /\ x.terms = Postings(tokens)
       /\ x.blockCount = n
  BY <1>2
<1> HIDE DEF Y
<1>17. Describes(x, blocks, n, k)
  BY <1>9, <1>12, <1>13, <1>14, <1>16 DEF Describes
<1>18. QED  BY <1>2, <1>15, <1>17

(* An index that is read is the one that was built. *)
LEMMA BuiltIsRead ==
  ASSUME NEW blocks \in Seq(Blocks), NEW k
  PROVE  FromBytes(ToBytes(Build(blocks, k))) = Build(blocks, k)
<1>1. Len(blocks) \in Nat  BY BlockFields
<1>2. IsIndex(Build(blocks, k))  BY <1>1, BuildFinds
<1>3. QED  BY <1>2, IndexIsRead

-----------------------------------------------------------------------------
(* What a lookup finds.                                                    *)

(* The blocks that a hint is about, with the tokenizer k. *)
Finds(h, b, k) ==
  CASE h.by = "type" -> b.type \in h.names
    [] h.by = "pre" -> h.num <= b.pre /\ b.pre <= h.num
    [] h.by = "range" -> h.lo <= b.pre /\ b.pre <= h.hi
    [] h.by = "content" -> Fold(b.content) = Fold(h.text)
    [] h.by = "lang" -> b.lang = h.text /\ h.text # NoLang
    [] h.by = "depth" -> b.depth = h.num /\ h.num # 0
    [] h.by = "terms" -> /\ h.terms # {}
                         /\ h.terms \subseteq Tokens(b.content, k)
    [] OTHER -> TRUE

(* s has the positions of S, each once and in their order. *)
Lists(s, S) ==
  /\ s \in Seq(S) /\ Len(s) \in Nat /\ DOMAIN s = 1..Len(s) /\ Range(s) = S
  /\ \A i, j \in DOMAIN s : i < j => s[i] < s[j]

LEMMA AscendingIsList ==
  ASSUME NEW n \in Nat, NEW S \in SUBSET (1..n)
  PROVE  Lists(Ascending(S), S)
<1>1. IsFiniteSet(S) /\ S \in SUBSET Nat  BY PartsAreFinite
<1>2. /\ Ascending(S) \in Seq(S)
      /\ Range(Ascending(S)) = S
      /\ \A i, j \in DOMAIN Ascending(S) :
              i < j => Ascending(S)[i] < Ascending(S)[j]
  BY <1>1, AscendingLists
<1>3. Len(Ascending(S)) \in Nat /\ DOMAIN Ascending(S) = 1..Len(Ascending(S))
  BY <1>2, LenProperties
<1>4. QED  BY <1>2, <1>3 DEF Lists

(* The pre numbers of a range, in their order, give the positions in their *)
(* order, because pre grows with the position.                             *)
LEMMA RangeLists ==
  ASSUME NEW blocks \in Documents, NEW n \in Nat, n = Len(blocks), NEW f,
         DOMAIN f = {blocks[i].pre : i \in 1..n},
         \A p \in DOMAIN f : f[p] \in 1..n /\ blocks[f[p]].pre = p,
         NEW P, P \in SUBSET DOMAIN f
  PROVE  Lists([i \in DOMAIN Ascending(P) |-> f[Ascending(P)[i]]],
               {i \in 1..n : blocks[i].pre \in P})
<1> DEFINE A == Ascending(P)
           s == [i \in DOMAIN A |-> f[A[i]]]
           S == {i \in 1..n : blocks[i].pre \in P}
<1>1. /\ DOMAIN blocks = 1..n
      /\ \A i \in 1..n : blocks[i].pre \in Nat
      /\ \A i, j \in 1..n : i < j => blocks[i].pre < blocks[j].pre
  <2>1. blocks \in Seq(Blocks)
        /\ \A i, j \in DOMAIN blocks : i < j => blocks[i].pre < blocks[j].pre
    BY DEF Documents
  <2>2. DOMAIN blocks = 1..n /\ \A i \in 1..n : blocks[i].pre \in 0..PreWidth - 1
    BY <2>1, BlockFields
  <2>3. QED  BY <2>1, <2>2
<1>2. IsFiniteSet(P) /\ P \in SUBSET Nat
  <2> DEFINE g == [i \in 1..n |-> blocks[i].pre]
  <2>1. IsFiniteSet(1..n) /\ 1..n \subseteq DOMAIN g  BY FS_Interval
  <2>2. DOMAIN f = {g[i] : i \in 1..n}  OBVIOUS
  <2> HIDE DEF g
  <2>3. IsFiniteSet(DOMAIN f)  BY <2>1, <2>2, ImageIsFinite
  <2>4. DOMAIN f \in SUBSET Nat  BY <1>1
  <2>5. IsFiniteSet(P)  BY <2>3, FS_Subset
  <2>6. QED  BY <2>4, <2>5
<1>3. /\ A \in Seq(P)
      /\ Range(A) = P
      /\ \A i, j \in DOMAIN A : i < j => A[i] < A[j]
  BY <1>2, AscendingLists
<1> HIDE DEF A
<1>4. Len(A) \in Nat /\ DOMAIN A = 1..Len(A) /\ \A i \in DOMAIN A : A[i] \in P
  BY <1>3, LenProperties, ElementOfSeq
<1>5. \A i \in DOMAIN A : s[i] \in 1..n /\ blocks[s[i]].pre = A[i]  BY <1>4
<1>6. s \in Seq(S) /\ Len(s) = Len(A) /\ DOMAIN s = DOMAIN A
  <2>1. s \in [1..Len(A) -> S]  BY <1>4, <1>5
  <2>2. QED  BY <1>4, <2>1
<1> HIDE DEF s
<1>7. Range(s) = S
  <2>1. \A i \in DOMAIN s : s[i] \in S  BY <1>4, <1>5, <1>6
  <2>2. ASSUME NEW i \in S PROVE \E j \in DOMAIN s : s[j] = i
    <3>1. PICK j \in DOMAIN A : A[j] = blocks[i].pre  BY <1>3 DEF Range
    <3>2. s[j] \in 1..n /\ blocks[s[j]].pre = blocks[i].pre  BY <1>5, <3>1
    <3>3. i \in 1..n  OBVIOUS
    <3>4. s[j] = i
      <4>1. CASE s[j] < i  BY <1>1, <3>2, <3>3, <4>1
      <4>2. CASE i < s[j]  BY <1>1, <3>2, <3>3, <4>2
      <4>3. QED  BY <3>2, <3>3, <4>1, <4>2
    <3>5. QED  BY <1>6, <3>1, <3>4
  <2>3. QED  BY <2>1, <2>2 DEF Range
<1>8. ASSUME NEW i \in DOMAIN s, NEW j \in DOMAIN s, i < j PROVE s[i] < s[j]
  <2>1. A[i] < A[j] /\ s[i] \in 1..n /\ s[j] \in 1..n
        /\ blocks[s[i]].pre = A[i] /\ blocks[s[j]].pre = A[j]
    BY <1>3, <1>5, <1>6, <1>8
  <2>2. blocks[s[i]].pre \in Nat /\ blocks[s[j]].pre \in Nat  BY <1>1, <2>1
  <2>3. s[i] # s[j]  BY <2>1, <2>2
  <2>4. ~(s[j] < s[i])
    <3>1. s[j] < s[i] => blocks[s[j]].pre < blocks[s[i]].pre  BY <1>1, <2>1
    <3>2. QED  BY <2>1, <2>2, <3>1
  <2>5. QED  BY <2>1, <2>3, <2>4
<1>9. Lists(s, S)  BY <1>4, <1>6, <1>7, <1>8 DEF Lists
<1>10. QED  BY <1>9 DEF s, A

(* A lookup in the index of a document finds the blocks that the hint is   *)
(* about, each once and in their order.                                    *)
LEMMA ResolveFinds ==
  ASSUME NEW blocks \in Documents, NEW k, NEW h
  PROVE  Lists(Resolve(h, Build(blocks, k)),
               {i \in DOMAIN blocks : Finds(h, blocks[i], k)})
<1> DEFINE n == Len(blocks)
           x == Build(blocks, k)
           S == {i \in DOMAIN blocks : Finds(h, blocks[i], k)}
           r == Resolve(h, x)
<1>1. /\ n \in Nat /\ DOMAIN blocks = 1..n
      /\ \A i \in 1..n : blocks[i].content \in Texts
  BY BlockFields DEF Documents
<1>2. blocks \in Seq(Blocks) /\ n = Len(blocks) /\ x = Build(blocks, k)
  BY DEF Documents
<1>4. S \in SUBSET (1..n)  BY <1>1
<1> HIDE DEF x, n, S, r
<1>24. Describes(x, blocks, n, k)  BY <1>1, <1>2, BuildFinds
<1>3. /\ x.blockCount = n
      /\ \A t : Entry(x.bitmap, t) = {i \in 1..n : blocks[i].type = t}
      /\ \A t : Entry(x.byContent, t) =
                  {i \in 1..n : t \in ContentKeys(blocks[i])}
      /\ \A t : Entry(x.byLang, t) = {i \in 1..n : t \in LangKeys(blocks[i])}
      /\ \A t : Entry(x.byDepth, t) = {i \in 1..n : t \in DepthKeys(blocks[i])}
      /\ \A t : Entry(x.terms, t) =
                  {i \in 1..n : t \in Tokens(blocks[i].content, k)}
      /\ DOMAIN x.byPre = {blocks[i].pre : i \in 1..n}
      /\ \A p \in DOMAIN x.byPre :
           x.byPre[p] \in 1..n /\ blocks[x.byPre[p]].pre = p
  BY <1>24 DEF Describes
<1>5. Lists(Ascending(S), S)  BY <1>1, <1>4, AscendingIsList
<1> DEFINE f == x.byPre
           Between(lo, hi) == {p \in DOMAIN f : lo <= p /\ p <= hi}
           InRange(lo, hi) ==
             [i \in DOMAIN Ascending(Between(lo, hi)) |->
               f[Ascending(Between(lo, hi))[i]]]
<1>6. \A lo, hi :
        Lists(InRange(lo, hi),
              {i \in 1..n : lo <= blocks[i].pre /\ blocks[i].pre <= hi})
  <2>1. TAKE lo, hi
  <2> DEFINE P == Between(lo, hi)
  <2>2. {i \in 1..n : blocks[i].pre \in P} =
          {i \in 1..n : lo <= blocks[i].pre /\ blocks[i].pre <= hi}
    BY <1>3
  <2>3. P \in SUBSET DOMAIN f  OBVIOUS
  <2>5. DOMAIN f = {blocks[i].pre : i \in 1..n}
        /\ \A p \in DOMAIN f : f[p] \in 1..n /\ blocks[f[p]].pre = p
    BY <1>3
  <2> HIDE DEF P, f
  <2>4. Lists([i \in DOMAIN Ascending(P) |-> f[Ascending(P)[i]]],
               {i \in 1..n : blocks[i].pre \in P})
    BY <1>1, <1>2, <2>3, <2>5, RangeLists
  <2>6. QED  BY <2>2, <2>4 DEF P
<1>21. r = Resolve(h, x)  BY DEF r
<1>22. S = {i \in 1..n : Finds(h, blocks[i], k)}  BY <1>1 DEF S
<1>23. SUFFICES Lists(r, S)  BY DEF r, S, x
<1>7. CASE h.by = "type"
  <2>1. r = Ascending(UNION {Entry(x.bitmap, t) : t \in h.names})
    BY <1>7, <1>21 DEF Resolve
  <2>2. S = UNION {Entry(x.bitmap, t) : t \in h.names}
    BY <1>3, <1>7, <1>22 DEF Finds
  <2>3. QED  BY <1>5, <2>1, <2>2
<1>8. CASE h.by = "pre"
  <2>1. r = InRange(h.num, h.num)  BY <1>8, <1>21 DEF Resolve
  <2>2. S = {i \in 1..n : h.num <= blocks[i].pre /\ blocks[i].pre <= h.num}
    BY <1>8, <1>22 DEF Finds
  <2> HIDE DEF InRange
  <2>3. QED  BY <1>6, <2>1, <2>2
<1>9. CASE h.by = "range"
  <2>1. r = InRange(h.lo, h.hi)  BY <1>9, <1>21 DEF Resolve
  <2>2. S = {i \in 1..n : h.lo <= blocks[i].pre /\ blocks[i].pre <= h.hi}
    BY <1>9, <1>22 DEF Finds
  <2> HIDE DEF InRange
  <2>3. QED  BY <1>6, <2>1, <2>2
<1>10. CASE h.by = "content"
  <2>1. r = Ascending(Entry(x.byContent, Fold(h.text)))
    BY <1>10, <1>21 DEF Resolve
  <2>2. S = Entry(x.byContent, Fold(h.text))
    BY <1>3, <1>10, <1>22 DEF Finds, ContentKeys
  <2>3. QED  BY <1>5, <2>1, <2>2
<1>11. CASE h.by = "lang"
  <2>1. r = Ascending(Entry(x.byLang, h.text))  BY <1>11, <1>21 DEF Resolve
  <2>2. S = Entry(x.byLang, h.text)
    BY <1>3, <1>11, <1>22 DEF Finds, LangKeys
  <2>3. QED  BY <1>5, <2>1, <2>2
<1>12. CASE h.by = "depth"
  <2>1. r = Ascending(Entry(x.byDepth, h.num))  BY <1>12, <1>21 DEF Resolve
  <2>2. S = Entry(x.byDepth, h.num)
    BY <1>3, <1>12, <1>22 DEF Finds, DepthKeys
  <2>3. QED  BY <1>5, <2>1, <2>2
<1>13. CASE h.by = "terms"
  <2>1. r = Ascending(AllTerms(x.terms, h.terms))  BY <1>13, <1>21 DEF Resolve
  <2>2. S = {i \in 1..n : /\ h.terms # {}
                          /\ h.terms \subseteq Tokens(blocks[i].content, k)}
    BY <1>13, <1>22 DEF Finds
  <2>3. S = AllTerms(x.terms, h.terms)
    <3>1. CASE h.terms = {}  BY <2>2, <3>1 DEF AllTerms
    <3>2. CASE h.terms # {}
      <4> DEFINE T == {i \in UNION {Entry(x.terms, t) : t \in h.terms} :
                         \A t \in h.terms : i \in Entry(x.terms, t)}
      <4>1. AllTerms(x.terms, h.terms) = T  BY <3>2 DEF AllTerms
      <4>2. \A i \in 1..n : \A t \in h.terms :
              i \in Entry(x.terms, t) <=> t \in Tokens(blocks[i].content, k)
        BY <1>3
      <4>3. \A t \in h.terms : Entry(x.terms, t) \subseteq 1..n  BY <1>3
      <4>4. T \subseteq S  BY <2>2, <3>2, <4>2, <4>3
      <4>5. S \subseteq T  BY <2>2, <3>2, <4>2
      <4>6. QED  BY <4>1, <4>4, <4>5
    <3>3. QED  BY <3>1, <3>2
  <2>4. QED  BY <1>5, <2>1, <2>3
<1>14. CASE h.by \notin {"type", "pre", "range", "content", "lang", "depth",
                         "terms"}
  <2>1. r = Ascending(1..x.blockCount)  BY <1>14, <1>21 DEF Resolve
  <2>2. S = 1..n  BY <1>14, <1>22 DEF Finds
  <2>3. QED  BY <1>3, <1>5, <2>1, <2>2
<1>15. QED
  BY <1>7, <1>8, <1>9, <1>10, <1>11, <1>12, <1>13, <1>14

-----------------------------------------------------------------------------
(* Hints and conjuncts.                                                    *)

LEMMA HintCases ==
  ASSUME NEW c \in Conditions
  PROVE  \/ HintOf(c) = FullScan
         \/ c.op = "type" /\ HintOf(c) = TypesHint({c.name})
         \/ c.op = "in" /\ HintOf(c) = TypesHint(Known(c.names))
         \/ c.op = "pre" /\ HintOf(c) = PreHint(c.num % PreWidth)
         \/ c.op = "between"
              /\ HintOf(c) = RangeHint(c.lo % PreWidth, c.hi % PreWidth)
         \/ c.op = "content" /\ HintOf(c) = ContentHint(c.text)
         \/ c.op = "lang" /\ c.text # NoLang /\ HintOf(c) = LangHint(c.text)
         \/ c.op = "depth" /\ c.num > 0 /\ HintOf(c) = DepthHint(c.num % DepthWidth)
         \/ c.op = "match" /\ Tokens(c.text, kind) # {}
              /\ HintOf(c) = TermHint(Tokens(c.text, kind))
<1>1. c.op \in {"type", "in", "between", "pre", "depth", "post", "content",
                "lang", "match"}
  BY DEF Conditions
<1>2. CASE c.op \in {"type", "in"}  BY <1>2 DEF HintOf
<1>3. CASE c.op \in {"between", "pre", "content"}  BY <1>3 DEF HintOf
<1>4. CASE c.op \in {"lang", "depth"}  BY <1>4 DEF HintOf
<1>5. CASE c.op \in {"match", "post"}  BY <1>5 DEF HintOf, QueryTerms
<1>6. QED  BY <1>1, <1>2, <1>3, <1>4, <1>5

(* A hint that is a range has the bounds of a BETWEEN; one of terms is as  *)
(* strict as its conjunct.                                                 *)
LEMMA RangeHints ==
  ASSUME NEW c \in Conditions, HintOf(c).by = "range"
  PROVE  /\ c.op = "between"
         /\ HintOf(c).lo = c.lo % PreWidth /\ HintOf(c).hi = c.hi % PreWidth
BY HintCases DEF FullScan, TypesHint, PreHint, RangeHint, ContentHint,
                 LangHint, DepthHint, TermHint

LEMMA TermHints ==
  ASSUME NEW c \in Conditions, HintOf(c).by = "terms",
         NEW b, Finds(HintOf(c), b, kind)
  PROVE  Holds(c, b)
<1>1. c.op = "match" /\ Tokens(c.text, kind) # {}
      /\ HintOf(c) = TermHint(Tokens(c.text, kind))
  BY HintCases DEF FullScan, TypesHint, PreHint, RangeHint, ContentHint,
                   LangHint, DepthHint
<1>2. Tokens(c.text, kind) \subseteq Tokens(b.content, kind)
  BY <1>1 DEF Finds, TermHint
<1>3. QED  BY <1>1, <1>2 DEF Holds

LEMMA Fitting ==
  ASSUME NEW w \in Nat \ {0}, NEW x \in 0..w - 1
  PROVE  x % w = x
OBVIOUS

(* A block for which a conjunct holds is one its hint is about, unless the *)
(* conjunct has computed names or bounds that do not fit.                  *)
LEMMA HintsFind ==
  ASSUME NEW c \in Conditions, NEW b \in Blocks, Holds(c, b),
         c.op = "in" => c.computed = {},
         c.op = "between" => c.lo < PreWidth /\ c.hi < PreWidth
  PROVE  Finds(HintOf(c), b, kind)
<1>1. /\ b.type \in Range(TypeNames) /\ b.pre \in 0..PreWidth - 1
      /\ b.depth \in 0..DepthWidth - 1
  BY DEF Blocks
<1>2. CASE HintOf(c) = FullScan  BY <1>2 DEF FullScan, Finds
<1>3. CASE c.op = "type" /\ HintOf(c) = TypesHint({c.name})
  BY <1>3 DEF TypesHint, Finds, Holds
<1>4. CASE c.op = "in" /\ HintOf(c) = TypesHint(Known(c.names))
  BY <1>1, <1>4 DEF TypesHint, Finds, Holds, Known
<1>5. CASE c.op = "pre" /\ HintOf(c) = PreHint(c.num % PreWidth)
  <2>1. b.pre = c.num  BY <1>5 DEF Holds
  <2>2. c.num % PreWidth = b.pre  BY <1>1, <2>1, Fitting, WidthsArePositive
  <2>3. QED  BY <1>1, <1>5, <2>2 DEF PreHint, Finds
<1>6. CASE /\ c.op = "between"
           /\ HintOf(c) = RangeHint(c.lo % PreWidth, c.hi % PreWidth)
  <2>1. c.lo \in Nat /\ c.hi \in Nat  BY <1>6 DEF Conditions
  <2>2. c.lo \in 0..PreWidth - 1 /\ c.hi \in 0..PreWidth - 1
    BY <1>6, <2>1, WidthsArePositive
  <2>3. c.lo % PreWidth = c.lo /\ c.hi % PreWidth = c.hi
    BY <2>2, Fitting, WidthsArePositive
  <2>4. QED  BY <1>6, <2>3 DEF RangeHint, Finds, Holds
<1>7. CASE c.op = "content" /\ HintOf(c) = ContentHint(c.text)
  BY <1>7 DEF ContentHint, Finds, Holds
<1>8. CASE c.op = "lang" /\ c.text # NoLang /\ HintOf(c) = LangHint(c.text)
  BY <1>8 DEF LangHint, Finds, Holds
<1>9. CASE c.op = "depth" /\ c.num > 0 /\ HintOf(c) = DepthHint(c.num % DepthWidth)
  <2>1. b.depth = c.num  BY <1>9 DEF Holds
  <2>2. c.num % DepthWidth = c.num  BY <1>1, <2>1, Fitting, WidthsArePositive
  <2>3. c.num # 0  BY <1>1, <1>9, <2>1
  <2>4. QED  BY <1>9, <2>1, <2>2, <2>3 DEF DepthHint, Finds
<1>10. CASE /\ c.op = "match" /\ Tokens(c.text, kind) # {}
            /\ HintOf(c) = TermHint(Tokens(c.text, kind))
  BY <1>10 DEF TermHint, Finds, Holds
<1>11. QED
  BY <1>2, <1>3, <1>4, <1>5, <1>6, <1>7, <1>8, <1>9, <1>10, HintCases

LEMMA LastIsOne ==
  ASSUME where \in Seq(Conditions), NEW F \in SUBSET (DOMAIN where), F # {}
  PROVE  Max(F) \in F
<1>1. Len(where) \in Nat /\ DOMAIN where = 1..Len(where)  BY LenProperties
<1>2. F \in SUBSET Nat /\ \A x \in F : x <= Len(where)  BY <1>1
<1>3. QED  BY <1>1, <1>2, Greatest

(* The zone maps rule out a document only if no block of it matches. *)
LEMMA SkipsNoMatch ==
  ASSUME where \in Seq(Conditions), NEW d, docs[d] \in Seq(Blocks),
         ZoneMapSkip(ZoneMaps(docs[d])), ~FrontmatterHasColumn(d),
         NEW i \in DOMAIN docs[d]
  PROVE  ~Matches(d, i)
<1> DEFINE bs == docs[d]
           b == bs[i]
           zone == ZoneMaps(bs)
           depths == {0} \cup {bs[j].depth : j \in {n \in DOMAIN bs :
                                                     bs[n].type = "heading"}}
<1>1. SUFFICES ASSUME Matches(d, i) PROVE FALSE  OBVIOUS
<1>2. \A k \in DOMAIN where : Holds(where[k], b)  BY <1>1 DEF Matches
<1>3. DOMAIN bs = 1..Len(bs)
      /\ \A j \in DOMAIN bs : bs[j].depth \in 0..DepthWidth - 1
  BY BlockFields
<1>4. /\ zone.maxHeadingDepth = Max(depths)
      /\ zone.headingContents =
           {bs[j].content : j \in {n \in DOMAIN bs : bs[n].type = "heading"}}
      /\ zone.codeLanguages =
           {bs[j].lang : j \in {n \in DOMAIN bs : bs[n].type = "code"}} \ {NoLang}
  BY DEF ZoneMaps
<1>5. \A j \in DOMAIN bs : /\ bs[j].lang # NoLang => bs[j].type = "code"
                           /\ bs[j].depth # 0 => bs[j].type = "heading"
  BY DEF FrontmatterHasColumn, Range
<1>6. \/ \E c \in LastWhere(LAMBDA x : x.op = "lang" /\ x.text # NoLang) :
           c.text \notin zone.codeLanguages
      \/ \E c \in LastWhere(LAMBDA x : x.op = "depth"
                                       /\ x.num \in 1..DepthWidth - 1) :
           c.num > zone.maxHeadingDepth
      \/ /\ \E c \in LastWhere(LAMBDA x : x.op = "type" /\ Known({x.name}) # {}) :
              c.name = "heading"
         /\ \E c \in LastWhere(LAMBDA x : x.op = "content") :
              \A h \in zone.headingContents : Fold(h) # Fold(c.text)
  BY DEF ZoneMapSkip
<1> HIDE DEF zone
<1>7. CASE \E c \in LastWhere(LAMBDA x : x.op = "lang" /\ x.text # NoLang) :
             c.text \notin zone.codeLanguages
  <2> DEFINE F == {k \in DOMAIN where :
                     where[k].op = "lang" /\ where[k].text # NoLang}
  <2>1. F # {} /\ where[Max(F)].text \notin zone.codeLanguages
    BY <1>7 DEF LastWhere
  <2>2. Max(F) \in F  BY <2>1, LastIsOne
  <2>3. b.lang = where[Max(F)].text /\ b.lang # NoLang  BY <1>2, <2>2 DEF Holds
  <2>4. b.type = "code"  BY <1>5, <2>3
  <2>5. b.lang \in zone.codeLanguages  BY <1>4, <2>3, <2>4
  <2>6. QED  BY <2>1, <2>3, <2>5
<1>8. CASE \E c \in LastWhere(LAMBDA x : x.op = "depth"
                                         /\ x.num \in 1..DepthWidth - 1) :
             c.num > zone.maxHeadingDepth
  <2> DEFINE F == {k \in DOMAIN where : where[k].op = "depth"
                                        /\ where[k].num \in 1..DepthWidth - 1}
  <2>1. F # {} /\ where[Max(F)].num > zone.maxHeadingDepth
    BY <1>8 DEF LastWhere
  <2>2. Max(F) \in F  BY <2>1, LastIsOne
  <2>10. b.depth = where[Max(F)].num  BY <1>2, <2>2 DEF Holds
  <2>3. b.depth = where[Max(F)].num /\ b.depth # 0
    <3>1. where[Max(F)].num # 0  BY <2>2, WidthsArePositive
    <3>2. QED  BY <2>10, <3>1
  <2>4. b.type = "heading"  BY <1>5, <2>3
  <2>5. b.depth \in depths  BY <2>4
  <2>6. depths \in SUBSET Nat /\ \A x \in depths : x <= DepthWidth
        /\ DepthWidth \in Nat
    BY <1>3, WidthsArePositive
  <2> HIDE DEF depths
  <2>7. Max(depths) \in depths /\ b.depth <= Max(depths)
    BY <2>5, <2>6, Greatest
  <2>8. Max(depths) \in Nat /\ b.depth \in Nat
    <3>1. \A x \in depths : x \in Nat  BY <2>6
    <3> HIDE DEF b
    <3>2. QED  BY <2>5, <2>7, <3>1
  <2> HIDE DEF b
  <2>9. QED  BY <1>4, <2>1, <2>3, <2>7, <2>8
<1>9. CASE /\ \E c \in LastWhere(LAMBDA x : x.op = "type"
                                            /\ Known({x.name}) # {}) :
                c.name = "heading"
           /\ \E c \in LastWhere(LAMBDA x : x.op = "content") :
                \A h \in zone.headingContents : Fold(h) # Fold(c.text)
  <2> DEFINE F == {k \in DOMAIN where :
                     where[k].op = "type" /\ Known({where[k].name}) # {}}
             G == {k \in DOMAIN where : where[k].op = "content"}
  <2>1. F # {} /\ where[Max(F)].name = "heading"  BY <1>9 DEF LastWhere
  <2>2. G # {} /\ \A h \in zone.headingContents : Fold(h) # Fold(where[Max(G)].text)
    BY <1>9 DEF LastWhere
  <2>3. Max(F) \in F /\ Max(G) \in G  BY <2>1, <2>2, LastIsOne
  <2>4. b.type = "heading"  BY <1>2, <2>1, <2>3 DEF Holds
  <2>5. b.content = where[Max(G)].text  BY <1>2, <2>3 DEF Holds
  <2>6. b.content \in zone.headingContents  BY <1>4, <2>4
  <2>7. QED  BY <2>2, <2>5, <2>6
<1>10. QED  BY <1>6, <1>7, <1>8, <1>9

-----------------------------------------------------------------------------
(* Full text: the tokens of a short query are those of a text around it.   *)

LEMMA CjkWindow ==
  ASSUME NEW s \in Texts, NEW k, NEW i \in 1..Len(s), NEW j \in 1..Len(s),
         i <= j, \A l \in i..j : Class(s[l], k) = "cjk", IsWindow(j - i + 1, k)
  PROVE  <<i, j>> \in Windows(s, k)
<1> DEFINE class == [x \in DOMAIN s |-> Class(s[x], k)]
           w == <<i, j>>
<1>1. Len(s) \in Nat /\ DOMAIN s = 1..Len(s)  BY LenProperties DEF Texts
<1>2. \A l \in i..j : l \in DOMAIN s  BY <1>1
<1>3. \A l \in i..j : class[l] = "cjk"  BY <1>2
<1>4. i \in i..j  OBVIOUS
<1>5. class[i] = "cjk" /\ \A l \in i..j : class[l] = class[i]  BY <1>3, <1>4
<1>6. w \in {<<a, b>> : a, b \in DOMAIN s} /\ w[1] = i /\ w[2] = j  BY <1>1
<1> HIDE DEF w
<1>7. w \in Windows(s, k)  BY <1>5, <1>6 DEF Windows
<1>8. QED  BY <1>7 DEF w

LEMMA WindowOfCjk ==
  ASSUME NEW s \in Texts, NEW k, \A l \in 1..Len(s) : Class(s[l], k) = "cjk",
         NEW w \in Windows(s, k)
  PROVE  \E i, j \in 1..Len(s) :
           w = <<i, j>> /\ i <= j /\ IsWindow(j - i + 1, k)
<1> DEFINE class == [x \in DOMAIN s |-> Class(s[x], k)]
<1>1. Len(s) \in Nat /\ DOMAIN s = 1..Len(s)  BY LenProperties DEF Texts
<1>2. \A l \in 1..Len(s) : class[l] = "cjk"  BY <1>1
<1>3. /\ w \in {<<a, b>> : a, b \in DOMAIN s} /\ w[1] <= w[2]
      /\ (class[w[1]] = "other" \/ IsWindow(w[2] - w[1] + 1, k))
  BY DEF Windows
<1>4. PICK i \in 1..Len(s), j \in 1..Len(s) : w = <<i, j>>  BY <1>1, <1>3
<1>5. w[1] = i /\ w[2] = j  BY <1>4
<1>6. class[i] = "cjk"  BY <1>2, <1>4
<1>7. QED  BY <1>3, <1>4, <1>5, <1>6

LEMMA SubstringTokens ==
  ASSUME NEW q \in Texts, NEW t \in Texts, NEW k \in {"bigram", "trigram"},
         Fold(q) # <<>>, Range(Fold(q)) \subseteq Cjk,
         NEW o \in 0..Len(Fold(t)) - Len(Fold(q)),
         SubSeq(Fold(t), o + 1, o + Len(Fold(q))) = Fold(q)
  PROVE  Tokens(q, k) # {} /\ Tokens(q, k) \subseteq Tokens(t, k)
<1> DEFINE Q == Fold(q)
           T == Fold(t)
<1>1. Q \in Texts /\ T \in Texts  BY FoldIsText
<1>2. /\ Len(Q) \in Nat /\ DOMAIN Q = 1..Len(Q)
      /\ Len(T) \in Nat /\ DOMAIN T = 1..Len(T)
      /\ Q \in Seq(DOMAIN Lower) /\ T \in Seq(DOMAIN Lower)
  BY <1>1, LenProperties DEF Texts
<1>3. /\ Tokens(q, k) = {SubSeq(Q, w[1], w[2]) : w \in Windows(Q, k)}
      /\ Tokens(t, k) = {SubSeq(T, w[1], w[2]) : w \in Windows(T, k)}
  BY DEF Tokens
<1>4. Q # <<>> /\ Range(Q) \subseteq Cjk /\ o \in 0..Len(T) - Len(Q)
      /\ SubSeq(T, o + 1, o + Len(Q)) = Q
  OBVIOUS
<1> HIDE DEF Q, T
<1>5. \A c \in Cjk : Class(c, k) = "cjk"
  BY CharactersAreLower DEF Class
<1>6. \A l \in 1..Len(Q) : Class(Q[l], k) = "cjk"
  BY <1>2, <1>4, <1>5 DEF Range
<1>7. \A l \in 1..Len(Q) : o + l \in 1..Len(T) /\ T[o + l] = Q[l]
  <2> DEFINE r == SubSeq(T, o + 1, o + Len(Q))
  <2>1. \A i \in o + 1..o + Len(Q) : T[i] \in DOMAIN Lower
    <3>1. TAKE i \in o + 1..o + Len(Q)
    <3>2. i \in 1..Len(T)  BY <1>2, <1>4
    <3>3. QED  BY <1>2, <3>2, ElementOfSeq
  <2>8. o + 1 \in Int /\ o + Len(Q) \in Int  BY <1>2, <1>4
  <2>2. \A i \in 1..o + Len(Q) - (o + 1) + 1 : r[i] = T[(o + 1) + i - 1]
    BY <2>1, <2>8, SubSeqProperties
  <2>3. r = Q  BY <1>4
  <2> HIDE DEF r
  <2>4. TAKE l \in 1..Len(Q)
  <2>5. l \in 1..o + Len(Q) - (o + 1) + 1 /\ (o + 1) + l - 1 = o + l
    BY <1>2, <1>4
  <2>6. o + l \in 1..Len(T)  BY <1>2, <1>4
  <2>7. QED  BY <2>2, <2>3, <2>5, <2>6
<1>8. NgramSize(k) \in Nat /\ 1 <= NgramSize(k)  BY DEF NgramSize
<1>9. Tokens(q, k) # {}
  <2>1. 1 \in 1..Len(Q)
    <3>1. Len(Q) # 0  BY <1>2, <1>4, EmptySeq
    <3>2. QED  BY <1>2, <3>1
  <2>2. IsWindow(1 - 1 + 1, k)  BY <1>8 DEF IsWindow
  <2>3. <<1, 1>> \in Windows(Q, k)
    <3>1. \A l \in 1..1 : Class(Q[l], k) = "cjk"  BY <1>6, <2>1
    <3>2. QED  BY <1>1, <2>1, <2>2, <3>1, CjkWindow
  <2> DEFINE z == <<1, 1>>
  <2>4. SubSeq(Q, z[1], z[2]) \in Tokens(q, k)  BY <1>3, <2>3
  <2>5. QED  BY <2>4
<1>10. ASSUME NEW w \in Windows(Q, k)
       PROVE  SubSeq(Q, w[1], w[2]) \in Tokens(t, k)
  <2>1. PICK i \in 1..Len(Q), j \in 1..Len(Q) :
               w = <<i, j>> /\ i <= j /\ IsWindow(j - i + 1, k)
    BY <1>1, <1>6, WindowOfCjk
  <2> DEFINE a == o + i
             b == o + j
  <2>2. a \in 1..Len(T) /\ b \in 1..Len(T) /\ a <= b /\ b - a + 1 = j - i + 1
    BY <1>2, <1>4, <2>1
  <2>3. \A l \in a..b : Class(T[l], k) = "cjk"
    <3>1. TAKE l \in a..b
    <3>2. l - o \in 1..Len(Q) /\ o + (l - o) = l  BY <1>2, <1>4, <2>1
    <3>3. T[l] = Q[l - o]  BY <1>7, <3>2
    <3>4. QED  BY <1>6, <3>2, <3>3
  <2>4. <<a, b>> \in Windows(T, k)
    <3>1. IsWindow(b - a + 1, k)  BY <2>1, <2>2
    <3> HIDE DEF a, b
    <3>2. QED  BY <1>1, <2>2, <2>3, <3>1, CjkWindow
  <2>5. SubSeq(T, a, b) = SubSeq(Q, i, j)
    <3> DEFINE u == SubSeq(T, a, b)
               v == SubSeq(Q, i, j)
    <3>1. /\ \A x \in a..b : T[x] \in DOMAIN Lower
          /\ \A x \in i..j : Q[x] \in DOMAIN Lower
      <4>1. \A x \in a..b : x \in 1..Len(T)  BY <1>2, <2>2
      <4>2. \A x \in i..j : x \in 1..Len(Q)  BY <1>2
      <4>3. QED  BY <1>2, <4>1, <4>2, ElementOfSeq
    <3>2. /\ u \in Seq(DOMAIN Lower)
          /\ Len(u) = IF a <= b THEN b - a + 1 ELSE 0
          /\ \A x \in 1..b - a + 1 : u[x] = T[a + x - 1]
      <4>1. a \in Int /\ b \in Int  BY <2>2
      <4> HIDE DEF a, b
      <4>2. QED  BY <1>2, <3>1, <4>1, SubSeqProperties
    <3>3. /\ v \in Seq(DOMAIN Lower)
          /\ Len(v) = IF i <= j THEN j - i + 1 ELSE 0
          /\ \A x \in 1..j - i + 1 : v[x] = Q[i + x - 1]
      <4>1. i \in Int /\ j \in Int  OBVIOUS
      <4>2. QED  BY <1>2, <3>1, <4>1, SubSeqProperties
    <3> HIDE DEF u, v
    <3>4. Len(u) = Len(v) /\ Len(u) = j - i + 1 /\ b - a + 1 = j - i + 1
      BY <2>1, <2>2, <3>2, <3>3
    <3>5. \A x \in 1..Len(u) : u[x] = v[x]
      <4>1. TAKE x \in 1..Len(u)
      <4>2. i + x - 1 \in 1..Len(Q) /\ o + (i + x - 1) = a + x - 1
        BY <1>2, <1>4, <2>1, <3>4
      <4>3. x \in 1..j - i + 1 /\ x \in 1..b - a + 1  BY <3>4
      <4>4. T[a + x - 1] = Q[i + x - 1]  BY <1>7, <4>2
      <4> HIDE DEF a, b
      <4>5. QED  BY <3>2, <3>3, <4>3, <4>4
    <3>6. u = v  BY <3>2, <3>3, <3>4, <3>5, SeqEqual
    <3>7. QED  BY <3>6 DEF u, v
  <2>6. w[1] = i /\ w[2] = j  BY <2>1
  <2> DEFINE z == <<a, b>>
  <2>7. z[1] = a /\ z[2] = b  OBVIOUS
  <2>8. SubSeq(T, z[1], z[2]) \in Tokens(t, k)  BY <1>3, <2>4
  <2>9. QED  BY <2>5, <2>6, <2>7, <2>8
<1>11. QED  BY <1>3, <1>9, <1>10

-----------------------------------------------------------------------------
(* The inductive invariant.                                                *)

(* A row that the query has found so far: one of a document that is done   *)
(* and was not skipped, that the hint is about and, at the end, that the   *)
(* clause holds for or need not be asked about.                            *)
Shown(p) ==
  /\ p[1] \in 1..at /\ p[1] \notin skipped
  /\ Finds(hint, docs[p[1]][p[2]], kind)
  /\ phase = "done" => WhereFullyIndexed \/ Matches(p[1], p[2])

Built == {Build(blocks, k) : blocks \in Documents, k \in Kinds}

TypeOK ==
  /\ docs \in Stores /\ kind \in Kinds /\ where \in Clauses
  /\ phase \in {"open", "scan", "check", "done", "panic"}
  /\ indexes \in Seq(Built)
  /\ hint \in {FullScan} \cup {HintOf(where[k]) : k \in DOMAIN where}
  /\ at \in 0..Len(docs) /\ skipped \in SUBSET (1..at)
  /\ rows \in Seq(Nat \X Nat)

IInv ==
  /\ TypeOK
  /\ IndexesDescribeBlocks /\ Len(indexes) <= Len(docs)
  /\ phase \notin {"open", "panic"} => Len(indexes) = Len(docs)
  /\ phase = "panic" => RangeInverted
  /\ \A d \in skipped : ZoneMapSkip(ZoneMaps(docs[d]))
  /\ InOrder(rows) /\ Range(rows) = {p \in Places : Shown(p)}
  /\ phase \in {"check", "done"} => at = Len(docs)
  /\ phase = "open" => at = 0

(* What the types say of the documents, the clause and the indexes. *)
LEMMA Typed ==
  ASSUME TypeOK
  PROVE  /\ Len(docs) \in Nat /\ DOMAIN docs = 1..Len(docs)
         /\ \A d \in DOMAIN docs :
              docs[d] \in Documents /\ docs[d] \in Seq(Blocks)
         /\ where \in Seq(Conditions)
         /\ Len(where) \in Nat /\ DOMAIN where = 1..Len(where)
         /\ \A k \in DOMAIN where : where[k] \in Conditions
         /\ Len(indexes) \in Nat /\ DOMAIN indexes = 1..Len(indexes)
         /\ Len(rows) \in Nat /\ DOMAIN rows = 1..Len(rows)
         /\ at \in Nat
<1>1. docs \in Seq(Documents)  BY StoresHoldDocuments DEF TypeOK
<1>2. where \in Seq(Conditions)  BY ClausesAreConditions DEF TypeOK
<1>3. indexes \in Seq(Built) /\ rows \in Seq(Nat \X Nat)  BY DEF TypeOK
<1>4. Len(docs) \in Nat /\ DOMAIN docs = 1..Len(docs)
      /\ Len(where) \in Nat /\ DOMAIN where = 1..Len(where)
      /\ Len(indexes) \in Nat /\ DOMAIN indexes = 1..Len(indexes)
      /\ Len(rows) \in Nat /\ DOMAIN rows = 1..Len(rows)
  BY <1>1, <1>2, <1>3, LenProperties
<1>5. \A d \in DOMAIN docs : docs[d] \in Documents
  BY <1>1, <1>4, ElementOfSeq
<1>6. \A d \in DOMAIN docs : docs[d] \in Seq(Blocks)  BY <1>5 DEF Documents
<1>7. \A k \in DOMAIN where : where[k] \in Conditions
  BY <1>2, <1>4, ElementOfSeq
<1>8. at \in Nat  BY <1>4 DEF TypeOK
<1>9. QED  BY <1>2, <1>4, <1>5, <1>6, <1>7, <1>8

-----------------------------------------------------------------------------
(* Planning: the cheapest candidate is the hint of a conjunct.             *)

LEMMA CandidatesAreHints ==
  ASSUME TypeOK
  PROVE  /\ Len(Candidates) \in Nat /\ DOMAIN Candidates = 1..Len(Candidates)
         /\ \A n \in DOMAIN Candidates :
              \E k \in DOMAIN where : Candidates[n] = HintOf(where[k])
<1> DEFINE K == {k \in DOMAIN where : HintOf(where[k]).by # "none"}
           hinted == Ascending(K)
<1>1. Len(where) \in Nat /\ DOMAIN where = 1..Len(where)  BY Typed
<1>2. Lists(hinted, K)
  <2>1. K \in SUBSET (1..Len(where))  BY <1>1
  <2> HIDE DEF K
  <2>2. QED  BY <1>1, <2>1, AscendingIsList
<1>3. Candidates = [n \in DOMAIN hinted |-> HintOf(where[hinted[n]])]
  BY DEF Candidates
<1> HIDE DEF hinted
<1>4. Len(hinted) \in Nat /\ DOMAIN hinted = 1..Len(hinted)
      /\ \A n \in DOMAIN hinted : hinted[n] \in K
  BY <1>2, ElementOfSeq DEF Lists
<1>5. \A n \in DOMAIN hinted : hinted[n] \in DOMAIN where  BY <1>4
<1>6. Len(Candidates) = Len(hinted) /\ DOMAIN Candidates = DOMAIN hinted
  BY <1>3, <1>4
<1>7. QED  BY <1>3, <1>4, <1>5, <1>6

LEMMA CostIsNatural ==
  ASSUME TypeOK, IndexesDescribeBlocks, Len(indexes) <= Len(docs), NEW h
  PROVE  Cost(h) \in Nat
<1> DEFINE Of(d) == {d} \X DOMAIN Resolve(h, indexes[d])
           f == [d \in DOMAIN indexes |-> Of(d)]
           U == UNION {Of(d) : d \in DOMAIN indexes}
<1>1. /\ Len(docs) \in Nat /\ DOMAIN docs = 1..Len(docs)
      /\ \A d \in DOMAIN docs : docs[d] \in Documents
      /\ Len(indexes) \in Nat /\ DOMAIN indexes = 1..Len(indexes)
  BY Typed
<1>2. ASSUME NEW d \in DOMAIN indexes PROVE IsFiniteSet(Of(d))
  <2>1. docs[d] \in Documents /\ indexes[d] = Build(docs[d], kind)
    BY <1>1 DEF IndexesDescribeBlocks
  <2> DEFINE r == Resolve(h, indexes[d])
  <2>2. Lists(r, {i \in DOMAIN docs[d] : Finds(h, docs[d][i], kind)})
    BY <2>1, ResolveFinds
  <2> HIDE DEF r
  <2>3. Len(r) \in Nat /\ DOMAIN r = 1..Len(r)  BY <2>2 DEF Lists
  <2>4. IsFiniteSet(DOMAIN r)  BY <2>3, FS_Interval
  <2>5. IsFiniteSet({d})  BY FS_Singleton
  <2>6. IsFiniteSet({d} \X DOMAIN r)  BY <2>4, <2>5, FS_Product
  <2>7. QED  BY <2>6 DEF r
<1>3. IsFiniteSet(DOMAIN indexes)  BY <1>1, FS_Interval
<1>4. {Of(d) : d \in DOMAIN indexes} = {f[d] : d \in DOMAIN indexes}
      /\ DOMAIN indexes \subseteq DOMAIN f
  OBVIOUS
<1>5. Cost(h) = Cardinality(U)  BY DEF Cost
<1> HIDE DEF f, Of
<1>6. IsFiniteSet({Of(d) : d \in DOMAIN indexes})  BY <1>3, <1>4, ImageIsFinite
<1>7. IsFiniteSet(U)  BY <1>2, <1>6, FS_UNION
<1>8. QED  BY <1>5, <1>7, FS_CardinalityType

LEMMA CheapestIsHint ==
  ASSUME TypeOK, IndexesDescribeBlocks, Len(indexes) <= Len(docs)
  PROVE  Cheapest \in {FullScan} \cup {HintOf(where[k]) : k \in DOMAIN where}
<1> DEFINE C == Candidates
           cost == [k \in DOMAIN C |-> Cost(C[k])]
           S == {k \in DOMAIN cost : \A j \in DOMAIN cost : cost[k] <= cost[j]}
<1>1. /\ Len(C) \in Nat /\ DOMAIN C = 1..Len(C)
      /\ \A n \in DOMAIN C : \E k \in DOMAIN where : C[n] = HintOf(where[k])
  BY CandidatesAreHints
<1>2. Cheapest = IF C = <<>> THEN FullScan ELSE C[Min(S)]  BY DEF Cheapest
<1> HIDE DEF C
<1>3. DOMAIN cost = DOMAIN C /\ \A k \in DOMAIN C : cost[k] \in Nat
  <2>1. \A k \in DOMAIN C : cost[k] = Cost(C[k])  OBVIOUS
  <2>2. QED  BY <2>1, CostIsNatural
<1> HIDE DEF cost
<1>4. CASE C = <<>>  BY <1>2, <1>4
<1>5. CASE C # <<>>
  <2>1. DOMAIN C # {}
    <3>1. SUFFICES ASSUME DOMAIN C = {} PROVE FALSE  OBVIOUS
    <3>2. Len(C) = 0  BY <1>1, <3>1
    <3>3. C = [n \in DOMAIN C |-> C[n]]  BY DEF C, Candidates
    <3>4. C = <<>>  BY <3>1, <3>3
    <3>5. QED  BY <1>5, <3>4
  <2> DEFINE T == {cost[k] : k \in DOMAIN C}
  <2>2. T \in SUBSET Nat /\ T # {}  BY <1>3, <2>1
  <2>3. PICK m \in T : \A n \in T : m <= n  BY <2>2, LeastNatural
  <2>4. S # {}  BY <1>3, <2>3
  <2>5. S \in SUBSET Nat  BY <1>1, <1>3
  <2>6. S \subseteq DOMAIN C  BY <1>3
  <2> HIDE DEF S
  <2>7. Min(S) \in DOMAIN C  BY <2>4, <2>5, <2>6, Smallest
  <2>8. QED  BY <1>1, <1>2, <1>5, <2>7
<1>6. QED  BY <1>4, <1>5

-----------------------------------------------------------------------------
(* Rows are added and dropped without a change of their order.             *)

(* The rows of a document. *)
RowsOf(d, S) == {<<d, i>> : i \in S}

(* The rows g of a document d, found at f, come behind the rows r. *)
Adds(r, d, S, f, g) ==
  /\ r \in Seq(Nat \X Nat) /\ InOrder(r) /\ d \in Nat
  /\ \A n \in DOMAIN r : r[n][1] < d
  /\ S \in SUBSET Nat /\ Lists(f, S)
  /\ g \in Seq(Nat \X Nat) /\ DOMAIN g = DOMAIN f
  /\ \A i \in DOMAIN f : g[i] = <<d, f[i]>>

LEMMA RowsAdded ==
  ASSUME NEW r, NEW d, NEW S, NEW f, NEW g, Adds(r, d, S, f, g)
  PROVE  /\ r \o g \in Seq(Nat \X Nat) /\ InOrder(r \o g)
         /\ Range(r \o g) = Range(r) \cup RowsOf(d, S)
<1> DEFINE u == r \o g
<1>13. /\ r \in Seq(Nat \X Nat) /\ InOrder(r) /\ d \in Nat
       /\ \A n \in DOMAIN r : r[n][1] < d
       /\ S \in SUBSET Nat /\ Lists(f, S)
       /\ g \in Seq(Nat \X Nat) /\ DOMAIN g = DOMAIN f
       /\ \A i \in DOMAIN f : g[i] = <<d, f[i]>>
  BY DEF Adds
<1>4. u = r \o g  OBVIOUS
<1> HIDE DEF u
<1>1. /\ f \in Seq(S) /\ Len(f) \in Nat /\ DOMAIN f = 1..Len(f) /\ Range(f) = S
      /\ \A i, j \in DOMAIN f : i < j => f[i] < f[j]
  BY <1>13 DEF Lists
<1>2. \A i \in DOMAIN f : f[i] \in S /\ f[i] \in Nat
  BY <1>1, <1>13, ElementOfSeq
<1>3. /\ g \in Seq(Nat \X Nat) /\ Len(g) = Len(f) /\ DOMAIN g = DOMAIN f
      /\ \A i \in DOMAIN f : g[i] = <<d, f[i]>>
  <2>1. Len(g) \in Nat /\ DOMAIN g = 1..Len(g)  BY <1>13, LenProperties
  <2>2. QED  BY <1>1, <1>13, <2>1
<1>5. Len(r) \in Nat /\ DOMAIN r = 1..Len(r)  BY <1>13, LenProperties
<1>6. /\ u \in Seq(Nat \X Nat) /\ Len(u) = Len(r) + Len(f)
      /\ DOMAIN u = 1..Len(r) + Len(f)
      /\ \A i \in 1..Len(r) + Len(f) :
           u[i] = IF i <= Len(r) THEN r[i] ELSE g[i - Len(r)]
  <2> DEFINE P == Nat \X Nat
  <2>1. r \in Seq(P) /\ g \in Seq(P)  BY <1>3, <1>13
  <2> HIDE DEF P
  <2>2. /\ r \o g \in Seq(P) /\ Len(r \o g) = Len(r) + Len(g)
        /\ \A i \in 1..Len(r) + Len(g) :
             (r \o g)[i] = IF i <= Len(r) THEN r[i] ELSE g[i - Len(r)]
    BY <2>1, ConcatProperties
  <2>3. DOMAIN u = 1..Len(u)  BY <1>4, <2>2, LenProperties
  <2>4. QED  BY <1>3, <1>4, <2>2, <2>3 DEF P
<1>7. \A i \in DOMAIN r : i \in DOMAIN u /\ u[i] = r[i]  BY <1>1, <1>5, <1>6
<1>8. \A i \in DOMAIN f : Len(r) + i \in DOMAIN u /\ u[Len(r) + i] = <<d, f[i]>>
  <2>1. TAKE i \in DOMAIN f
  <2>2. /\ Len(r) + i \in 1..Len(r) + Len(f)
        /\ ~(Len(r) + i <= Len(r)) /\ (Len(r) + i) - Len(r) = i
    BY <1>1, <1>5
  <2>3. QED  BY <1>3, <1>6, <2>2
<1>9. \A n \in DOMAIN u :
        \/ n \in DOMAIN r
        \/ \E i \in DOMAIN f : n = Len(r) + i
  <2>1. TAKE n \in DOMAIN u
  <2>2. n \in 1..Len(r) \/ (n - Len(r) \in 1..Len(f) /\ n = Len(r) + (n - Len(r)))
    BY <1>1, <1>5, <1>6
  <2>3. QED  BY <1>1, <1>5, <2>2
<1>10. ASSUME NEW m \in DOMAIN u, NEW n \in DOMAIN u, m < n
       PROVE  Before(u[m], u[n])
  <2>1. CASE n \in DOMAIN r
    <3>1. m \in DOMAIN r  BY <1>5, <1>6, <1>10, <2>1
    <3>2. QED  BY <1>7, <1>10, <1>13, <2>1, <3>1 DEF InOrder
  <2>2. ASSUME NEW j \in DOMAIN f, n = Len(r) + j PROVE Before(u[m], u[n])
    <3>1. u[n] = <<d, f[j]>>  BY <1>8, <2>2
    <3>2. CASE m \in DOMAIN r
      <4>1. u[m] = r[m] /\ r[m][1] < d  BY <1>7, <1>13, <3>2
      <4>2. QED  BY <3>1, <4>1 DEF Before
    <3>3. ASSUME NEW i \in DOMAIN f, m = Len(r) + i PROVE Before(u[m], u[n])
      <4>1. u[m] = <<d, f[i]>>  BY <1>8, <3>3
      <4>2. i < j  BY <1>1, <1>5, <1>10, <2>2, <3>3
      <4>3. f[i] < f[j]  BY <1>1, <4>2
      <4>4. /\ u[m][1] = d /\ u[n][1] = d /\ u[m][2] = f[i] /\ u[n][2] = f[j]
        BY <3>1, <4>1
      <4>5. QED  BY <4>3, <4>4 DEF Before
    <3>4. QED  BY <1>9, <3>2, <3>3
  <2>3. QED  BY <1>9, <2>1, <2>2
<1>11. \A p : p \in Range(u) <=> p \in Range(r) \cup {<<d, i>> : i \in S}
  <2>1. TAKE p
  <2>2. ASSUME p \in Range(u) PROVE p \in Range(r) \cup {<<d, i>> : i \in S}
    <3>1. PICK n \in DOMAIN u : p = u[n]  BY <2>2 DEF Range
    <3>2. CASE n \in DOMAIN r  BY <1>7, <3>1, <3>2 DEF Range
    <3>3. ASSUME NEW i \in DOMAIN f, n = Len(r) + i
          PROVE  p \in {<<d, x>> : x \in S}
      BY <1>2, <1>8, <3>1, <3>3
    <3>4. QED  BY <1>9, <3>2, <3>3
  <2>3. ASSUME p \in Range(r) PROVE p \in Range(u)
    BY <1>7, <2>3 DEF Range
  <2>4. ASSUME NEW x \in S, p = <<d, x>> PROVE p \in Range(u)
    <3>1. PICK i \in DOMAIN f : f[i] = x  BY <1>1 DEF Range
    <3>2. QED  BY <1>8, <2>4, <3>1 DEF Range
  <2>5. QED  BY <2>2, <2>3, <2>4
<1>12. QED  BY <1>4, <1>6, <1>10, <1>11 DEF InOrder, RowsOf

LEMMA RowsKept ==
  ASSUME NEW r \in Seq(Nat \X Nat), InOrder(r), NEW K \in SUBSET (DOMAIN r),
         NEW u, u = [n \in DOMAIN Ascending(K) |-> r[Ascending(K)[n]]]
  PROVE  /\ u \in Seq(Nat \X Nat) /\ InOrder(u)
         /\ Range(u) = {r[n] : n \in K}
<1> DEFINE A == Ascending(K)
<1>1. Len(r) \in Nat /\ DOMAIN r = 1..Len(r)  BY LenProperties
<1>2. Lists(A, K)
  <2>1. K \in SUBSET (1..Len(r))  BY <1>1
  <2>2. QED  BY <1>1, <2>1, AscendingIsList
<1>3. u = [n \in DOMAIN A |-> r[A[n]]]  OBVIOUS
<1> HIDE DEF A
<1>4. /\ A \in Seq(K) /\ Len(A) \in Nat /\ DOMAIN A = 1..Len(A) /\ Range(A) = K
      /\ \A i, j \in DOMAIN A : i < j => A[i] < A[j]
  BY <1>2 DEF Lists
<1>5. \A n \in DOMAIN A : A[n] \in K /\ A[n] \in DOMAIN r  BY <1>4, ElementOfSeq
<1>6. u \in Seq(Nat \X Nat) /\ DOMAIN u = DOMAIN A
  <2>1. \A n \in DOMAIN A : r[A[n]] \in Nat \X Nat
    BY <1>1, <1>5, ElementOfSeq
  <2>2. u \in [1..Len(A) -> Nat \X Nat]  BY <1>3, <1>4, <2>1
  <2>3. QED  BY <1>3, <1>4, <2>2
<1>7. InOrder(u)
  <2>1. ASSUME NEW m \in DOMAIN u, NEW n \in DOMAIN u, m < n
        PROVE  Before(u[m], u[n])
    <3>1. A[m] < A[n] /\ A[m] \in DOMAIN r /\ A[n] \in DOMAIN r
      BY <1>4, <1>5, <1>6, <2>1
    <3>2. Before(r[A[m]], r[A[n]])  BY <3>1 DEF InOrder
    <3>3. QED  BY <1>3, <1>6, <3>2
  <2>2. QED  BY <2>1 DEF InOrder
<1>8. \A p : p \in Range(u) <=> \E n \in K : p = r[n]
  <2>1. TAKE p
  <2>5. \A n \in DOMAIN A : u[n] = r[A[n]]  BY <1>3
  <2>6. p \in Range(u) <=> \E n \in DOMAIN u : p = u[n]  BY DEF Range
  <2>2. p \in Range(u) <=> \E n \in DOMAIN A : p = r[A[n]]
    BY <1>6, <2>5, <2>6
  <2>3. \A n \in K : \E i \in DOMAIN A : A[i] = n  BY <1>4 DEF Range
  <2>4. QED  BY <1>5, <2>2, <2>3
<1>9. QED  BY <1>6, <1>7, <1>8

(* What depends only on the documents, the tokenizer and the clause. *)
LEMMA Frame ==
  ASSUME UNCHANGED <<docs, kind, where>>
  PROVE  /\ \A c : HintOf(c)' = HintOf(c)
         /\ \A d, i : Matches(d, i)' <=> Matches(d, i)
         /\ \A zone : ZoneMapSkip(zone)' <=> ZoneMapSkip(zone)
         /\ Places' = Places
         /\ RangeInverted' <=> RangeInverted
<1>1. \A c : HintOf(c)' = HintOf(c)  BY DEF HintOf, QueryTerms
<1>2. \A d, i : Matches(d, i)' <=> Matches(d, i)  BY DEF Matches, Holds
<1>3. \A zone : ZoneMapSkip(zone)' <=> ZoneMapSkip(zone)
  BY DEF ZoneMapSkip, LastWhere
<1>4. Places' = Places  BY DEF Places
<1>5. RangeInverted' <=> RangeInverted  BY DEF RangeInverted
<1>6. QED  BY <1>1, <1>2, <1>3, <1>4, <1>5

LEMMA InitIsIInv == Init => IInv
<1> SUFFICES ASSUME Init PROVE IInv  OBVIOUS
<1>2. docs \in Seq(Documents) /\ Len(docs) \in Nat
  BY StoresHoldDocuments, LenProperties DEF Init
<1>3. TypeOK
  BY <1>2 DEF Init, TypeOK
<1>4. IndexesDescribeBlocks /\ Len(indexes) = 0
  BY DEF Init, IndexesDescribeBlocks
<1>5. InOrder(rows) /\ Range(rows) = {}  BY DEF Init, InOrder, Range
<1>6. {p \in Places : Shown(p)} = {}  BY DEF Init, Shown
<1>7. QED  BY <1>2, <1>3, <1>4, <1>5, <1>6 DEF Init, IInv

(* Steps that find or drop no row. *)
LEMMA ShownFrame ==
  ASSUME UNCHANGED <<docs, kind, where, hint, at, skipped>>,
         phase # "done", phase' # "done"
  PROVE  {p \in Places : Shown(p)}' = {p \in Places : Shown(p)}
<1>1. Places' = Places  BY Frame
<1>2. ASSUME NEW p PROVE Shown(p)' <=> Shown(p)  BY DEF Shown
<1>3. QED  BY <1>1, <1>2

LEMMA OneMore ==
  ASSUME NEW n \in Nat, NEW x
  PROVE  x \in 1..n + 1 <=> x \in 1..n \/ x = n + 1
OBVIOUS

LEMMA BuildKeepsIInv ==
  ASSUME IInv, BuildIndex \/ ReadIndex
  PROVE  IInv'
<1> DEFINE n == Len(indexes) + 1
           x == Build(docs[n], kind)
<1> USE DEF IInv
<1>1. /\ Len(docs) \in Nat /\ DOMAIN docs = 1..Len(docs)
      /\ \A d \in DOMAIN docs : docs[d] \in Documents /\ docs[d] \in Seq(Blocks)
      /\ Len(indexes) \in Nat /\ DOMAIN indexes = 1..Len(indexes)
  BY Typed
<1>2. phase = "open" /\ Len(indexes) < Len(docs)
      /\ UNCHANGED <<docs, kind, where, phase, hint, at, rows, skipped>>
  BY DEF BuildIndex, ReadIndex
<1>3. n \in DOMAIN docs  BY <1>1, <1>2
<1>4. docs[n] \in Documents /\ docs[n] \in Seq(Blocks)  BY <1>1, <1>3
<1>5. indexes' = Append(indexes, x)
  <2>1. FromBytes(ToBytes(x)) = x  BY <1>4, BuiltIsRead
  <2>2. QED  BY <2>1 DEF BuildIndex, ReadIndex
<1>6. x \in Built /\ indexes \in Seq(Built)  BY <1>4 DEF TypeOK, Built
<1> HIDE DEF x, n
<1>7. /\ indexes' \in Seq(Built) /\ Len(indexes') = Len(indexes) + 1
      /\ \A i \in 1..Len(indexes) : indexes'[i] = indexes[i]
      /\ indexes'[n] = x
  BY <1>5, <1>6, AppendProperties DEF n
<1>8. DOMAIN indexes' = 1..Len(indexes) + 1  BY <1>7, LenProperties
<1>9. TypeOK'
  <2>1. \A c : HintOf(c)' = HintOf(c)  BY <1>2, Frame
  <2>2. QED  BY <1>2, <1>7, <2>1 DEF TypeOK
<1>10. IndexesDescribeBlocks'
  <2>1. ASSUME NEW d \in DOMAIN indexes' PROVE indexes'[d] = Build(docs[d], kind)
    <3>1. CASE d \in 1..Len(indexes)
      BY <1>1, <1>7, <3>1 DEF IndexesDescribeBlocks
    <3>2. CASE d = n  BY <1>7, <3>2 DEF x
    <3>3. d \in 1..Len(indexes) \/ d = n
      <4>1. d \in 1..Len(indexes) + 1  BY <1>8
      <4>2. QED  BY <1>1, <4>1, OneMore DEF n
    <3>4. QED  BY <3>1, <3>2, <3>3
  <2>2. QED  BY <1>2, <2>1 DEF IndexesDescribeBlocks
<1>11. {p \in Places : Shown(p)}' = {p \in Places : Shown(p)}
  BY <1>2, ShownFrame
<1>12. Len(indexes') <= Len(docs)  BY <1>1, <1>2, <1>7
<1>13. InOrder(rows)' /\ Range(rows)' = {p \in Places : Shown(p)}'
  BY <1>2, <1>11
<1>14. \A d \in skipped' : ZoneMapSkip(ZoneMaps(docs[d]))'
  <2>1. \A d \in skipped : ZoneMapSkip(ZoneMaps(docs[d]))  OBVIOUS
  <2>2. \A zone : ZoneMapSkip(zone)' <=> ZoneMapSkip(zone)  BY <1>2, Frame
  <2>3. QED  BY <1>2, <2>1, <2>2
<1>15. QED
  BY <1>2, <1>9, <1>10, <1>12, <1>13, <1>14

LEMMA PanicKeepsIInv ==
  ASSUME IInv, PanicInPlan
  PROVE  IInv'
<1> USE DEF IInv
<1>1. /\ Opened /\ PlanPanics /\ phase' = "panic"
      /\ UNCHANGED <<docs, kind, where, indexes, hint, at, rows, skipped>>
  BY DEF PanicInPlan
<1>2. RangeInverted
  <2>1. PICK n \in DOMAIN Candidates, d \in DOMAIN indexes :
               Panics(Candidates[n], indexes[d])
    BY <1>1 DEF PlanPanics
  <2>2. PICK k \in DOMAIN where : Candidates[n] = HintOf(where[k])
    BY CandidatesAreHints
  <2> DEFINE c == where[k]
  <2>3. c \in Conditions  BY Typed
  <2>4. HintOf(c).by = "range" /\ HintOf(c).lo > HintOf(c).hi
    BY <2>1, <2>2 DEF Panics
  <2>5. c.op = "between" /\ c.lo % PreWidth > c.hi % PreWidth
    BY <2>3, <2>4, RangeHints
  <2>6. c \in Range(where)  BY DEF Range
  <2>7. QED  BY <2>5, <2>6 DEF RangeInverted
<1>3. TypeOK'
  <2>1. \A c : HintOf(c)' = HintOf(c)  BY <1>1, Frame
  <2>2. QED  BY <1>1, <2>1 DEF TypeOK
<1>4. IndexesDescribeBlocks'  BY <1>1 DEF IndexesDescribeBlocks
<1>5. {p \in Places : Shown(p)}' = {p \in Places : Shown(p)}
  BY <1>1, ShownFrame DEF Opened
<1>6. RangeInverted'  BY <1>1, <1>2, Frame
<1>7. \A d \in skipped' : ZoneMapSkip(ZoneMaps(docs[d]))'
  <2>1. \A d \in skipped : ZoneMapSkip(ZoneMaps(docs[d]))  OBVIOUS
  <2>2. \A zone : ZoneMapSkip(zone)' <=> ZoneMapSkip(zone)  BY <1>1, Frame
  <2>3. QED  BY <1>1, <2>1, <2>2
<1>8. QED  BY <1>1, <1>3, <1>4, <1>5, <1>6, <1>7

LEMMA PlanKeepsIInv ==
  ASSUME IInv, Plan
  PROVE  IInv'
<1> USE DEF IInv
<1>1. /\ Opened /\ hint' = Cheapest /\ phase' = "scan"
      /\ UNCHANGED <<docs, kind, where, indexes, at, rows, skipped>>
  BY DEF Plan
<1>2. at = 0 /\ Len(indexes) = Len(docs)  BY <1>1 DEF Opened
<1>3. TypeOK'
  <2>1. \A c : HintOf(c)' = HintOf(c)  BY <1>1, Frame
  <2>2. Cheapest \in {FullScan} \cup {HintOf(where[k]) : k \in DOMAIN where}
    BY CheapestIsHint
  <2>3. hint' \in {FullScan} \cup {HintOf(where[k])' : k \in DOMAIN where}
    BY <1>1, <2>1, <2>2
  <2>4. QED  BY <1>1, <2>3 DEF TypeOK
<1>4. IndexesDescribeBlocks'  BY <1>1 DEF IndexesDescribeBlocks
<1>5. {p \in Places : Shown(p)}' = {}  BY <1>1, <1>2 DEF Shown
<1>6. {p \in Places : Shown(p)} = {}  BY <1>2 DEF Shown
<1>7. \A d \in skipped' : ZoneMapSkip(ZoneMaps(docs[d]))'
  <2>1. \A d \in skipped : ZoneMapSkip(ZoneMaps(docs[d]))  OBVIOUS
  <2>2. \A zone : ZoneMapSkip(zone)' <=> ZoneMapSkip(zone)  BY <1>1, Frame
  <2>3. QED  BY <1>1, <2>1, <2>2
<1>8. QED  BY <1>1, <1>2, <1>3, <1>4, <1>5, <1>6, <1>7

LEMMA EndKeepsIInv ==
  ASSUME IInv, EndScan
  PROVE  IInv'
<1> USE DEF IInv
<1>1. /\ phase = "scan" /\ at = Len(docs) /\ phase' = "check"
      /\ UNCHANGED <<docs, kind, where, indexes, hint, at, rows, skipped>>
  BY DEF EndScan
<1>2. TypeOK'
  <2>1. \A c : HintOf(c)' = HintOf(c)  BY <1>1, Frame
  <2>2. QED  BY <1>1, <2>1 DEF TypeOK
<1>3. IndexesDescribeBlocks'  BY <1>1 DEF IndexesDescribeBlocks
<1>4. {p \in Places : Shown(p)}' = {p \in Places : Shown(p)}
  BY <1>1, ShownFrame
<1>5. \A d \in skipped' : ZoneMapSkip(ZoneMaps(docs[d]))'
  <2>1. \A d \in skipped : ZoneMapSkip(ZoneMaps(docs[d]))  OBVIOUS
  <2>2. \A zone : ZoneMapSkip(zone)' <=> ZoneMapSkip(zone)  BY <1>1, Frame
  <2>3. QED  BY <1>1, <2>1, <2>2
<1>6. QED  BY <1>1, <1>2, <1>3, <1>4, <1>5

LEMMA SkipKeepsIInv ==
  ASSUME IInv, SkipDocument
  PROVE  IInv'
<1> USE DEF IInv
<1>1. /\ phase = "scan" /\ at < Len(docs)
      /\ ZoneMapSkip(ZoneMaps(docs[at + 1]))
      /\ at' = at + 1 /\ skipped' = skipped \cup {at + 1}
      /\ UNCHANGED <<docs, kind, where, phase, indexes, hint, rows>>
  BY DEF SkipDocument
<1>2. /\ at \in Nat /\ Len(docs) \in Nat /\ skipped \in SUBSET (1..at)
  BY Typed DEF TypeOK
<1>3. TypeOK'
  <2>1. \A c : HintOf(c)' = HintOf(c)  BY <1>1, Frame
  <2>2. at' \in 0..Len(docs) /\ skipped' \in SUBSET (1..at')  BY <1>1, <1>2
  <2>3. QED  BY <1>1, <2>1, <2>2 DEF TypeOK
<1>4. IndexesDescribeBlocks'  BY <1>1 DEF IndexesDescribeBlocks
<1>5. {p \in Places : Shown(p)}' = {p \in Places : Shown(p)}
  <2>1. Places' = Places  BY <1>1, Frame
  <2>2. ASSUME NEW p PROVE Shown(p)' <=> Shown(p)
    <3>1. (p[1] \in 1..at + 1 /\ p[1] \notin skipped \cup {at + 1})
            <=> (p[1] \in 1..at /\ p[1] \notin skipped)
      BY <1>2
    <3>2. phase # "done" /\ phase' # "done"  BY <1>1
    <3>3. QED  BY <1>1, <3>1, <3>2 DEF Shown
  <2>3. QED  BY <2>1, <2>2
<1>6. \A d \in skipped' : ZoneMapSkip(ZoneMaps(docs[d]))'
  <2>1. \A d \in skipped' : ZoneMapSkip(ZoneMaps(docs[d]))  BY <1>1
  <2>2. \A zone : ZoneMapSkip(zone)' <=> ZoneMapSkip(zone)  BY <1>1, Frame
  <2>3. QED  BY <1>1, <2>1, <2>2
<1>7. QED  BY <1>1, <1>3, <1>4, <1>5, <1>6

LEMMA ScanKeepsIInv ==
  ASSUME IInv, ScanDocument
  PROVE  IInv'
<1> DEFINE d == at + 1
           found == Resolve(hint, indexes[d])
           S == {i \in DOMAIN docs[d] : Finds(hint, docs[d][i], kind)}
<1>13. /\ TypeOK /\ IndexesDescribeBlocks
       /\ phase \notin {"open", "panic"} => Len(indexes) = Len(docs)
       /\ \A e \in skipped : ZoneMapSkip(ZoneMaps(docs[e]))
       /\ InOrder(rows) /\ Range(rows) = {p \in Places : Shown(p)}
  BY DEF IInv
<1>1. /\ phase = "scan" /\ at < Len(docs) /\ at' = d
      /\ rows' = rows \o [i \in DOMAIN found |-> <<d, found[i]>>]
      /\ UNCHANGED <<docs, kind, where, phase, indexes, hint, skipped>>
  BY DEF ScanDocument
<1>2. /\ at \in Nat /\ Len(docs) \in Nat /\ skipped \in SUBSET (1..at)
      /\ DOMAIN docs = 1..Len(docs)
      /\ \A e \in DOMAIN docs : docs[e] \in Documents /\ docs[e] \in Seq(Blocks)
      /\ DOMAIN indexes = 1..Len(indexes)
      /\ rows \in Seq(Nat \X Nat)
  BY <1>13, Typed DEF TypeOK
<1>3. d \in Nat /\ d \in DOMAIN docs /\ d \in DOMAIN indexes
  BY <1>1, <1>2, <1>13
<1>4. Lists(found, S)
  <2>1. indexes[d] = Build(docs[d], kind)  BY <1>3, <1>13 DEF IndexesDescribeBlocks
  <2>2. docs[d] \in Documents  BY <1>2, <1>3
  <2> HIDE DEF d
  <2>3. QED  BY <2>1, <2>2, ResolveFinds
<1>5. S \in SUBSET Nat
  <2>1. docs[d] \in Seq(Blocks)  BY <1>2, <1>3
  <2> HIDE DEF d
  <2>2. DOMAIN docs[d] \in SUBSET Nat  BY <2>1, BlockFields
  <2>3. QED  BY <2>2
<1>6. \A n \in DOMAIN rows : rows[n][1] < d
  <2>1. TAKE n \in DOMAIN rows
  <2>2. rows[n] \in Range(rows)  BY DEF Range
  <2>3. Shown(rows[n])  BY <1>13, <2>2
  <2>4. rows[n][1] \in 1..at  BY <2>3 DEF Shown
  <2>5. QED  BY <1>2, <2>4
<1>7. /\ rows' \in Seq(Nat \X Nat) /\ InOrder(rows')
      /\ Range(rows') = Range(rows) \cup RowsOf(d, S)
  <2> DEFINE g == [i \in DOMAIN found |-> <<d, found[i]>>]
  <2>1. rows' = rows \o g  BY <1>1
  <2>2. DOMAIN g = DOMAIN found /\ \A i \in DOMAIN found : g[i] = <<d, found[i]>>
    OBVIOUS
  <2> HIDE DEF d, found, S
  <2>3. /\ found \in Seq(S) /\ Len(found) \in Nat
        /\ DOMAIN found = 1..Len(found)
    BY <1>4 DEF Lists
  <2>4. \A i \in DOMAIN found : found[i] \in Nat  BY <1>5, <2>3, ElementOfSeq
  <2>5. g \in Seq(Nat \X Nat)
    <3>1. g \in [1..Len(found) -> Nat \X Nat]  BY <1>3, <2>3, <2>4
    <3>2. QED  BY <2>3, <3>1
  <2> HIDE DEF g
  <2>6. rows \in Seq(Nat \X Nat) /\ InOrder(rows) /\ d \in Nat
    BY <1>2, <1>3, <1>13
  <2>7. Adds(rows, d, S, found, g)
    BY <1>4, <1>5, <1>6, <2>2, <2>5, <2>6 DEF Adds
  <2>8. QED  BY <2>1, <2>7, RowsAdded
<1>8. TypeOK'
  <2>1. \A c : HintOf(c)' = HintOf(c)  BY <1>1, Frame
  <2>2. at' \in 0..Len(docs) /\ skipped' \in SUBSET (1..at')  BY <1>1, <1>2
  <2>3. QED  BY <1>1, <1>7, <1>13, <2>1, <2>2 DEF TypeOK
<1>9. IndexesDescribeBlocks'  BY <1>1, <1>13 DEF IndexesDescribeBlocks
<1>10. Range(rows') = {p \in Places : Shown(p)}'
  <2>1. Places' = Places  BY <1>1, Frame
  <2>2. ASSUME NEW p PROVE p \in Places /\ Shown(p)' <=> p \in Range(rows')
    <3>1. phase # "done" /\ phase' # "done"  BY <1>1
    <3>2. Shown(p)' <=> /\ p[1] \in 1..d /\ p[1] \notin skipped
                        /\ Finds(hint, docs[p[1]][p[2]], kind)
      BY <1>1, <3>1 DEF Shown
    <3>3. Shown(p) <=> /\ p[1] \in 1..at /\ p[1] \notin skipped
                       /\ Finds(hint, docs[p[1]][p[2]], kind)
      BY <3>1 DEF Shown
    <3>4. p[1] \in 1..d <=> p[1] \in 1..at \/ p[1] = d  BY <1>2, OneMore
    <3>5. d \notin skipped
      <4>1. d \notin 1..at  BY <1>2
      <4> HIDE DEF d
      <4>2. QED  BY <1>2, <4>1
    <3>6. p \in RowsOf(d, S)
            <=> p \in Places /\ p[1] = d /\ Finds(hint, docs[p[1]][p[2]], kind)
      <4>1. ASSUME NEW i \in S, p = <<d, i>>
            PROVE  p \in Places /\ p[1] = d
                   /\ Finds(hint, docs[p[1]][p[2]], kind)
        <5>1. p[1] = d /\ p[2] = i /\ p \in {d} \X DOMAIN docs[d]  BY <4>1
        <5>2. p \in Places  BY <1>3, <5>1 DEF Places
        <5>3. QED  BY <5>1, <5>2
      <4>2. ASSUME p \in Places, p[1] = d, Finds(hint, docs[p[1]][p[2]], kind)
            PROVE  p \in {<<d, i>> : i \in S}
        <5>1. PICK e \in DOMAIN docs : p \in {e} \X DOMAIN docs[e]
          BY <4>2 DEF Places
        <5>2. p = <<p[1], p[2]>> /\ p[1] = e /\ p[2] \in DOMAIN docs[e]
          BY <5>1
        <5>3. p[2] \in S  BY <4>2, <5>2
        <5> HIDE DEF S, d
        <5>4. QED  BY <4>2, <5>2, <5>3
      <4>3. QED  BY <4>1, <4>2 DEF RowsOf
    <3>7. p \in Range(rows) <=> p \in Places /\ Shown(p)  BY <1>13
    <3> HIDE DEF d, S
    <3>8. QED  BY <1>7, <3>2, <3>3, <3>4, <3>5, <3>6, <3>7
  <2>3. {p \in Places : Shown(p)}' = {p \in Places' : Shown(p)'}  OBVIOUS
  <2>4. QED  BY <2>1, <2>2, <2>3
<1>11. \A e \in skipped' : ZoneMapSkip(ZoneMaps(docs[e]))'
  <2>1. \A e \in skipped : ZoneMapSkip(ZoneMaps(docs[e]))  BY <1>13
  <2>2. \A zone : ZoneMapSkip(zone)' <=> ZoneMapSkip(zone)  BY <1>1, Frame
  <2>3. QED  BY <1>1, <2>1, <2>2
<1>12. QED  BY <1>1, <1>7, <1>8, <1>9, <1>10, <1>11, <1>13 DEF IInv

LEMMA CheckKeepsIInv ==
  ASSUME IInv, CheckRows
  PROVE  IInv'
<1> DEFINE Keep(p) == WhereFullyIndexed \/ Matches(p[1], p[2])
           K == {n \in DOMAIN rows : Keep(rows[n])}
<1> USE DEF IInv
<1>1. /\ phase = "check" /\ phase' = "done"
      /\ rows' = [n \in DOMAIN Ascending(K) |-> rows[Ascending(K)[n]]]
      /\ UNCHANGED <<docs, kind, where, indexes, hint, at, skipped>>
  BY DEF CheckRows
<1>2. rows \in Seq(Nat \X Nat) /\ InOrder(rows) /\ K \in SUBSET (DOMAIN rows)
  BY DEF TypeOK
<1>3. /\ rows' \in Seq(Nat \X Nat) /\ InOrder(rows')
      /\ Range(rows') = {rows[n] : n \in K}
  <2> HIDE DEF K
  <2>1. QED  BY <1>1, <1>2, RowsKept
<1>4. TypeOK'
  <2>1. \A c : HintOf(c)' = HintOf(c)  BY <1>1, Frame
  <2>2. QED  BY <1>1, <1>3, <2>1 DEF TypeOK
<1>5. IndexesDescribeBlocks'  BY <1>1 DEF IndexesDescribeBlocks
<1>6. Range(rows') = {p \in Places : Shown(p)}'
  <2>1. Places' = Places  BY <1>1, Frame
  <2>2. ASSUME NEW p PROVE p \in Places /\ Shown(p)' <=> p \in Range(rows')
    <3>1. Matches(p[1], p[2])' <=> Matches(p[1], p[2])  BY <1>1, Frame
    <3>2. WhereFullyIndexed' <=> WhereFullyIndexed
      BY <1>1 DEF WhereFullyIndexed
    <3>3. Shown(p)' <=> Shown(p) /\ Keep(p)
      BY <1>1, <3>1, <3>2 DEF Shown
    <3>4. p \in Range(rows) <=> \E n \in DOMAIN rows : p = rows[n]
      BY DEF Range
    <3>5. p \in Range(rows') <=> \E n \in DOMAIN rows : p = rows[n] /\ Keep(p)
      BY <1>3
    <3>6. p \in Range(rows) <=> p \in Places /\ Shown(p)  OBVIOUS
    <3> HIDE DEF Keep
    <3>7. QED  BY <3>3, <3>4, <3>5, <3>6
  <2>3. {p \in Places : Shown(p)}' = {p \in Places' : Shown(p)'}  OBVIOUS
  <2>4. QED  BY <2>1, <2>2, <2>3
<1>7. \A d \in skipped' : ZoneMapSkip(ZoneMaps(docs[d]))'
  <2>1. \A d \in skipped : ZoneMapSkip(ZoneMaps(docs[d]))  OBVIOUS
  <2>2. \A zone : ZoneMapSkip(zone)' <=> ZoneMapSkip(zone)  BY <1>1, Frame
  <2>3. QED  BY <1>1, <2>1, <2>2
<1>8. QED  BY <1>1, <1>3, <1>4, <1>5, <1>6, <1>7

LEMMA StutterKeepsIInv ==
  ASSUME IInv, UNCHANGED vars
  PROVE  IInv'
<1>1. UNCHANGED <<docs, kind, where, phase, indexes, hint, at, rows, skipped>>
  BY DEF vars
<1>2. TypeOK'
  <2>1. \A c : HintOf(c)' = HintOf(c)  BY <1>1, Frame
  <2>2. QED  BY <1>1, <2>1 DEF IInv, TypeOK
<1>3. IndexesDescribeBlocks'  BY <1>1 DEF IInv, IndexesDescribeBlocks
<1>4. {p \in Places : Shown(p)}' = {p \in Places : Shown(p)}
  <2>1. Places' = Places /\ \A d, i : Matches(d, i)' <=> Matches(d, i)
    BY <1>1, Frame
  <2>2. WhereFullyIndexed' <=> WhereFullyIndexed
    BY <1>1 DEF WhereFullyIndexed
  <2>3. ASSUME NEW p PROVE Shown(p)' <=> Shown(p)
    BY <1>1, <2>1, <2>2 DEF Shown
  <2>4. QED  BY <2>1, <2>3
<1>5. \A d \in skipped' : ZoneMapSkip(ZoneMaps(docs[d]))'
  <2>1. \A d \in skipped : ZoneMapSkip(ZoneMaps(docs[d]))  BY DEF IInv
  <2>2. \A zone : ZoneMapSkip(zone)' <=> ZoneMapSkip(zone)  BY <1>1, Frame
  <2>3. QED  BY <1>1, <2>1, <2>2
<1>6. RangeInverted' <=> RangeInverted  BY <1>1, Frame
<1>7. QED  BY <1>1, <1>2, <1>3, <1>4, <1>5, <1>6 DEF IInv

LEMMA IInvHolds == Spec => []IInv
<1>1. IInv /\ [Next]_vars => IInv'
  <2> SUFFICES ASSUME IInv, [Next]_vars PROVE IInv'  OBVIOUS
  <2>1. CASE BuildIndex  BY <2>1, BuildKeepsIInv
  <2>2. CASE ReadIndex  BY <2>2, BuildKeepsIInv
  <2>3. CASE PanicInPlan  BY <2>3, PanicKeepsIInv
  <2>4. CASE Plan  BY <2>4, PlanKeepsIInv
  <2>5. CASE SkipDocument  BY <2>5, SkipKeepsIInv
  <2>6. CASE ScanDocument  BY <2>6, ScanKeepsIInv
  <2>7. CASE EndScan  BY <2>7, EndKeepsIInv
  <2>8. CASE CheckRows  BY <2>8, CheckKeepsIInv
  <2>9. CASE UNCHANGED vars  BY <2>9, StutterKeepsIInv
  <2>10. QED
    BY <2>1, <2>2, <2>3, <2>4, <2>5, <2>6, <2>7, <2>8, <2>9 DEF Next
<1>2. QED  BY <1>1, InitIsIInv, PTL DEF Spec

-----------------------------------------------------------------------------
(* The answer.                                                             *)

LEMMA PlacesAreBlocks ==
  ASSUME TypeOK, NEW p \in Places
  PROVE  /\ p[1] \in DOMAIN docs /\ p[2] \in DOMAIN docs[p[1]]
         /\ p = <<p[1], p[2]>> /\ docs[p[1]][p[2]] \in Blocks
<1>1. PICK d \in DOMAIN docs : p \in {d} \X DOMAIN docs[d]  BY DEF Places
<1>2. p[1] = d /\ p[2] \in DOMAIN docs[d] /\ p = <<p[1], p[2]>>  BY <1>1
<1>3. docs[d] \in Seq(Blocks)  BY <1>1, Typed
<1>4. docs[d][p[2]] \in Blocks
  <2> DEFINE s == docs[d]
  <2>1. s \in Seq(Blocks) /\ p[2] \in DOMAIN s  BY <1>2, <1>3
  <2> HIDE DEF s
  <2>2. DOMAIN s = 1..Len(s)  BY <2>1, LenProperties
  <2>3. s[p[2]] \in Blocks  BY <2>1, <2>2, ElementOfSeq
  <2>4. QED  BY <2>3 DEF s
<1>5. QED  BY <1>1, <1>2, <1>4

(* No row is returned that the clause refuses. *)
LEMMA RowsMatch ==
  ASSUME IInv, phase = "done", NEW p \in Range(rows)
  PROVE  p \in Places /\ Matches(p[1], p[2])
<1>1. TypeOK /\ p \in Places /\ Shown(p)  BY DEF IInv
<1>2. CASE Matches(p[1], p[2])  BY <1>1, <1>2
<1>3. CASE ~Matches(p[1], p[2])
  <2>1. hint.by = "terms" /\ Len(where) = 1
    BY <1>1, <1>3 DEF Shown, WhereFullyIndexed
  <2>2. DOMAIN where = 1..Len(where) /\ \A k \in DOMAIN where : where[k] \in Conditions
    BY <1>1, Typed
  <2>3. PICK k \in DOMAIN where : hint = HintOf(where[k])
    BY <1>1, <2>1 DEF TypeOK, FullScan
  <2>4. \A j \in DOMAIN where : j = k  BY <2>1, <2>2
  <2> DEFINE c == where[k]
             b == docs[p[1]][p[2]]
  <2>5. c \in Conditions /\ HintOf(c).by = "terms"  BY <2>1, <2>2, <2>3
  <2>6. Finds(HintOf(c), b, kind)  BY <1>1, <2>3 DEF Shown
  <2> HIDE DEF c, b
  <2>7. Holds(c, b)  BY <2>5, <2>6, TermHints
  <2>8. QED  BY <1>1, <2>4, <2>7 DEF Matches, c, b
<1>4. QED  BY <1>2, <1>3

(* The hints of the clause follow all its conjuncts. *)
ClauseFits ==
  \A k \in DOMAIN where :
    /\ where[k].op = "in" => where[k].computed = {}
    /\ where[k].op = "between" => where[k].lo < PreWidth /\ where[k].hi < PreWidth

(* A row that matches is returned, unless its document was skipped. *)
LEMMA MatchesAreRows ==
  ASSUME IInv, phase = "done", ClauseFits, NEW p \in Places,
         Matches(p[1], p[2]), p[1] \notin skipped
  PROVE  p \in Range(rows)
<1>1. TypeOK /\ at = Len(docs) /\ Range(rows) = {q \in Places : Shown(q)}
  BY DEF IInv
<1>2. /\ p[1] \in DOMAIN docs /\ p[2] \in DOMAIN docs[p[1]]
      /\ docs[p[1]][p[2]] \in Blocks
  BY <1>1, PlacesAreBlocks
<1>3. DOMAIN docs = 1..Len(docs) /\ \A k \in DOMAIN where : where[k] \in Conditions
  BY <1>1, Typed
<1> DEFINE b == docs[p[1]][p[2]]
<1>4. Finds(hint, b, kind)
  <2>1. CASE hint = FullScan  BY <2>1 DEF FullScan, Finds
  <2>2. ASSUME NEW k \in DOMAIN where, hint = HintOf(where[k])
        PROVE  Finds(hint, b, kind)
    <3> DEFINE c == where[k]
    <3>1. /\ c.op = "in" => c.computed = {}
          /\ c.op = "between" => c.lo < PreWidth /\ c.hi < PreWidth
      BY DEF ClauseFits
    <3>2. Holds(c, b)  BY DEF Matches
    <3>3. c \in Conditions /\ b \in Blocks  BY <1>2, <1>3
    <3> HIDE DEF c, b
    <3>4. Finds(HintOf(c), b, kind)  BY <3>1, <3>2, <3>3, HintsFind
    <3>5. QED  BY <2>2, <3>4 DEF c
  <2>3. QED  BY <1>1, <2>1, <2>2 DEF TypeOK
<1>5. Shown(p)  BY <1>1, <1>2, <1>3, <1>4 DEF Shown
<1>6. QED  BY <1>1, <1>5

LEMMA InOrderIsInjective ==
  ASSUME TypeOK, InOrder(rows)
  PROVE  IsInjective(rows)
<1>1. rows \in Seq(Nat \X Nat) /\ DOMAIN rows = 1..Len(rows) /\ Len(rows) \in Nat
  BY Typed DEF TypeOK
<1>2. ASSUME NEW m \in DOMAIN rows, NEW n \in DOMAIN rows, m < n
      PROVE  rows[m] # rows[n]
  <2>1. rows[m] \in Nat \X Nat  BY <1>1, ElementOfSeq
  <2>2. Before(rows[m], rows[n])  BY <1>2 DEF InOrder
  <2>3. QED  BY <2>1, <2>2 DEF Before
<1>3. ASSUME NEW m \in DOMAIN rows, NEW n \in DOMAIN rows, rows[m] = rows[n]
      PROVE  m = n
  <2>1. m \in Nat /\ n \in Nat  BY <1>1
  <2>2. m < n \/ n < m \/ m = n  BY <2>1
  <2>3. QED  BY <1>2, <1>3, <2>2
<1>4. QED  BY <1>3 DEF IsInjective

-----------------------------------------------------------------------------
(* The theorems.                                                           *)

(* Whatever the blocks of a document, DocumentIndex::from_bytes reads from *)
(* the bytes of to_bytes the index that build made of them.                *)
THEOREM IndexRoundTrip ==
  ASSUME NEW blocks \in Documents, NEW k \in Kinds
  PROVE  FromBytes(ToBytes(Build(blocks, k))) = Build(blocks, k)
BY BuiltIsRead DEF Documents

(* Every index of the engine is the one that is built from the blocks of   *)
(* its document, also where it was read from the store file.               *)
THEOREM IndexesAreBuilt == Spec => []IndexesDescribeBlocks
<1>1. IInv => IndexesDescribeBlocks  BY DEF IInv
<1>2. QED  BY <1>1, IInvHolds, PTL

(* A query returns the rows of a full scan in their order, whatever lookup *)
(* was the cheapest and whatever documents were skipped; it panics only on *)
(* a range that ends before it starts.                                     *)
THEOREM ScansAreComplete == Spec => []FindsAllMatching
<1>1. ASSUME IInv PROVE FindsAllMatching
  <2>1. /\ TypeOK /\ InOrder(rows) /\ Range(rows) = {p \in Places : Shown(p)}
        /\ phase = "panic" => RangeInverted
        /\ \A d \in skipped : ZoneMapSkip(ZoneMaps(docs[d]))
    BY <1>1 DEF IInv
  <2>2. SUFFICES ASSUME phase = "done", ~ListIsComputed, ~BoundWraps
                 PROVE  Range(rows) =
                          {p \in Places :
                             /\ Matches(p[1], p[2])
                             /\ p[1] \in skipped => ~FrontmatterHasColumn(p[1])}
    BY <2>1 DEF FindsAllMatching
  <2>3. ClauseFits
    <3>1. \A k \in DOMAIN where : where[k] \in Range(where)  BY DEF Range
    <3>2. \A k \in DOMAIN where : where[k] \in Conditions  BY <2>1, Typed
    <3>3. ASSUME NEW k \in DOMAIN where, where[k].op = "in"
          PROVE  where[k].computed = {}
      BY <2>2, <3>1, <3>3 DEF ListIsComputed
    <3>4. ASSUME NEW k \in DOMAIN where, where[k].op = "between"
          PROVE  where[k].lo < PreWidth /\ where[k].hi < PreWidth
      <4> DEFINE c == where[k]
      <4>1. ~(c.lo >= PreWidth) /\ ~(c.hi >= PreWidth)
        BY <2>2, <3>1, <3>4 DEF BoundWraps
      <4>2. c \in Conditions /\ c.op = "between"  BY <3>2, <3>4
      <4>3. c.lo \in Nat /\ c.hi \in Nat  BY <4>2 DEF Conditions
      <4>4. QED  BY <4>1, <4>3, WidthsArePositive
    <3>5. QED  BY <3>3, <3>4 DEF ClauseFits
  <2>4. ASSUME NEW p \in Range(rows)
        PROVE  p \in Places /\ Matches(p[1], p[2]) /\ p[1] \notin skipped
    BY <1>1, <2>1, <2>2, RowsMatch DEF Shown
  <2>5. ASSUME NEW p \in Places, Matches(p[1], p[2]),
               p[1] \in skipped => ~FrontmatterHasColumn(p[1])
        PROVE  p \in Range(rows)
    <3>1. CASE p[1] \notin skipped
      BY <1>1, <2>2, <2>3, <2>5, <3>1, MatchesAreRows
    <3>2. CASE p[1] \in skipped
      <4>1. p[1] \in DOMAIN docs /\ p[2] \in DOMAIN docs[p[1]]
        BY <2>1, PlacesAreBlocks
      <4>2. docs[p[1]] \in Seq(Blocks) /\ where \in Seq(Conditions)
        BY <2>1, <4>1, Typed
      <4>3. ZoneMapSkip(ZoneMaps(docs[p[1]]))  BY <2>1, <3>2
      <4>4. ~Matches(p[1], p[2])
        BY <2>5, <3>2, <4>1, <4>2, <4>3, SkipsNoMatch
      <4>5. QED  BY <2>5, <4>4
    <3>3. QED  BY <3>1, <3>2
  <2>6. QED  BY <2>4, <2>5
<1>2. QED  BY <1>1, IInvHolds, PTL

(* A query returns no row twice and none that its clause refuses.          *)
THEOREM ScansAreSound == Spec => []ReturnsOnlyMatching
<1>1. ASSUME IInv PROVE ReturnsOnlyMatching
  <2>1. SUFFICES ASSUME phase = "done"
                 PROVE  /\ IsInjective(rows)
                        /\ \A n \in DOMAIN rows :
                             Matches(rows[n][1], rows[n][2])
    BY DEF ReturnsOnlyMatching
  <2>2. IsInjective(rows)  BY <1>1, InOrderIsInjective DEF IInv
  <2>3. \A n \in DOMAIN rows : rows[n] \in Range(rows)  BY DEF Range
  <2>4. \A n \in DOMAIN rows : Matches(rows[n][1], rows[n][2])
    BY <1>1, <2>1, <2>3, RowsMatch
  <2>5. QED  BY <2>2, <2>4
<1>2. QED  BY <1>1, IInvHolds, PTL

(* A full-text query in a script without spaces finds every text that      *)
(* contains it, for both n-gram tokenizers and queries of any length.      *)
THEOREM SubstringsAreFound == Spec => []SubstringsMatch
<1>1. ASSUME IInv, phase = "done", kind # "word", skipped = {},
             NEW k \in DOMAIN where, where[k].op = "match", Len(where) = 1,
             Fold(where[k].text) # <<>>,
             Range(Fold(where[k].text)) \subseteq Cjk,
             NEW d \in DOMAIN docs, NEW i \in DOMAIN docs[d],
             NEW j \in 0..Len(Fold(docs[d][i].content)) - Len(Fold(where[k].text)),
             SubSeq(Fold(docs[d][i].content), j + 1,
                    j + Len(Fold(where[k].text))) = Fold(where[k].text)
      PROVE  \E n \in DOMAIN rows : rows[n] = <<d, i>>
  <2> DEFINE p == <<d, i>>
             b == docs[d][i]
             c == where[k]
  <2>1. TypeOK  BY <1>1 DEF IInv
  <2>2. p \in Places /\ p[1] = d /\ p[2] = i
    <3>1. p \in {d} \X DOMAIN docs[d]  OBVIOUS
    <3>2. QED  BY <3>1 DEF Places
  <2>3. b \in Blocks
    <3> HIDE DEF p
    <3>1. docs[p[1]][p[2]] \in Blocks  BY <2>1, <2>2, PlacesAreBlocks
    <3>2. QED  BY <2>2, <3>1
  <2>4. c \in Conditions /\ DOMAIN where = 1..1  BY <1>1, <2>1, Typed
  <2>5. kind \in {"bigram", "trigram"}
    BY <1>1, <2>1, KindsAreTokenizers DEF TypeOK
  <2>6. b.content \in Texts  BY <2>3 DEF Blocks
  <2>7. c.text \in Texts  BY <1>1, <2>4 DEF Conditions
  <2>8. Tokens(c.text, kind) # {}
        /\ Tokens(c.text, kind) \subseteq Tokens(b.content, kind)
    BY <1>1, <2>5, <2>6, <2>7, SubstringTokens
  <2>9. Holds(c, b)  BY <1>1, <2>8 DEF Holds
  <2>10. \A l \in DOMAIN where : l = k  BY <2>4
  <2>11. Matches(d, i)  BY <2>9, <2>10 DEF Matches
  <2>12. ClauseFits  BY <1>1, <2>10 DEF ClauseFits
  <2> HIDE DEF p
  <2>13. p \in Range(rows)
    BY <1>1, <2>2, <2>11, <2>12, MatchesAreRows
  <2>14. QED  BY <2>13 DEF Range, p
<1>2. IInv => SubstringsMatch  BY <1>1 DEF SubstringsMatch
<1>3. QED  BY <1>2, IInvHolds, PTL
=============================================================================
