------------------------- MODULE BlockAnchorsProofs -------------------------
(***************************************************************************)
(* Proofs about SectionIndex and BlockAnchors, for documents of any        *)
(* length, headings of any level and any texts: the interval of a block    *)
(* contains that of another exactly when the other is in its section, the  *)
(* searches for the number after an interval and for the one after its     *)
(* start find the next block of the section and the first one in it, the   *)
(* stack of block_anchors finds the sections that the numbers of           *)
(* build_blocks encode, and no two blocks get one anchor.                  *)
(***************************************************************************)
EXTENDS BlockAnchors, FiniteSetTheorems, SequenceTheorems, TLAPS


-----------------------------------------------------------------------------
(* Sections of a list of nodes ns.  The definitions of the model, with the *)
(* document as a parameter, so that a step does not have to prime them.    *)

H(ns, s) == s # 0 /\ ns[s].kind = "heading"
D(ns, s) == IF s = 0 THEN 0 ELSE ns[s].prop
U(ns, a, b) ==
  /\ a < b
  /\ a = 0 \/ H(ns, a)
  /\ \A c \in a+1..b : H(ns, c) => D(ns, c) > D(ns, a)

(* a is the innermost section around b. *)
Parent(ns, a, b) ==
  /\ U(ns, a, b)
  /\ \A c \in 0..b-1 : U(ns, c, b) => c <= a

(* The section of a is not closed by the first k nodes. *)
StillOpen(ns, a, k) ==
  /\ a \in 0..k
  /\ a = 0 \/ H(ns, a)
  /\ \A c \in a+1..k : H(ns, c) => D(ns, c) > D(ns, a)

(* Phase 1: the stack holds the open sections, the tree their children. *)
Opened(ns, k, op) ==
  /\ op \in Seq(0..k) /\ Len(op) > 0
  /\ \A i, j \in 1..Len(op) : i < j => op[i] < op[j]
  /\ \A i \in 1..Len(op) : StillOpen(ns, op[i], k)
  /\ \A a \in 0..k : StillOpen(ns, a, k) => \E i \in 1..Len(op) : op[i] = a

Tree(ns, k, ch) ==
  /\ ch \in [0..k -> Seq(1..k)]
  /\ \A s \in 0..k : \A j \in 1..Len(ch[s]) : Parent(ns, s, ch[s][j])
  /\ \A s \in 0..k : \A i, j \in 1..Len(ch[s]) : i < j => ch[s][i] < ch[s][j]
  /\ \A b \in 1..k : \E s \in 0..k : \E j \in 1..Len(ch[s]) : ch[s][j] = b

(* Phase 2: v is the slot entered last, fs the stack. *)
TopOf(fs) == fs[Len(fs)]
OnStack(fs, s) == \E i \in 1..Len(fs) : fs[i].slot = s

Stacked(ns, n, ch, fs, v) ==
  /\ fs \in Seq([slot : 0..v, next : Nat \ {0}])
  /\ \A i, j \in 1..Len(fs) : i < j => fs[i].slot < fs[j].slot
  /\ \A i \in 1..Len(fs) : fs[i].slot = v \/ U(ns, fs[i].slot, v)
  /\ \A i \in 1..Len(fs) : \A j \in 1..Len(ch[fs[i].slot]) :
       ch[fs[i].slot][j] <= v <=> j < fs[i].next
  /\ \A a \in 0..v : \A b \in v+1..n : U(ns, a, b) => OnStack(fs, a)

Numbered(ns, n, fs, v, pr, po, cn) ==
  /\ pr \in [0..n -> Nat] /\ po \in [0..n -> Nat] /\ cn \in Nat
  /\ \A s \in 0..v : pr[s] < cn
  /\ \A a, b \in 0..v : a < b => pr[a] < pr[b]
  /\ \A s \in 0..v : ~OnStack(fs, s) => pr[s] < po[s] /\ po[s] < cn
  /\ \A a, b \in 0..v : U(ns, a, b) /\ ~OnStack(fs, a)
                          => ~OnStack(fs, b) /\ po[b] < po[a]
  /\ \A a, b \in 0..v : a < b /\ ~U(ns, a, b)
                          => ~OnStack(fs, a) /\ po[a] < pr[b]

(* Phase 3. *)
Built(ns, n, m, pr, po, bs) ==
  /\ bs \in Seq([node : 1..n, pre : Nat, post : Nat])
  /\ \A i \in 1..Len(bs) :
       bs[i].pre = pr[bs[i].node] /\ bs[i].post = po[bs[i].node]

IInv ==
  /\ nodes \in Seq(Node)
  /\ phase \in {"sections", "numbers", "blocks", "done"}
  /\ added \in Slots /\ last \in Slots /\ built \in Slots
  /\ Opened(nodes, added, open)
  /\ Tree(nodes, added, children)
  /\ pre \in [Slots -> Nat] /\ post \in [Slots -> Nat] /\ counter \in Nat
  /\ phase = "sections" => dfs = <<>> /\ counter = 0 /\ last = 0
  /\ phase # "sections" =>
       /\ added = Len(nodes)
       /\ Stacked(nodes, Len(nodes), children, dfs, last)
       /\ Numbered(nodes, Len(nodes), dfs, last, pre, post, counter)
  /\ phase \in {"blocks", "done"} => dfs = <<>>
  /\ Built(nodes, Len(nodes), built, pre, post, blocks)
  /\ phase \in {"sections", "numbers"} => blocks = <<>>
-----------------------------------------------------------------------------
(* Documents *)

LEMMA NodeDepth ==
  ASSUME NEW ns \in Seq(Node), NEW s \in 0..Len(ns)
  PROVE  D(ns, s) \in Nat /\ (H(ns, s) => D(ns, s) > 0)
BY SizesAreNatural
   DEF D, H, Node, Heading, Frontmatter, Other, Skipped

LEMMA ParentUnique ==
  ASSUME NEW ns, NEW b \in Nat, NEW a1 \in Nat, NEW a2 \in Nat,
         Parent(ns, a1, b), Parent(ns, a2, b)
  PROVE  a1 = a2
BY DEF Parent, U

(* A section around a later node is around all nodes before it. *)
LEMMA UnderEarlier ==
  ASSUME NEW ns, NEW a \in Nat, NEW b \in Nat, NEW c \in Nat,
         U(ns, a, c), a < b, b <= c
  PROVE  U(ns, a, b)
BY DEF U

(* Sections nest. *)
LEMMA UnderNested ==
  ASSUME NEW ns \in Seq(Node), NEW a \in Nat, NEW p \in Nat, NEW b \in Nat,
         NEW v \in Nat, v < Len(ns), b = v + 1,
         a < p, p <= v, U(ns, a, v), U(ns, p, b)
  PROVE  U(ns, a, b)
<1>1. p # 0 /\ H(ns, p) /\ p \in a+1..v
  BY DEF U
<1>2. D(ns, p) > D(ns, a)
  BY <1>1 DEF U
<1>3. D(ns, a) \in Nat /\ D(ns, p) \in Nat /\ D(ns, b) \in Nat
  BY NodeDepth
<1>4. H(ns, b) => D(ns, b) > D(ns, p)
  <2>1. b \in p+1..b
    OBVIOUS
  <2> QED BY <2>1 DEF U
<1>5. H(ns, b) => D(ns, b) > D(ns, a)
  BY <1>2, <1>3, <1>4
<1>6. ASSUME NEW c \in a+1..b, H(ns, c) PROVE D(ns, c) > D(ns, a)
  <2>1. c \in a+1..v \/ c = b
    OBVIOUS
  <2> QED BY <2>1, <1>5, <1>6 DEF U
<1> QED BY <1>6 DEF U
-----------------------------------------------------------------------------
(* Phase 1 *)

(* The tree after node k + 1 became a child of p. *)
Grown(k, ch, p) ==
  [s \in 0..k + 1 |-> IF s = k + 1 THEN <<>>
                      ELSE IF s = p THEN Append(ch[s], k + 1)
                      ELSE ch[s]]

LEMMA TreeGrows ==
  ASSUME NEW ns, NEW k \in Nat, NEW ch, Tree(ns, k, ch),
         NEW p \in 0..k, Parent(ns, p, k + 1)
  PROVE  Tree(ns, k + 1, Grown(k, ch, p))
<1> DEFINE n == k + 1
           new == Grown(k, ch, p)
<1>1. ch \in [0..k -> Seq(1..k)]
  BY DEF Tree
<1>2. \A s \in 0..k : ch[s] \in Seq(1..n)
  <2> SUFFICES ASSUME NEW s \in 0..k PROVE ch[s] \in Seq(1..n)
    OBVIOUS
  <2>1. ch[s] \in Seq(1..k) /\ 1..k \subseteq 1..n
    BY <1>1
  <2> QED BY <2>1, SeqMonotonic
<1>3. /\ new[n] = <<>>
      /\ new[p] = Append(ch[p], n)
      /\ \A s \in 0..k : s # p => new[s] = ch[s]
  BY DEF Grown
<1>4. /\ new[p] \in Seq(1..n)
      /\ Len(new[p]) = Len(ch[p]) + 1
      /\ \A j \in 1..Len(ch[p]) : new[p][j] = ch[p][j]
      /\ new[p][Len(ch[p]) + 1] = n
  BY <1>2, <1>3, AppendProperties
<1>5. new \in [0..n -> Seq(1..n)]
  <2>1. \A s \in 0..n : new[s] \in Seq(1..n)
    <3> SUFFICES ASSUME NEW s \in 0..n PROVE new[s] \in Seq(1..n)
      OBVIOUS
    <3>1. s = n \/ (s \in 0..k /\ s # p) \/ s = p
      OBVIOUS
    <3>2. <<>> \in Seq(1..n)
      BY EmptySeq
    <3> HIDE DEF new
    <3> QED BY <3>1, <3>2, <1>2, <1>3, <1>4
  <2> QED BY <2>1 DEF Grown
<1> HIDE DEF new
<1>6. \A s \in 0..k : \A j \in 1..Len(ch[s]) : ch[s][j] \in 1..k
  BY <1>1, ElementOfSeq
<1>7. \A s \in 0..n : \A j \in 1..Len(new[s]) :
        \/ s \in 0..k /\ j \in 1..Len(ch[s]) /\ new[s][j] = ch[s][j]
        \/ s = p /\ j = Len(ch[p]) + 1 /\ new[s][j] = n
  <2> SUFFICES ASSUME NEW s \in 0..n, NEW j \in 1..Len(new[s])
               PROVE  \/ s \in 0..k /\ j \in 1..Len(ch[s])
                                    /\ new[s][j] = ch[s][j]
                      \/ s = p /\ j = Len(ch[p]) + 1 /\ new[s][j] = n
    OBVIOUS
  <2>1. Len(ch[p]) \in Nat /\ Len(<<>>) = 0
    BY <1>2, LenProperties
  <2>2. s # n
    BY <1>3, <2>1
  <2>3. CASE s = p
    BY <2>3, <2>1, <1>4
  <2>4. CASE s # p
    BY <2>2, <2>4, <1>3
  <2> QED BY <2>3, <2>4
<1>8. \A s \in 0..n : \A j \in 1..Len(new[s]) : Parent(ns, s, new[s][j])
  BY <1>7 DEF Tree
<1>9. \A s \in 0..n : \A i, j \in 1..Len(new[s]) :
        i < j => new[s][i] < new[s][j]
  <2> SUFFICES ASSUME NEW s \in 0..n, NEW i \in 1..Len(new[s]),
                      NEW j \in 1..Len(new[s]), i < j
               PROVE  new[s][i] < new[s][j]
    OBVIOUS
  <2>0. s = p => Len(ch[s]) \in Nat
    BY <1>2, LenProperties
  <2>1. CASE s \in 0..k /\ i \in 1..Len(ch[s]) /\ j \in 1..Len(ch[s])
             /\ new[s][i] = ch[s][i] /\ new[s][j] = ch[s][j]
    BY <2>1 DEF Tree
  <2>2. CASE s = p /\ i \in 1..Len(ch[s]) /\ new[s][i] = ch[s][i]
             /\ new[s][j] = n
    BY <2>2, <1>6
  <2> QED BY <1>7, <2>0, <2>1, <2>2
<1>10. \A b \in 1..n : \E s \in 0..n : \E j \in 1..Len(new[s]) : new[s][j] = b
  <2> SUFFICES ASSUME NEW b \in 1..n
               PROVE  \E s \in 0..n : \E j \in 1..Len(new[s]) : new[s][j] = b
    OBVIOUS
  <2>1. CASE b = n
    <3>1. Len(ch[p]) \in Nat
      BY <1>2, LenProperties
    <3>2. Len(ch[p]) + 1 \in 1..Len(new[p])
      BY <3>1, <1>4
    <3>3. new[p][Len(ch[p]) + 1] = b
      BY <2>1, <1>4
    <3>4. p \in 0..n
      OBVIOUS
    <3> QED BY <3>2, <3>3, <3>4
  <2>2. CASE b \in 1..k
    <3>0. PICK s \in 0..k : \E j \in 1..Len(ch[s]) : ch[s][j] = b
      BY <2>2 DEF Tree
    <3>1. PICK j \in 1..Len(ch[s]) : ch[s][j] = b
      BY <3>0
    <3>2. Len(ch[s]) \in Nat
      BY <1>2, LenProperties
    <3>3. CASE s = p
      <4>1. j \in 1..Len(new[p]) /\ new[p][j] = ch[p][j]
        BY <3>2, <3>3, <1>4
      <4> QED BY <3>1, <3>3, <4>1
    <3>4. CASE s # p
      <4>1. new[s] = ch[s]
        BY <3>4, <1>3
      <4>2. j \in 1..Len(new[s]) /\ new[s][j] = b
        BY <3>1, <4>1
      <4> QED BY <4>2
    <3> QED BY <3>3, <3>4
  <2> QED BY <2>1, <2>2
<1> QED BY <1>5, <1>8, <1>9, <1>10 DEF Tree, new

(* What it takes to be open after one more node. *)
LEMMA StillOpenNext ==
  ASSUME NEW ns, NEW k \in Nat, NEW a \in 0..k + 1
  PROVE  StillOpen(ns, a, k + 1) <=>
           \/ a = k + 1 /\ H(ns, a)
           \/ /\ a \in 0..k /\ StillOpen(ns, a, k)
              /\ H(ns, k + 1) => D(ns, k + 1) > D(ns, a)
<1>1. CASE a = k + 1
  BY <1>1 DEF StillOpen
<1>2. CASE a \in 0..k
  <2>1. a+1..k + 1 = (a+1..k) \cup {k + 1}
    BY <1>2
  <2> QED BY <1>2, <2>1 DEF StillOpen
<1> QED BY <1>1, <1>2

LEMMA UnderIsOpen ==
  ASSUME NEW ns, NEW k \in Nat, NEW a \in 0..k
  PROVE  U(ns, a, k + 1) <=>
           /\ StillOpen(ns, a, k)
           /\ H(ns, k + 1) => D(ns, k + 1) > D(ns, a)
<1>1. a+1..k + 1 = (a+1..k) \cup {k + 1}
  OBVIOUS
<1> QED BY <1>1 DEF StillOpen, U

(* On the stack, levels grow as slots do. *)
LEMMA LevelsGrow ==
  ASSUME NEW ns \in Seq(Node), NEW k \in 0..Len(ns), NEW op,
         Opened(ns, k, op), NEW i \in 1..Len(op), NEW j \in 1..Len(op), i < j
  PROVE  D(ns, op[i]) < D(ns, op[j])
<1>1. op[i] \in 0..k /\ op[j] \in 0..k /\ op[i] < op[j]
  BY DEF Opened
<1>2. H(ns, op[j]) /\ op[j] \in op[i]+1..k
  BY <1>1 DEF Opened, StillOpen
<1> QED BY <1>1, <1>2 DEF Opened, StillOpen

LEMMA OpenedByHeading ==
  ASSUME NEW ns \in Seq(Node), NEW k \in Nat, k < Len(ns), NEW op,
         Opened(ns, k, op), H(ns, k + 1),
         NEW m \in 1..Len(op), D(ns, op[m]) < D(ns, k + 1),
         \A i \in m+1..Len(op) : D(ns, op[i]) >= D(ns, k + 1)
  PROVE  /\ Parent(ns, op[m], k + 1)
         /\ Opened(ns, k + 1, Append(SubSeq(op, 1, m), k + 1))
<1> DEFINE n == k + 1
           new == Append(SubSeq(op, 1, m), n)
<1>1. op \in Seq(0..k) /\ Len(op) \in Nat
  BY LenProperties DEF Opened
<1>2. /\ SubSeq(op, 1, m) \in Seq(0..n) /\ Len(SubSeq(op, 1, m)) = m
      /\ \A i \in 1..m : SubSeq(op, 1, m)[i] = op[i]
  <2>1. \A i \in 1..m : op[i] \in 0..n
    BY <1>1
  <2> QED BY <2>1, <1>1, SubSeqProperties
<1>3. /\ new \in Seq(0..n) /\ Len(new) = m + 1
      /\ \A i \in 1..m : new[i] = op[i]
      /\ new[m + 1] = n
  BY <1>2, AppendProperties
<1>4. \A i \in 1..Len(op) : op[i] \in 0..k /\ D(ns, op[i]) \in Nat
  BY <1>1, NodeDepth
<1>5. D(ns, n) \in Nat
  BY NodeDepth
<1>6. \A i \in 1..Len(op) : D(ns, n) > D(ns, op[i]) <=> i <= m
  <2> SUFFICES ASSUME NEW i \in 1..Len(op)
               PROVE  D(ns, n) > D(ns, op[i]) <=> i <= m
    OBVIOUS
  <2>1. CASE i < m
    <3>1. D(ns, op[i]) < D(ns, op[m])
      BY <2>1, LevelsGrow
    <3> QED BY <3>1, <2>1, <1>4, <1>5
  <2>2. CASE i = m
    BY <2>2, <1>4, <1>5
  <2>3. CASE i > m
    BY <2>3, <1>1, <1>4, <1>5
  <2> QED BY <2>1, <2>2, <2>3
<1>7. Parent(ns, op[m], n)
  <2>1. U(ns, op[m], n)
    BY <1>4, <1>6, UnderIsOpen DEF Opened
  <2>2. ASSUME NEW c \in 0..n-1, U(ns, c, n) PROVE c <= op[m]
    <3>1. c \in 0..k /\ StillOpen(ns, c, k) /\ D(ns, n) > D(ns, c)
      BY <2>2, UnderIsOpen
    <3>2. PICK i \in 1..Len(op) : op[i] = c
      BY <3>1 DEF Opened
    <3>3. i <= m
      BY <3>1, <3>2, <1>6
    <3>4. i < m => op[i] < op[m]
      BY <3>2 DEF Opened
    <3>5. op[i] \in 0..k /\ op[m] \in 0..k
      BY <1>4
    <3>6. CASE i < m
      BY <3>2, <3>4, <3>5, <3>6
    <3>7. CASE i = m
      BY <3>2, <3>5, <3>7
    <3> QED BY <3>3, <3>6, <3>7, <1>1
  <2>3. \A c \in 0..n-1 : U(ns, c, n) => c <= op[m]
    BY <2>2
  <2> HIDE DEF new
  <2> QED BY <2>1, <2>3 DEF Parent
<1> HIDE DEF new
<1>8. \A i, j \in 1..Len(new) : i < j => new[i] < new[j]
  <2> SUFFICES ASSUME NEW i \in 1..m+1, NEW j \in 1..m+1, i < j
               PROVE  new[i] < new[j]
    BY <1>3
  <2>1. i \in 1..m /\ i \in 1..Len(op)
    BY <1>1
  <2>2. new[i] = op[i] /\ op[i] \in 0..k
    BY <2>1, <1>3, <1>4
  <2>3. CASE j = m + 1
    BY <2>2, <2>3, <1>3
  <2>4. CASE j \in 1..m
    <3>1. j \in 1..Len(op)
      BY <2>4, <1>1
    <3>2. new[j] = op[j]
      BY <2>4, <1>3
    <3>3. op[i] < op[j]
      BY <2>1, <3>1 DEF Opened
    <3> QED BY <2>2, <3>2, <3>3
  <2> QED BY <2>3, <2>4
<1>9. \A i \in 1..Len(new) : StillOpen(ns, new[i], n)
  <2> SUFFICES ASSUME NEW i \in 1..m+1 PROVE StillOpen(ns, new[i], n)
    BY <1>3
  <2>1. CASE i = m + 1
    BY <2>1, <1>3, StillOpenNext
  <2>2. CASE i \in 1..m
    <3>1. new[i] = op[i] /\ i \in 1..Len(op)
      BY <2>2, <1>1, <1>3
    <3>2. D(ns, n) > D(ns, op[i]) /\ StillOpen(ns, op[i], k) /\ op[i] \in 0..k
      BY <2>2, <3>1, <1>4, <1>6 DEF Opened
    <3> QED BY <3>1, <3>2, StillOpenNext
  <2> QED BY <2>1, <2>2
<1>10. ASSUME NEW a \in 0..n, StillOpen(ns, a, n)
       PROVE  \E i \in 1..Len(new) : new[i] = a
  <2>1. CASE a = n
    BY <2>1, <1>3
  <2>2. CASE a \in 0..k
    <3>1. StillOpen(ns, a, k) /\ D(ns, n) > D(ns, a)
      BY <1>10, <2>2, StillOpenNext
    <3>2. PICK i \in 1..Len(op) : op[i] = a
      BY <2>2, <3>1 DEF Opened
    <3>3. i \in 1..m
      BY <3>1, <3>2, <1>6
    <3> QED BY <3>2, <3>3, <1>3
  <2> QED BY <2>1, <2>2
<1>11. Opened(ns, n, new)
  BY <1>3, <1>8, <1>9, <1>10 DEF Opened
<1> QED BY <1>7, <1>11 DEF new

LEMMA OpenedByOther ==
  ASSUME NEW ns \in Seq(Node), NEW k \in Nat, k < Len(ns), NEW op,
         Opened(ns, k, op), ~H(ns, k + 1)
  PROVE  /\ Parent(ns, op[Len(op)], k + 1)
         /\ Opened(ns, k + 1, op)
<1>1. op \in Seq(0..k) /\ Len(op) \in Nat /\ Len(op) \in 1..Len(op)
  BY LenProperties DEF Opened
<1>2. op \in Seq(0..k + 1)
  <2>1. 0..k \subseteq 0..k + 1
    OBVIOUS
  <2> QED BY <1>1, <2>1, SeqMonotonic
<1>3. \A i \in 1..Len(op) : op[i] \in 0..k
  BY <1>1
<1>4. Parent(ns, op[Len(op)], k + 1)
  <2>1. U(ns, op[Len(op)], k + 1)
    BY <1>1, <1>3, UnderIsOpen DEF Opened
  <2>2. ASSUME NEW c \in 0..(k + 1)-1, U(ns, c, k + 1)
        PROVE  c <= op[Len(op)]
    <3>1. c \in 0..k /\ StillOpen(ns, c, k)
      BY <2>2, UnderIsOpen
    <3>2. PICK i \in 1..Len(op) : op[i] = c
      BY <3>1 DEF Opened
    <3>3. i < Len(op) => op[i] < op[Len(op)]
      BY <1>1, <3>2 DEF Opened
    <3> QED BY <3>2, <3>3, <1>1, <1>3
  <2> QED BY <2>1, <2>2 DEF Parent
<1>5. \A i \in 1..Len(op) : StillOpen(ns, op[i], k + 1)
  BY <1>3, StillOpenNext DEF Opened
<1>6. ASSUME NEW a \in 0..k + 1, StillOpen(ns, a, k + 1)
      PROVE  \E i \in 1..Len(op) : op[i] = a
  <2>1. a \in 0..k /\ StillOpen(ns, a, k)
    BY <1>6, StillOpenNext
  <2> QED BY <2>1 DEF Opened
<1> QED BY <1>2, <1>4, <1>5, <1>6 DEF Opened
-----------------------------------------------------------------------------
(* Phase 2 *)

HasParent(ns, ch, b) ==
  \E s \in Nat : /\ s < b /\ Parent(ns, s, b)
                 /\ \E j \in 1..Len(ch[s]) : ch[s][j] = b

LEMMA ParentExists ==
  ASSUME NEW ns, NEW n \in Nat, NEW ch, Tree(ns, n, ch), NEW b \in 1..n
  PROVE  HasParent(ns, ch, b)
<1>1. PICK s \in 0..n : \E j \in 1..Len(ch[s]) : ch[s][j] = b
  BY DEF Tree
<1>2. Parent(ns, s, b)
  BY <1>1 DEF Tree
<1>3. s < b
  BY <1>2 DEF Parent, U
<1> QED BY <1>1, <1>2, <1>3 DEF HasParent

ChildAt(ch, s, b, m) ==
  \E j \in 1..Len(ch[s]) : ch[s][j] = b /\ j >= m

(* When a later node is in the section of the slot on top, the next slot is
   a child of that slot, not entered yet. *)
LEMMA TopIsParent ==
  ASSUME NEW ns, NEW n \in Nat, NEW ch, Tree(ns, n, ch),
         NEW v \in 0..n, NEW fs, Stacked(ns, n, ch, fs, v),
         Len(fs) > 0,
         NEW c \in v+1..n, U(ns, TopOf(fs).slot, c)
  PROVE  /\ v < n
         /\ TopOf(fs).slot \in 0..v /\ TopOf(fs).next \in Nat \ {0}
         /\ Parent(ns, TopOf(fs).slot, v + 1)
         /\ ChildAt(ch, TopOf(fs).slot, v + 1, TopOf(fs).next)
<1> DEFINE s == TopOf(fs).slot
<1>1. fs \in Seq([slot : 0..v, next : Nat \ {0}]) /\ Len(fs) \in 1..Len(fs)
  BY LenProperties DEF Stacked
<1>2. TopOf(fs) \in [slot : 0..v, next : Nat \ {0}]
  BY <1>1, ElementOfSeq DEF TopOf
<1>3. s \in 0..v /\ s \in 0..n /\ TopOf(fs).next \in Nat \ {0}
  BY <1>2
<1>4. v < n /\ v + 1 \in v+1..n
  OBVIOUS
<1>5. U(ns, s, v + 1)
  BY <1>3, UnderEarlier
<1>6. PICK p \in Nat : /\ p < v + 1 /\ Parent(ns, p, v + 1)
                       /\ \E j \in 1..Len(ch[p]) : ch[p][j] = v + 1
  <2>1. PICK w \in 1..n : w = v + 1
    BY <1>4
  <2>2. HasParent(ns, ch, w)
    BY ParentExists
  <2> QED BY <2>1, <2>2 DEF HasParent
<1>7. p = s
  <2>1. U(ns, p, v + 1) /\ s <= p
    BY <1>3, <1>5, <1>6 DEF Parent
  <2>2. OnStack(fs, p)
    <3>1. p \in 0..v
      BY <1>6
    <3> QED BY <3>1, <1>4, <2>1 DEF Stacked
  <2>3. PICK i \in 1..Len(fs) : fs[i].slot = p
    BY <2>2 DEF OnStack
  <2>4. i < Len(fs) => p < s
    BY <1>1, <2>3 DEF Stacked, TopOf
  <2>5. i <= Len(fs) /\ i \in Nat /\ Len(fs) \in Nat
    BY <1>1, <2>3
  <2> QED BY <2>1, <2>3, <2>4, <2>5, <1>3 DEF TopOf
<1>8. PICK j \in 1..Len(ch[s]) : ch[s][j] = v + 1
  BY <1>6, <1>7
<1>9. ch[s][j] <= v <=> j < TopOf(fs).next
  BY <1>1 DEF Stacked, TopOf
<1>10. Len(ch[s]) \in Nat
  <2>1. ch[s] \in Seq(1..n)
    BY <1>3 DEF Tree
  <2> QED BY <2>1, LenProperties
<1>11. j >= TopOf(fs).next
  BY <1>3, <1>8, <1>9, <1>10
<1> QED BY <1>3, <1>4, <1>6, <1>7, <1>8, <1>11 DEF ChildAt

(* The next child of the slot on top is the slot after the last one.       *)
LEMMA NextIsPreorder ==
  ASSUME NEW ns, NEW n \in Nat, NEW ch, Tree(ns, n, ch),
         NEW v \in 0..n, NEW fs, Stacked(ns, n, ch, fs, v),
         Len(fs) > 0,
         TopOf(fs).next <= Len(ch[TopOf(fs).slot])
  PROVE  /\ v < n
         /\ ch[TopOf(fs).slot][TopOf(fs).next] = v + 1
         /\ Parent(ns, TopOf(fs).slot, v + 1)
<1> DEFINE s == TopOf(fs).slot
           m == TopOf(fs).next
           c == ch[s][m]
<1>1. fs \in Seq([slot : 0..v, next : Nat \ {0}]) /\ Len(fs) \in 1..Len(fs)
  BY LenProperties DEF Stacked
<1>2. TopOf(fs) \in [slot : 0..v, next : Nat \ {0}]
  BY <1>1, ElementOfSeq DEF TopOf
<1>3. s \in 0..v /\ s \in 0..n /\ m \in Nat \ {0}
  BY <1>2
<1>4. ch[s] \in Seq(1..n)
  BY <1>3 DEF Tree
<1>5. m \in 1..Len(ch[s]) /\ Len(ch[s]) \in Nat
  BY <1>3, <1>4, LenProperties
<1>6. c \in v+1..n
  <2>1. c \in 1..n
    BY <1>4, <1>5, ElementOfSeq
  <2>2. c <= v <=> m < m
    <3>1. \A i \in 1..Len(fs) : \A l \in 1..Len(ch[fs[i].slot]) :
            ch[fs[i].slot][l] <= v <=> l < fs[i].next
      BY DEF Stacked
    <3> QED BY <3>1, <1>1, <1>5 DEF TopOf
  <2> QED BY <2>1, <2>2, <1>3
<1>7. U(ns, s, c)
  <2>1. Parent(ns, s, c)
    BY <1>3, <1>5 DEF Tree
  <2> QED BY <2>1 DEF Parent
<1>8. /\ v < n
      /\ Parent(ns, s, v + 1)
      /\ ChildAt(ch, s, v + 1, m)
  BY <1>6, <1>7, TopIsParent
<1>9. PICK j \in 1..Len(ch[s]) : ch[s][j] = v + 1 /\ j >= m
  BY <1>8 DEF ChildAt
<1>10. j > m => c < v + 1
  <2>1. \A i, l \in 1..Len(ch[s]) : i < l => ch[s][i] < ch[s][l]
    BY <1>3 DEF Tree
  <2> QED BY <2>1, <1>5, <1>9
<1>11. j = m
  BY <1>3, <1>5, <1>6, <1>9, <1>10
<1> QED BY <1>8, <1>9, <1>11

(* A slot is left when no later node is in its section. *)
LEMMA LeftIsOver ==
  ASSUME NEW ns, NEW n \in Nat, NEW ch, Tree(ns, n, ch),
         NEW v \in 0..n, NEW fs, Stacked(ns, n, ch, fs, v),
         Len(fs) > 0,
         TopOf(fs).next > Len(ch[TopOf(fs).slot]),
         NEW b \in v+1..n
  PROVE  ~U(ns, TopOf(fs).slot, b)
<1> SUFFICES ASSUME U(ns, TopOf(fs).slot, b) PROVE FALSE
  OBVIOUS
<1>1. /\ TopOf(fs).slot \in 0..v /\ TopOf(fs).next \in Nat \ {0}
      /\ ChildAt(ch, TopOf(fs).slot, v + 1, TopOf(fs).next)
  BY TopIsParent
<1>2. Len(ch[TopOf(fs).slot]) \in Nat
  <2>1. TopOf(fs).slot \in 0..n
    BY <1>1
  <2>2. ch[TopOf(fs).slot] \in Seq(1..n)
    BY <2>1 DEF Tree
  <2> QED BY <2>2, LenProperties
<1> QED BY <1>1, <1>2 DEF ChildAt

(* Frames of slots up to n, and the stack after Enter pushed slot w. *)
Frames(n) == [slot : 0..n, next : Nat \ {0}]

Pushed(fs, new, w) ==
  /\ new \in Seq(Frames(w)) /\ Len(new) = Len(fs) + 1
  /\ \A i \in 1..Len(fs) : new[i].slot = fs[i].slot
  /\ \A i \in 1..Len(fs) - 1 : new[i].next = fs[i].next
  /\ new[Len(fs)].next = fs[Len(fs)].next + 1
  /\ new[Len(fs) + 1].slot = w /\ new[Len(fs) + 1].next = 1

LEMMA EnterPushes ==
  ASSUME NEW w \in Nat, NEW fs \in Seq(Frames(w)), NEW t \in Nat,
         t = Len(fs), t > 0,
         NEW f, f = [slot |-> fs[t].slot, next |-> fs[t].next + 1],
         NEW g, g = [slot |-> w, next |-> 1]
  PROVE  Pushed(fs, Append([fs EXCEPT ![t] = f], g), w)
<1>1. t \in 1..Len(fs) /\ fs[t] \in Frames(w)
  BY ElementOfSeq
<1>2. f \in Frames(w) /\ g \in Frames(w)
  BY <1>1 DEF Frames
<1>3. PICK mid : mid = [fs EXCEPT ![t] = f]
  OBVIOUS
<1>4. /\ mid \in Seq(Frames(w)) /\ Len(mid) = t
      /\ mid[t] = f /\ \A i \in 1..t : i # t => mid[i] = fs[i]
  BY <1>1, <1>2, <1>3, ExceptSeq
<1>5. PICK new : new = Append(mid, g)
  OBVIOUS
<1>6. /\ new \in Seq(Frames(w)) /\ Len(new) = t + 1
      /\ \A i \in 1..t : new[i] = mid[i]
      /\ new[t + 1] = g
  BY <1>2, <1>4, <1>5, AppendProperties
<1>7. Pushed(fs, new, w)
  <2>1. \A i \in 1..t : new[i].slot = fs[i].slot
    BY <1>4, <1>6
  <2>2. ASSUME NEW i \in 1..t - 1 PROVE new[i].next = fs[i].next
    <3>1. i \in 1..t /\ i # t
      OBVIOUS
    <3> QED BY <3>1, <1>4, <1>6
  <2>3. new[t].next = fs[t].next + 1
    BY <1>1, <1>4, <1>6
  <2>4. new[t + 1].slot = w /\ new[t + 1].next = 1
    BY <1>6
  <2> QED BY <1>6, <2>1, <2>2, <2>3, <2>4 DEF Pushed
<1> QED BY <1>3, <1>5, <1>7

LEMMA EnterKeepsStack ==
  ASSUME NEW ns \in Seq(Node), NEW n \in Nat, n = Len(ns), NEW ch,
         Tree(ns, n, ch),
         NEW v \in 0..n, NEW fs, Stacked(ns, n, ch, fs, v),
         Len(fs) > 0, TopOf(fs).next <= Len(ch[TopOf(fs).slot]),
         NEW new, Pushed(fs, new, v + 1)
  PROVE  /\ Stacked(ns, n, ch, new, v + 1)
         /\ \A s \in 0..v : OnStack(new, s) <=> OnStack(fs, s)
         /\ OnStack(new, v + 1)
         /\ \A s \in 0..v : OnStack(fs, s) => U(ns, s, v + 1)
<1>1. /\ v < n
      /\ ch[TopOf(fs).slot][TopOf(fs).next] = v + 1
      /\ Parent(ns, TopOf(fs).slot, v + 1)
  BY NextIsPreorder
<1> DEFINE t == Len(fs)
           p == fs[t].slot
           w == v + 1
<1>2. fs \in Seq(Frames(v)) /\ t \in 1..Len(fs) /\ t \in Nat
  BY LenProperties DEF Stacked, Frames
<1>3. \A i \in 1..t : fs[i].slot \in 0..v /\ fs[i].next \in Nat \ {0}
  <2>1. \A i \in 1..t : fs[i] \in Frames(v)
    BY <1>2, ElementOfSeq
  <2> QED BY <2>1 DEF Frames
<1>4. v < n /\ ch[p][fs[t].next] = w /\ Parent(ns, p, w)
  BY <1>1 DEF TopOf
<1>5. U(ns, p, w) /\ p \in 0..v
  BY <1>2, <1>3, <1>4 DEF Parent
<1>6. \A i, j \in 1..t : i < j => fs[i].slot < fs[j].slot
  BY DEF Stacked
<1>7. \A i \in 1..t : \A j \in 1..Len(ch[fs[i].slot]) :
        ch[fs[i].slot][j] <= v <=> j < fs[i].next
  BY DEF Stacked
<1>8. new \in Seq(Frames(w)) /\ Len(new) = t + 1
  BY DEF Pushed
<1>9. /\ \A i \in 1..t : new[i].slot = fs[i].slot
      /\ \A i \in 1..t - 1 : new[i].next = fs[i].next
      /\ new[t].next = fs[t].next + 1
      /\ new[t + 1].slot = w /\ new[t + 1].next = 1
  BY DEF Pushed
<1>11. \A i \in 1..t : U(ns, fs[i].slot, w)
  <2> SUFFICES ASSUME NEW i \in 1..t PROVE U(ns, fs[i].slot, w)
    OBVIOUS
  <2>1. CASE i = t
    BY <2>1, <1>5
  <2>2. CASE i < t
    <3>1. fs[i].slot < p
      BY <2>2, <1>2, <1>6
    <3>2. fs[i].slot # v
      BY <3>1, <1>2, <1>3, <1>5
    <3>3. U(ns, fs[i].slot, v)
      BY <3>2, <1>2 DEF Stacked
    <3>4. fs[i].slot \in Nat /\ p \in Nat /\ p <= v
      BY <1>3, <1>5
    <3> QED BY <3>1, <3>3, <3>4, <1>4, <1>5, UnderNested
  <2> QED BY <2>1, <2>2, <1>2
<1>12. \A i, j \in 1..Len(new) : i < j => new[i].slot < new[j].slot
  <2> SUFFICES ASSUME NEW i \in 1..t+1, NEW j \in 1..t+1, i < j
               PROVE  new[i].slot < new[j].slot
    BY <1>8
  <2>1. i \in 1..t
    BY <1>2
  <2>2. new[i].slot = fs[i].slot
    BY <2>1, <1>9
  <2>3. CASE j = t + 1
    <3>1. new[j].slot = w /\ fs[i].slot \in 0..v
      BY <2>1, <2>3, <1>3, <1>9
    <3> QED BY <2>2, <3>1
  <2>4. CASE j \in 1..t
    <3>1. new[j].slot = fs[j].slot
      BY <2>4, <1>9
    <3> QED BY <2>1, <2>2, <2>4, <3>1, <1>6
  <2> QED BY <2>3, <2>4, <1>2
<1>13. \A i \in 1..Len(new) : new[i].slot = w \/ U(ns, new[i].slot, w)
  <2> SUFFICES ASSUME NEW i \in 1..Len(new)
               PROVE  new[i].slot = w \/ U(ns, new[i].slot, w)
    OBVIOUS
  <2>1. i \in 1..t \/ i = t + 1
    BY <1>2, <1>8
  <2>2. CASE i \in 1..t
    <3>1. new[i].slot = fs[i].slot
      BY <2>2, <1>9
    <3> QED BY <3>1, <2>2, <1>11
  <2>3. CASE i = t + 1
    BY <2>3, <1>9
  <2> QED BY <2>1, <2>2, <2>3
<1>14. \A i \in 1..Len(new) : \A j \in 1..Len(ch[new[i].slot]) :
         ch[new[i].slot][j] <= w <=> j < new[i].next
  <2> SUFFICES ASSUME NEW i \in 1..t+1, NEW j \in 1..Len(ch[new[i].slot])
               PROVE  ch[new[i].slot][j] <= w <=> j < new[i].next
    BY <1>8
  <2> DEFINE s == new[i].slot
  <2>1. s \in 0..n /\ s \in 0..w
    <3>1. CASE i = t + 1
      BY <3>1, <1>4, <1>9
    <3>2. CASE i \in 1..t
      BY <3>2, <1>3, <1>4, <1>9
    <3> QED BY <3>1, <3>2, <1>2
  <2>2. ch[s] \in Seq(1..n) /\ Len(ch[s]) \in Nat
    BY <2>1, LenProperties DEF Tree
  <2>3. Parent(ns, s, ch[s][j]) /\ ch[s][j] \in 1..n
    BY <2>1, <2>2, ElementOfSeq DEF Tree
  <2>4. CASE i = t + 1
    <3>1. w < ch[s][j]
      BY <2>3, <2>4, <1>9 DEF Parent, U
    <3> QED BY <3>1, <2>3, <2>4, <1>9
  <2>5. CASE i \in 1..t - 1
    <3>0. i \in 1..t /\ t \in 1..t /\ i < t
      BY <2>5, <1>2
    <3>1. s = fs[i].slot /\ s < p /\ new[i].next = fs[i].next
      BY <2>5, <3>0, <1>6, <1>9
    <3>2. ch[s][j] <= v <=> j < fs[i].next
      BY <3>0, <3>1, <1>7
    <3>3. ch[s][j] # w
      <4>1. ASSUME ch[s][j] = w PROVE FALSE
        <5>1. Parent(ns, s, w) /\ s \in Nat /\ p \in Nat /\ w \in Nat
          BY <4>1, <2>1, <2>3, <1>5
        <5>2. s = p
          BY <5>1, <1>4, ParentUnique
        <5> QED BY <5>1, <5>2, <3>1
      <4> QED BY <4>1
    <3>4. ch[s][j] <= w <=> ch[s][j] <= v
      BY <2>3, <3>3
    <3> QED BY <3>1, <3>2, <3>4
  <2>6. CASE i = t
    <3>1. s = p /\ new[i].next = fs[t].next + 1
      BY <2>6, <1>2, <1>9
    <3>2. ch[p][j] <= v <=> j < fs[t].next
      BY <3>1, <1>2, <1>7
    <3>3. fs[t].next \in 1..Len(ch[p])
      BY <3>1, <2>2, <1>2, <1>3 DEF TopOf
    <3>4. j > fs[t].next => ch[p][j] > w
      <4>1. \A k, l \in 1..Len(ch[p]) : k < l => ch[p][k] < ch[p][l]
        BY <3>1, <2>1 DEF Tree
      <4>2. j \in 1..Len(ch[p])
        BY <3>1
      <4> QED BY <4>1, <4>2, <3>3, <1>4
    <3>5. j = fs[t].next => ch[p][j] = w
      BY <1>4
    <3>6. ch[p][j] \in 1..n /\ j \in Nat /\ fs[t].next \in Nat
      BY <2>2, <2>3, <3>1, <3>3
    <3>7. ch[p][j] <= w <=> j < fs[t].next + 1
      <4>1. CASE j > fs[t].next
        BY <4>1, <3>4, <3>6
      <4>2. CASE j = fs[t].next
        BY <4>2, <3>5, <3>6
      <4>3. CASE j < fs[t].next
        BY <4>3, <3>2, <3>6
      <4> QED BY <4>1, <4>2, <4>3, <3>6
    <3> QED BY <3>1, <3>7
  <2>7. i = t + 1 \/ i = t \/ i \in 1..t - 1
    BY <1>2
  <2> QED BY <2>4, <2>5, <2>6, <2>7
<1>15. /\ \A s \in 0..v : OnStack(new, s) <=> OnStack(fs, s)
       /\ OnStack(new, w)
  <2>1. ASSUME NEW s \in 0..v PROVE OnStack(new, s) <=> OnStack(fs, s)
    <3>1. OnStack(fs, s) => OnStack(new, s)
      BY <1>2, <1>8, <1>9 DEF OnStack
    <3>2. ASSUME OnStack(new, s) PROVE OnStack(fs, s)
      <4>1. PICK i \in 1..t + 1 : new[i].slot = s
        BY <3>2, <1>8 DEF OnStack
      <4>2. i \in 1..t
        BY <4>1, <1>2, <1>9
      <4> QED BY <4>1, <4>2, <1>2, <1>9 DEF OnStack
    <3> QED BY <3>1, <3>2
  <2>2. OnStack(new, w)
    BY <1>2, <1>8, <1>9 DEF OnStack
  <2> QED BY <2>1, <2>2
<1>16. \A a \in 0..w : \A b \in w+1..n : U(ns, a, b) => OnStack(new, a)
  <2> SUFFICES ASSUME NEW a \in 0..w, NEW b \in w+1..n, U(ns, a, b)
               PROVE  OnStack(new, a)
    OBVIOUS
  <2>1. CASE a = w
    BY <2>1, <1>15
  <2>2. CASE a \in 0..v
    <3>1. b \in v+1..n
      BY <1>4
    <3>2. OnStack(fs, a)
      BY <2>2, <3>1 DEF Stacked
    <3> QED BY <2>2, <3>2, <1>15
  <2> QED BY <2>1, <2>2
<1>17. \A s \in 0..v : OnStack(fs, s) => U(ns, s, w)
  BY <1>2, <1>11 DEF OnStack
<1>18. Stacked(ns, n, ch, new, w)
  BY <1>8, <1>12, <1>13, <1>14, <1>16 DEF Stacked, Frames
<1> QED BY <1>15, <1>17, <1>18

LEMMA EnterKeepsNumbers ==
  ASSUME NEW ns, NEW n \in Nat, NEW v \in 0..n, v < n, NEW fs, NEW new,
         NEW pr, NEW po, NEW cn, Numbered(ns, n, fs, v, pr, po, cn),
         \A s \in 0..v : OnStack(new, s) <=> OnStack(fs, s),
         OnStack(new, v + 1),
         \A s \in 0..v : OnStack(fs, s) => U(ns, s, v + 1),
         \A a \in 0..v : \A b \in v+1..n : U(ns, a, b) => OnStack(fs, a),
         NEW pr2, pr2 = [pr EXCEPT ![v + 1] = cn]
  PROVE  Numbered(ns, n, new, v + 1, pr2, po, cn + 1)
<1> DEFINE w == v + 1
<1>1. /\ pr \in [0..n -> Nat] /\ po \in [0..n -> Nat] /\ cn \in Nat
      /\ w \in 0..n /\ w \in v+1..n
  BY DEF Numbered
<1>2. /\ pr2 \in [0..n -> Nat] /\ pr2[w] = cn
      /\ \A s \in 0..v : pr2[s] = pr[s]
  BY <1>1
<1>3. \A s \in 0..w : s = w \/ s \in 0..v
  OBVIOUS
<1>4. \A s \in 0..v : pr[s] < cn /\ pr[s] \in Nat /\ po[s] \in Nat
  BY <1>1 DEF Numbered
<1>5. \A s \in 0..w : pr2[s] < cn + 1
  BY <1>1, <1>2, <1>3, <1>4
<1>6. ASSUME NEW a \in 0..w, NEW b \in 0..w, a < b PROVE pr2[a] < pr2[b]
  <2>1. a \in 0..v
    BY <1>6
  <2>2. CASE b = w
    BY <2>1, <2>2, <1>2, <1>4
  <2>3. CASE b \in 0..v
    BY <2>1, <2>3, <1>2, <1>6 DEF Numbered
  <2> QED BY <2>2, <2>3, <1>3
<1>7. ASSUME NEW s \in 0..w, ~OnStack(new, s)
      PROVE  pr2[s] < po[s] /\ po[s] < cn + 1
  <2>1. s \in 0..v /\ ~OnStack(fs, s)
    BY <1>3, <1>7
  <2>2. pr[s] < po[s] /\ po[s] < cn
    BY <2>1 DEF Numbered
  <2> QED BY <2>1, <2>2, <1>1, <1>2, <1>4
<1>8. ASSUME NEW a \in 0..w, NEW b \in 0..w, U(ns, a, b), ~OnStack(new, a)
      PROVE  ~OnStack(new, b) /\ po[b] < po[a]
  <2>1. a \in 0..v /\ ~OnStack(fs, a)
    BY <1>3, <1>8
  <2>2. b \in 0..v
    BY <2>1, <1>1, <1>3, <1>8
  <2>3. ~OnStack(fs, b) /\ po[b] < po[a]
    BY <2>1, <2>2, <1>8 DEF Numbered
  <2> QED BY <2>2, <2>3
<1>9. ASSUME NEW a \in 0..w, NEW b \in 0..w, a < b, ~U(ns, a, b)
      PROVE  ~OnStack(new, a) /\ po[a] < pr2[b]
  <2>1. a \in 0..v
    BY <1>9
  <2>2. CASE b = w
    <3>1. ~OnStack(fs, a)
      BY <2>1, <2>2, <1>9
    <3>2. po[a] < cn
      BY <2>1, <3>1 DEF Numbered
    <3> QED BY <2>1, <2>2, <3>1, <3>2, <1>2
  <2>3. CASE b \in 0..v
    <3>1. ~OnStack(fs, a) /\ po[a] < pr[b]
      BY <2>1, <2>3, <1>9 DEF Numbered
    <3> QED BY <2>1, <2>3, <3>1, <1>2
  <2> QED BY <2>2, <2>3, <1>3
<1> HIDE DEF w
<1>10. cn + 1 \in Nat
  BY <1>1
<1>11. Numbered(ns, n, new, w, pr2, po, cn + 1)
  BY <1>1, <1>2, <1>5, <1>6, <1>7, <1>8, <1>9, <1>10 DEF Numbered
<1> QED BY <1>11 DEF w

(* The stack after Leave popped its top. *)
Popped(ns, n, ch, fs, new, v) ==
  /\ Stacked(ns, n, ch, new, v)
  /\ TopOf(fs).slot \in 0..v
  /\ OnStack(fs, TopOf(fs).slot)
  /\ \A s \in 0..v : OnStack(new, s) <=> OnStack(fs, s) /\ s # TopOf(fs).slot
  /\ \A s \in 0..v : OnStack(fs, s) => s <= TopOf(fs).slot

LEMMA LeaveKeepsStack ==
  ASSUME NEW ns, NEW n \in Nat, NEW ch, Tree(ns, n, ch),
         NEW v \in 0..n, NEW fs, Stacked(ns, n, ch, fs, v),
         Len(fs) > 0, TopOf(fs).next > Len(ch[TopOf(fs).slot])
  PROVE  Popped(ns, n, ch, fs, SubSeq(fs, 1, Len(fs) - 1), v)
<1> DEFINE t == Len(fs)
           p == TopOf(fs).slot
<1>0. PICK new : new = SubSeq(fs, 1, Len(fs) - 1)
  OBVIOUS
<1>1. fs \in Seq(Frames(v)) /\ t \in 1..Len(fs) /\ t \in Nat /\ t - 1 \in Nat
  BY LenProperties DEF Stacked, Frames
<1>2. \A i \in 1..t : fs[i] \in Frames(v)
  BY <1>1, ElementOfSeq
<1>3. \A i \in 1..t : fs[i].slot \in 0..v
  BY <1>2 DEF Frames
<1>4. p = fs[t].slot
  BY DEF TopOf
<1>5. /\ new \in Seq(Frames(v)) /\ Len(new) = t - 1
      /\ \A i \in 1..t - 1 : new[i] = fs[i]
  <2>1. \A i \in 1..t - 1 : fs[i] \in Frames(v)
    BY <1>2
  <2>2. PICK m \in Nat : m = t - 1
    BY <1>1
  <2>3. /\ SubSeq(fs, 1, m) \in Seq(Frames(v))
        /\ Len(SubSeq(fs, 1, m)) = IF 1 <= m THEN m - 1 + 1 ELSE 0
        /\ \A i \in 1..m - 1 + 1 : SubSeq(fs, 1, m)[i] = fs[1 + i - 1]
    BY <2>1, <2>2, SubSeqProperties
  <2>4. Len(SubSeq(fs, 1, m)) = m
    BY <2>3
  <2>5. \A i \in 1..m : SubSeq(fs, 1, m)[i] = fs[i]
    BY <2>3
  <2>6. new = SubSeq(fs, 1, m)
    BY <2>2, <1>0
  <2> QED BY <2>2, <2>3, <2>4, <2>5, <2>6
<1>6. \A i, j \in 1..t : i < j => fs[i].slot < fs[j].slot
  BY DEF Stacked
<1>7. p \in 0..v /\ OnStack(fs, p)
  BY <1>1, <1>3, <1>4 DEF OnStack
<1>8. ASSUME NEW s \in 0..v PROVE OnStack(fs, s) => s <= p
  BY <1>1, <1>3, <1>4, <1>6 DEF OnStack
<1>9. ASSUME NEW s \in 0..v PROVE OnStack(new, s) <=> OnStack(fs, s) /\ s # p
  <2>1. ASSUME OnStack(new, s) PROVE OnStack(fs, s) /\ s # p
    <3>1. PICK i \in 1..t - 1 : fs[i].slot = s
      BY <2>1, <1>5 DEF OnStack
    <3>2. i \in 1..t /\ i < t
      BY <1>1
    <3>3. fs[i].slot < fs[t].slot
      BY <3>2, <1>1, <1>6
    <3> QED BY <3>1, <3>2, <3>3, <1>1, <1>3, <1>4 DEF OnStack
  <2>2. ASSUME OnStack(fs, s), s # p PROVE OnStack(new, s)
    <3>1. PICK i \in 1..t : fs[i].slot = s
      BY <2>2 DEF OnStack
    <3>2. i \in 1..t - 1
      BY <2>2, <3>1, <1>1, <1>4
    <3> QED BY <3>1, <3>2, <1>5 DEF OnStack
  <2> QED BY <2>1, <2>2
<1>10. \A a \in 0..v : \A b \in v+1..n : U(ns, a, b) => OnStack(new, a)
  <2> SUFFICES ASSUME NEW a \in 0..v, NEW b \in v+1..n, U(ns, a, b)
               PROVE  OnStack(new, a)
    OBVIOUS
  <2>1. OnStack(fs, a)
    BY DEF Stacked
  <2>2. a # p
    BY LeftIsOver
  <2> QED BY <2>1, <2>2, <1>9
<1>11. /\ \A i, j \in 1..Len(new) : i < j => new[i].slot < new[j].slot
       /\ \A i \in 1..Len(new) : new[i].slot = v \/ U(ns, new[i].slot, v)
       /\ \A i \in 1..Len(new) : \A j \in 1..Len(ch[new[i].slot]) :
            ch[new[i].slot][j] <= v <=> j < new[i].next
  <2>1. \A i \in 1..Len(new) : i \in 1..t /\ new[i] = fs[i]
    BY <1>1, <1>5
  <2> QED BY <2>1, <1>6 DEF Stacked
<1>12. Stacked(ns, n, ch, new, v)
  BY <1>5, <1>10, <1>11 DEF Stacked, Frames
<1> QED BY <1>0, <1>7, <1>8, <1>9, <1>12 DEF Popped

LEMMA LeaveKeepsNumbers ==
  ASSUME NEW ns, NEW n \in Nat, NEW v \in 0..n, NEW fs, NEW new,
         NEW pr, NEW po, NEW cn, Numbered(ns, n, fs, v, pr, po, cn),
         NEW p \in 0..v, OnStack(fs, p),
         \A s \in 0..v : OnStack(new, s) <=> OnStack(fs, s) /\ s # p,
         \A s \in 0..v : OnStack(fs, s) => s <= p,
         NEW po2, po2 = [po EXCEPT ![p] = cn]
  PROVE  Numbered(ns, n, new, v, pr, po2, cn + 1)
<1>1. /\ pr \in [0..n -> Nat] /\ po \in [0..n -> Nat] /\ cn \in Nat
      /\ p \in 0..n
  BY DEF Numbered
<1>2. /\ po2 \in [0..n -> Nat] /\ po2[p] = cn /\ cn + 1 \in Nat
      /\ \A s \in 0..v : s # p => po2[s] = po[s]
  BY <1>1
<1>3. \A s \in 0..v : pr[s] < cn /\ pr[s] \in Nat /\ po[s] \in Nat
  BY <1>1 DEF Numbered
<1>4. \A s \in 0..v : pr[s] < cn + 1
  BY <1>1, <1>3
<1>5. ASSUME NEW s \in 0..v, ~OnStack(new, s)
      PROVE  pr[s] < po2[s] /\ po2[s] < cn + 1
  <2>1. CASE s = p
    BY <2>1, <1>1, <1>2, <1>3
  <2>2. CASE s # p
    <3>1. pr[s] < po[s] /\ po[s] < cn
      BY <2>2, <1>5 DEF Numbered
    <3> QED BY <2>2, <3>1, <1>1, <1>2, <1>3
  <2> QED BY <2>1, <2>2
<1>6. ASSUME NEW a \in 0..v, NEW b \in 0..v, U(ns, a, b), ~OnStack(new, a)
      PROVE  ~OnStack(new, b) /\ po2[b] < po2[a]
  <2>0. a < b
    BY <1>6 DEF U
  <2>1. CASE a = p
    <3>1. ~OnStack(fs, b) /\ b # p
      BY <2>0, <2>1
    <3>2. po[b] < cn
      BY <3>1 DEF Numbered
    <3> QED BY <2>1, <3>1, <3>2, <1>2
  <2>2. CASE a # p
    <3>1. ~OnStack(fs, b) /\ po[b] < po[a]
      BY <2>2, <1>6 DEF Numbered
    <3>2. b # p
      BY <3>1
    <3> QED BY <2>2, <3>1, <3>2, <1>2
  <2> QED BY <2>1, <2>2
<1>7. ASSUME NEW a \in 0..v, NEW b \in 0..v, a < b, ~U(ns, a, b)
      PROVE  ~OnStack(new, a) /\ po2[a] < pr[b]
  <2>1. ~OnStack(fs, a) /\ po[a] < pr[b]
    BY <1>7 DEF Numbered
  <2>2. a # p
    BY <2>1
  <2> QED BY <2>1, <2>2, <1>2
<1>8. \A a, b \in 0..v : a < b => pr[a] < pr[b]
  BY DEF Numbered
<1> QED BY <1>1, <1>2, <1>4, <1>5, <1>6, <1>7, <1>8 DEF Numbered
-----------------------------------------------------------------------------
(* The theorems *)

LEMMA InitEstablishes == Init => IInv
<1> SUFFICES ASSUME Init PROVE IInv
  OBVIOUS
<1>1. nodes \in Seq(Node)
  <2>1. PICK n \in 0..MaxNodes : nodes \in [1..n -> Node]
    BY DEF Init
  <2> QED BY <2>1, SizesAreNatural, IsASeq
<1>2. Len(nodes) \in Nat /\ 0 \in Slots
  BY <1>1, LenProperties DEF Slots
<1>3. Opened(nodes, 0, <<0>>)
  <2>1. <<0>> \in Seq(0..0) /\ Len(<<0>>) = 1 /\ <<0>>[1] = 0
    OBVIOUS
  <2>2. StillOpen(nodes, 0, 0)
    BY DEF StillOpen
  <2> QED BY <2>1, <2>2 DEF Opened, StillOpen
<1>4. Tree(nodes, 0, [s \in {0} |-> <<>>])
  <2> DEFINE ch == [s \in {0} |-> <<>>]
  <2>1. 0..0 = {0} /\ <<>> \in Seq(1..0) /\ Len(<<>>) = 0
    OBVIOUS
  <2>2. ch \in [0..0 -> Seq(1..0)] /\ ch[0] = <<>>
    BY <2>1
  <2>3. \A s \in 0..0 : 1..Len(ch[s]) = {}
    BY <2>1, <2>2
  <2>4. 1..0 = {}
    OBVIOUS
  <2> HIDE DEF ch
  <2> QED BY <2>2, <2>3, <2>4 DEF Tree, ch
<1>5. Built(nodes, Len(nodes), 0, pre, post, <<>>)
  BY DEF Built
<1>6. pre \in [Slots -> Nat] /\ post \in [Slots -> Nat]
  BY DEF Init
<1> QED BY <1>1, <1>2, <1>3, <1>4, <1>5, <1>6 DEF Init, IInv

LEMMA AddHeadingKeeps == IInv /\ AddHeading => IInv'
<1> SUFFICES ASSUME IInv, AddHeading PROVE IInv'
  OBVIOUS
<1>1. /\ nodes \in Seq(Node) /\ added \in Nat /\ added < Len(nodes)
      /\ Len(nodes) \in Nat /\ phase = "sections"
  BY LenProperties DEF IInv, AddHeading, Slots
<1>2. PICK k \in 1..Len(open) : /\ Leaves(k, Depth(added + 1))
                                /\ Adopt(open[k])
                                /\ open' = Append(SubSeq(open, 1, k), added + 1)
  BY DEF AddHeading
<1>3. H(nodes, added + 1)
  BY DEF AddHeading, IsHeading, H
<1>4. /\ D(nodes, open[k]) < D(nodes, added + 1)
      /\ \A i \in k+1..Len(open) : D(nodes, open[i]) >= D(nodes, added + 1)
  BY <1>2 DEF Leaves, Depth, D
<1>5. /\ Parent(nodes, open[k], added + 1)
      /\ Opened(nodes, added + 1, open')
  BY <1>1, <1>2, <1>3, <1>4, OpenedByHeading DEF IInv
<1>6. open[k] \in 0..added
  BY <1>2, ElementOfSeq DEF IInv, Opened
<1>7. Tree(nodes, added + 1, children')
  <2>1. children' = Grown(added, children, open[k])
    BY <1>2 DEF Adopt, Grown
  <2> QED BY <2>1, <1>1, <1>5, <1>6, TreeGrows DEF IInv
<1>8. added' = added + 1 /\ added' \in Slots
  BY <1>1, <1>2 DEF Adopt, Slots
<1>9. UNCHANGED <<nodes, phase, dfs, last, pre, post, counter, built, blocks>>
  BY DEF AddHeading
<1> QED BY <1>1, <1>5, <1>7, <1>8, <1>9 DEF IInv, Slots

LEMMA AddOtherKeeps == IInv /\ AddOther => IInv'
<1> SUFFICES ASSUME IInv, AddOther PROVE IInv'
  OBVIOUS
<1>1. /\ nodes \in Seq(Node) /\ added \in Nat /\ added < Len(nodes)
      /\ Len(nodes) \in Nat /\ phase = "sections"
  BY LenProperties DEF IInv, AddOther, Slots
<1>2. ~H(nodes, added + 1)
  BY DEF AddOther, IsHeading, H
<1>3. /\ Parent(nodes, open[Len(open)], added + 1)
      /\ Opened(nodes, added + 1, open)
  BY <1>1, <1>2, OpenedByOther DEF IInv
<1>4. open[Len(open)] \in 0..added
  <2>1. Len(open) \in 1..Len(open) /\ open \in Seq(0..added)
    BY LenProperties DEF IInv, Opened
  <2> QED BY <2>1, ElementOfSeq
<1>5. Tree(nodes, added + 1, children')
  <2>1. children' = Grown(added, children, open[Len(open)])
    BY DEF AddOther, Adopt, Grown
  <2> QED BY <2>1, <1>1, <1>3, <1>4, TreeGrows DEF IInv
<1>6. added' = added + 1 /\ added' \in Slots
  BY <1>1 DEF AddOther, Adopt, Slots
<1>7. UNCHANGED <<nodes, phase, open, dfs, last, pre, post, counter, built,
                  blocks>>
  BY DEF AddOther
<1> QED BY <1>1, <1>3, <1>5, <1>6, <1>7 DEF IInv, Slots

LEMMA StartNumbersKeeps == IInv /\ StartNumbers => IInv'
<1> SUFFICES ASSUME IInv, StartNumbers PROVE IInv'
  OBVIOUS
<1> DEFINE n == Len(nodes)
<1>1. /\ nodes \in Seq(Node) /\ n \in Nat /\ phase = "sections" /\ added = n
      /\ counter = 0 /\ last = 0 /\ blocks = <<>>
      /\ pre \in [0..n -> Nat] /\ post \in [0..n -> Nat]
  BY LenProperties DEF IInv, StartNumbers, Slots
<1>2. Tree(nodes, n, children) /\ children[0] \in Seq(1..n)
  <2>1. Tree(nodes, n, children) /\ 0 \in 0..n
    BY <1>1 DEF IInv
  <2>2. children \in [0..n -> Seq(1..n)]
    BY <2>1 DEF Tree
  <2> QED BY <2>1, <2>2
<1>3. pre' = [pre EXCEPT ![0] = 0] /\ counter' = 1
  BY <1>1 DEF StartNumbers
<1>4. dfs' = <<[slot |-> 0, next |-> 1]>>
  BY DEF StartNumbers
<1>5. /\ dfs' \in Seq([slot : 0..0, next : Nat \ {0}]) /\ Len(dfs') = 1
      /\ dfs'[1].slot = 0 /\ dfs'[1].next = 1
  BY <1>4
<1>6. OnStack(dfs', 0)
  BY <1>5 DEF OnStack
<1>7. Stacked(nodes, n, children, dfs', 0)
  <2>1. \A j \in 1..Len(children[0]) : children[0][j] <= 0 <=> j < 1
    <3> SUFFICES ASSUME NEW j \in 1..Len(children[0])
                 PROVE  ~(children[0][j] <= 0)
      <4>1. Len(children[0]) \in Nat
        BY <1>2, LenProperties
      <4> QED BY <4>1
    <3>1. children[0][j] \in 1..n
      BY <1>2, ElementOfSeq
    <3> QED BY <3>1
  <2>2. \A a \in 0..0 : OnStack(dfs', a)
    BY <1>6
  <2> QED BY <1>5, <2>1, <2>2 DEF Stacked
<1>8. Numbered(nodes, n, dfs', 0, pre', post, counter')
  <2>1. pre' \in [0..n -> Nat] /\ pre'[0] = 0
    BY <1>1, <1>3
  <2>2. \A s \in 0..0 : s = 0
    OBVIOUS
  <2>3. ~U(nodes, 0, 0)
    BY DEF U
  <2> QED BY <1>1, <1>3, <1>6, <2>1, <2>2, <2>3 DEF Numbered
<1>9. /\ phase' = "numbers" /\ pre' \in [0..n -> Nat]
      /\ UNCHANGED <<nodes, added, children, open, last, post, built, blocks>>
  BY <1>1, <1>3 DEF StartNumbers
<1>10. Built(nodes, n, built, pre', post, blocks)
  BY <1>1 DEF Built
<1> QED BY <1>1, <1>3, <1>7, <1>8, <1>9, <1>10 DEF IInv, Slots

LEMMA EnterKeeps == IInv /\ Enter => IInv'
<1> SUFFICES ASSUME IInv, Enter PROVE IInv'
  OBVIOUS
<1> DEFINE n == Len(nodes)
           t == Len(dfs)
           child == children[Top.slot][Top.next]
           f == Advanced
           g == [slot |-> child, next |-> 1]
<1>1. /\ nodes \in Seq(Node) /\ n \in Nat /\ phase = "numbers" /\ added = n
      /\ Tree(nodes, n, children)
      /\ Stacked(nodes, n, children, dfs, last)
      /\ Numbered(nodes, n, dfs, last, pre, post, counter)
      /\ last \in 0..n /\ blocks = <<>>
  BY LenProperties DEF IInv, Enter, Slots
<1>2. dfs \in Seq(Frames(last)) /\ t \in Nat /\ t > 0
  BY <1>1, EmptySeq, LenProperties DEF Stacked, Frames, Enter
<1>3. TopOf(dfs) = Top /\ Top.next <= Len(children[Top.slot])
  BY DEF TopOf, Top, Enter
<1>4. last < n /\ child = last + 1
  BY <1>1, <1>2, <1>3, NextIsPreorder
<1>5. Pushed(dfs, dfs', last + 1)
  <2>1. dfs \in Seq(Frames(last + 1))
    <3>1. Frames(last) \subseteq Frames(last + 1)
      BY <1>1 DEF Frames
    <3> QED BY <3>1, <1>2, SeqMonotonic
  <2>2. f = [slot |-> dfs[t].slot, next |-> dfs[t].next + 1]
        /\ g = [slot |-> last + 1, next |-> 1]
    BY <1>4 DEF Advanced, Top
  <2>3. dfs' = Append([dfs EXCEPT ![t] = f], g)
    BY DEF Enter
  <2> QED BY <2>1, <2>2, <2>3, <1>1, <1>2, EnterPushes
<1>6. /\ Stacked(nodes, n, children, dfs', last + 1)
      /\ \A s \in 0..last : OnStack(dfs', s) <=> OnStack(dfs, s)
      /\ OnStack(dfs', last + 1)
      /\ \A s \in 0..last : OnStack(dfs, s) => U(nodes, s, last + 1)
  BY <1>1, <1>2, <1>3, <1>5, EnterKeepsStack
<1>7. pre' = [pre EXCEPT ![last + 1] = counter] /\ counter' = counter + 1
      /\ last' = last + 1
  BY <1>4 DEF Enter
<1>8. Numbered(nodes, n, dfs', last + 1, pre', post, counter')
  <2>1. \A a \in 0..last : \A b \in last+1..n :
          U(nodes, a, b) => OnStack(dfs, a)
    BY <1>1 DEF Stacked
  <2> QED BY <2>1, <1>1, <1>4, <1>6, <1>7, EnterKeepsNumbers
<1>9. UNCHANGED <<nodes, phase, added, children, open, post, built, blocks>>
  BY DEF Enter
<1>10. Built(nodes, n, built, pre', post, blocks)
  BY <1>1 DEF Built
<1>11. pre' \in [0..n -> Nat] /\ counter' \in Nat /\ last + 1 \in 0..n
  BY <1>1, <1>4, <1>8 DEF Numbered
<1> QED BY <1>1, <1>6, <1>7, <1>8, <1>9, <1>10, <1>11 DEF IInv, Slots

LEMMA LeaveKeeps == IInv /\ Leave => IInv'
<1> SUFFICES ASSUME IInv, Leave PROVE IInv'
  OBVIOUS
<1> DEFINE n == Len(nodes)
<1>1. /\ nodes \in Seq(Node) /\ n \in Nat /\ phase = "numbers" /\ added = n
      /\ Tree(nodes, n, children)
      /\ Stacked(nodes, n, children, dfs, last)
      /\ Numbered(nodes, n, dfs, last, pre, post, counter)
      /\ last \in 0..n /\ blocks = <<>>
  BY LenProperties DEF IInv, Leave, Slots
<1>2. Len(dfs) \in Nat /\ Len(dfs) > 0
  BY <1>1, EmptySeq, LenProperties DEF Stacked, Leave
<1>3. /\ TopOf(dfs) = Top /\ Top.next > Len(children[Top.slot])
      /\ dfs' = SubSeq(dfs, 1, Len(dfs) - 1)
      /\ post' = [post EXCEPT ![Top.slot] = counter]
      /\ counter' = counter + 1
  BY DEF TopOf, Top, Leave
<1>4. /\ Stacked(nodes, n, children, dfs', last)
      /\ Top.slot \in 0..last /\ OnStack(dfs, Top.slot)
      /\ \A s \in 0..last : OnStack(dfs', s) <=> OnStack(dfs, s) /\ s # Top.slot
      /\ \A s \in 0..last : OnStack(dfs, s) => s <= Top.slot
  <2>1. TopOf(dfs).next > Len(children[TopOf(dfs).slot])
    BY <1>3
  <2>2. Popped(nodes, n, children, dfs, SubSeq(dfs, 1, Len(dfs) - 1), last)
    BY <1>1, <1>2, <2>1, LeaveKeepsStack
  <2>3. Popped(nodes, n, children, dfs, dfs', last)
    BY <1>3, <2>2
  <2> QED BY <2>3, <1>3 DEF Popped
<1>5. Numbered(nodes, n, dfs', last, pre, post', counter')
  BY <1>1, <1>3, <1>4, LeaveKeepsNumbers
<1>6. UNCHANGED <<nodes, phase, added, children, open, last, pre, built, blocks>>
  BY DEF Leave
<1>7. Built(nodes, n, built, pre, post', blocks)
  BY <1>1 DEF Built
<1>8. post' \in [0..n -> Nat] /\ counter' \in Nat
  BY <1>5 DEF Numbered
<1> QED BY <1>1, <1>4, <1>5, <1>6, <1>7, <1>8 DEF IInv, Slots

LEMMA BuildBlockKeeps == IInv /\ BuildBlock => IInv'
<1> SUFFICES ASSUME IInv, BuildBlock PROVE IInv'
  OBVIOUS
<1> DEFINE n == Len(nodes)
           m == built + 1
<1>1. /\ nodes \in Seq(Node) /\ n \in Nat /\ built \in 0..n /\ built < n
      /\ pre \in [0..n -> Nat] /\ post \in [0..n -> Nat]
      /\ Built(nodes, n, built, pre, post, blocks)
  BY LenProperties DEF IInv, BuildBlock, Slots
<1>2. PICK b : b = BlockOf(m)
  OBVIOUS
<1>3. /\ b \in [node : 1..n, pre : Nat, post : Nat]
      /\ b.pre = pre[b.node] /\ b.post = post[b.node]
  BY <1>1, <1>2 DEF BlockOf
<1>4. blocks' = Append(blocks, b) /\ built' = m /\ m \in Slots
  BY <1>1, <1>2 DEF BuildBlock, Slots
<1>5. Built(nodes, n, m, pre, post, blocks')
  <2>1. /\ blocks' \in Seq([node : 1..n, pre : Nat, post : Nat])
        /\ Len(blocks') = Len(blocks) + 1
        /\ \A i \in 1..Len(blocks) : blocks'[i] = blocks[i]
        /\ blocks'[Len(blocks) + 1] = b
    BY <1>1, <1>3, <1>4, AppendProperties DEF Built
  <2>2. Len(blocks) \in Nat
    BY <1>1, LenProperties DEF Built
  <2>3. ASSUME NEW i \in 1..Len(blocks')
        PROVE  /\ blocks'[i].pre = pre[blocks'[i].node]
               /\ blocks'[i].post = post[blocks'[i].node]
    <3>1. i \in 1..Len(blocks) \/ i = Len(blocks) + 1
      BY <2>1, <2>2
    <3> QED BY <3>1, <2>1, <1>1, <1>3 DEF Built
  <2> QED BY <2>1, <2>3 DEF Built
<1>6. UNCHANGED <<nodes, phase, added, children, open, dfs, last, pre, post,
                  counter>> /\ phase = "blocks"
  BY DEF BuildBlock
<1> QED BY <1>4, <1>5, <1>6 DEF IInv, Slots

LEMMA RestKeeps ==
  IInv /\ (SkipNode \/ StartBlocks \/ Finish \/ UNCHANGED vars) => IInv'
<1>1. ASSUME IInv, SkipNode PROVE IInv'
  <2>1. built + 1 \in Slots
    BY <1>1, LenProperties DEF IInv, SkipNode, Slots
  <2>2. Built(nodes, Len(nodes), built + 1, pre, post, blocks)
    BY <1>1 DEF IInv, Built
  <2> QED BY <1>1, <2>1, <2>2 DEF IInv, SkipNode, Slots
<1>2. ASSUME IInv, StartBlocks PROVE IInv'
  BY <1>2 DEF IInv, StartBlocks, Slots
<1>3. ASSUME IInv, Finish PROVE IInv'
  BY <1>3 DEF IInv, Finish, Slots
<1>4. ASSUME IInv, UNCHANGED vars PROVE IInv'
  BY <1>4 DEF IInv, vars, Slots
<1> QED BY <1>1, <1>2, <1>3, <1>4

(* The inductive invariant behind the theorem below: what the stack, the
   tree and the numbers of build_blocks are at each step. *)
THEOREM SectionInvariance == Spec => []IInv
<1>1. IInv /\ [Next]_vars => IInv'
  BY AddHeadingKeeps, AddOtherKeeps, StartNumbersKeeps, EnterKeeps, LeaveKeeps,
     BuildBlockKeeps, RestKeeps DEF Next
<1> QED BY <1>1, InitEstablishes, PTL DEF Spec

(* When the search is over, all nodes are numbered. *)
LEMMA AllEntered ==
  ASSUME NEW ns, NEW n \in Nat, NEW ch, Tree(ns, n, ch),
         NEW v \in 0..n, NEW fs, Stacked(ns, n, ch, fs, v), fs = <<>>
  PROVE  v = n /\ \A s : ~OnStack(fs, s)
<1>1. \A s : ~OnStack(fs, s)
  BY DEF OnStack
<1>2. SUFFICES ASSUME v # n PROVE FALSE
  BY <1>1
<1>3. PICK w \in 1..n : w = v + 1
  BY <1>2
<1>4. HasParent(ns, ch, w)
  BY ParentExists
<1>5. PICK p \in Nat : p < w /\ Parent(ns, p, w)
  BY <1>4 DEF HasParent
<1>6. p \in 0..v /\ w \in v+1..n /\ U(ns, p, w)
  BY <1>3, <1>5 DEF Parent
<1>7. OnStack(fs, p)
  BY <1>6 DEF Stacked
<1> QED BY <1>1, <1>7

LEMMA InvContains == IInv => ContainsIsUnder
<1> SUFFICES ASSUME IInv, phase = "done",
                    NEW i \in DOMAIN blocks, NEW j \in DOMAIN blocks
             PROVE  Contains(blocks[i], blocks[j])
                      <=> Under(blocks[i].node, blocks[j].node)
  BY DEF ContainsIsUnder
<1> DEFINE n == Len(nodes)
<1>1. /\ nodes \in Seq(Node) /\ n \in Nat /\ added = n /\ last \in 0..n
      /\ Tree(nodes, n, children)
      /\ Stacked(nodes, n, children, dfs, last)
      /\ Numbered(nodes, n, dfs, last, pre, post, counter)
      /\ dfs = <<>>
      /\ Built(nodes, n, built, pre, post, blocks)
  BY LenProperties DEF IInv, Slots
<1>2. last = n /\ \A s : ~OnStack(dfs, s)
  BY <1>1, AllEntered
<1>3. blocks[i] \in [node : 1..n, pre : Nat, post : Nat]
      /\ blocks[j] \in [node : 1..n, pre : Nat, post : Nat]
      /\ i \in 1..Len(blocks) /\ j \in 1..Len(blocks)
  BY <1>1, LenProperties, ElementOfSeq DEF Built
<1>4. PICK a \in 0..n : a = blocks[i].node
  BY <1>3
<1>5. PICK b \in 0..n : b = blocks[j].node
  BY <1>3
<1>6. /\ blocks[i].pre = pre[a] /\ blocks[i].post = post[a]
      /\ blocks[j].pre = pre[b] /\ blocks[j].post = post[b]
  BY <1>1, <1>3, <1>4, <1>5 DEF Built
<1>7. /\ pre[a] \in Nat /\ post[a] \in Nat /\ pre[b] \in Nat /\ post[b] \in Nat
      /\ pre[a] < post[a] /\ pre[b] < post[b]
  BY <1>1, <1>2 DEF Numbered
<1>8. Under(a, b) <=> U(nodes, a, b)
  BY DEF Under, U, IsHeading, Depth, H, D
<1>9. pre[a] < pre[b] /\ post[b] < post[a] <=> U(nodes, a, b)
  <2>1. CASE a < b
    <3>1. pre[a] < pre[b]
      BY <2>1, <1>1, <1>2 DEF Numbered
    <3>2. U(nodes, a, b) => post[b] < post[a]
      BY <1>1, <1>2 DEF Numbered
    <3>3. ~U(nodes, a, b) => post[a] < pre[b]
      BY <2>1, <1>1, <1>2 DEF Numbered
    <3> QED BY <3>1, <3>2, <3>3, <1>7
  <2>2. CASE b < a
    <3>1. pre[b] < pre[a]
      BY <2>2, <1>1, <1>2 DEF Numbered
    <3>2. ~U(nodes, a, b)
      BY <2>2 DEF U
    <3> QED BY <3>1, <3>2, <1>7
  <2>3. CASE a = b
    <3>1. ~U(nodes, a, b)
      BY <2>3 DEF U
    <3> QED BY <3>1, <2>3, <1>7
  <2> QED BY <2>1, <2>2, <2>3
<1> QED BY <1>4, <1>5, <1>6, <1>8, <1>9 DEF Contains

(* For every document, the block a contains the block b, by their numbers,
   exactly when b comes after a and before the next heading that is not
   deeper than a: what is_under, descendants_of and the SQL conditions on
   pre and post take for granted. *)
THEOREM IntervalsAreSections == Spec => []ContainsIsUnder
BY SectionInvariance, InvContains, PTL

-----------------------------------------------------------------------------
(* What next_sibling and first_child take for granted: no number is left   *)
(* out, and every node that is not skipped has a block, in the order of    *)
(* the document.                                                           *)

Covered(fs, v, pr, po, cn) ==
  \A m \in 0..cn-1 : \E s \in 0..v :
    pr[s] = m \/ (~OnStack(fs, s) /\ po[s] = m)

Shown(ns, m, bs) ==
  /\ \A i \in 1..Len(bs) : bs[i].node \in 1..m /\ ns[bs[i].node].kind # "skipped"
  /\ \A i, j \in 1..Len(bs) : i < j => bs[i].node < bs[j].node
  /\ \A b \in 1..m : ns[b].kind # "skipped" => \E i \in 1..Len(bs) : bs[i].node = b

NInv ==
  /\ IInv
  /\ phase # "sections" => Covered(dfs, last, pre, post, counter)
  /\ Shown(nodes, built, blocks)
  /\ phase \in {"sections", "numbers"} => built = 0
  /\ phase = "done" => built = Len(nodes)

LEMMA InitNumbers == Init => NInv
BY InitEstablishes DEF Init, NInv, Shown

LEMMA StartNumbersCovers ==
  ASSUME NInv, StartNumbers
  PROVE  NInv'
<1>1. IInv'
  BY StartNumbersKeeps DEF NInv
<1>2. /\ counter = 0 /\ last = 0 /\ 0 \in Slots /\ pre \in [Slots -> Nat]
  BY LenProperties DEF NInv, IInv, StartNumbers, Slots
<1>3. pre'[0] = 0 /\ counter' = 1 /\ last' = 0 /\ phase' = "numbers"
      /\ UNCHANGED <<nodes, built, blocks>>
  BY <1>2 DEF StartNumbers
<1>4. Covered(dfs', last', pre', post', counter')
  <2>1. \A m \in 0..counter'-1 : m = 0
    BY <1>3
  <2>2. 0 \in 0..last'
    BY <1>3
  <2> QED BY <2>1, <2>2, <1>3 DEF Covered
<1>5. built' = 0
  BY <1>3 DEF NInv, StartNumbers
<1> QED BY <1>1, <1>3, <1>4, <1>5 DEF NInv

LEMMA EnterCovers ==
  ASSUME NEW n \in Nat, NEW v \in 0..n, v < n, NEW fs, NEW new,
         NEW pr \in [0..n -> Nat], NEW po, NEW cn \in Nat,
         Covered(fs, v, pr, po, cn),
         \A s \in 0..v : OnStack(new, s) <=> OnStack(fs, s),
         NEW pr2, pr2 = [pr EXCEPT ![v + 1] = cn]
  PROVE  Covered(new, v + 1, pr2, po, cn + 1)
<1>1. pr2[v + 1] = cn /\ \A s \in 0..v : pr2[s] = pr[s]
  OBVIOUS
<1>2. ASSUME NEW m \in 0..(cn + 1)-1
      PROVE  \E s \in 0..v + 1 :
               pr2[s] = m \/ (~OnStack(new, s) /\ po[s] = m)
  <2>1. CASE m = cn
    BY <2>1, <1>1
  <2>2. CASE m \in 0..cn-1
    <3>1. PICK s \in 0..v : pr[s] = m \/ (~OnStack(fs, s) /\ po[s] = m)
      BY <2>2 DEF Covered
    <3>2. s \in 0..v + 1
      OBVIOUS
    <3> QED BY <3>1, <3>2, <1>1
  <2> QED BY <2>1, <2>2
<1> QED BY <1>2 DEF Covered

LEMMA LeaveCovers ==
  ASSUME NEW n \in Nat, NEW v \in 0..n, NEW fs, NEW new,
         NEW pr, NEW po \in [0..n -> Nat], NEW cn \in Nat,
         Covered(fs, v, pr, po, cn), NEW p \in 0..v, OnStack(fs, p),
         \A s \in 0..v : OnStack(new, s) <=> OnStack(fs, s) /\ s # p,
         NEW po2, po2 = [po EXCEPT ![p] = cn]
  PROVE  Covered(new, v, pr, po2, cn + 1)
<1>1. po2[p] = cn /\ \A s \in 0..v : s # p => po2[s] = po[s]
  OBVIOUS
<1>2. ASSUME NEW m \in 0..(cn + 1)-1
      PROVE  \E s \in 0..v : pr[s] = m \/ (~OnStack(new, s) /\ po2[s] = m)
  <2>1. CASE m = cn
    BY <2>1, <1>1
  <2>2. CASE m \in 0..cn-1
    <3>1. PICK s \in 0..v : pr[s] = m \/ (~OnStack(fs, s) /\ po[s] = m)
      BY <2>2 DEF Covered
    <3> QED BY <3>1, <1>1
  <2> QED BY <2>1, <2>2
<1> QED BY <1>2 DEF Covered

(* Enter gives the next number to the slot after the last one, Leave to    *)
(* the one on top: the facts EnterKeeps and LeaveKeeps are made of.        *)
LEMMA EnterFacts ==
  ASSUME IInv, Enter
  PROVE  /\ last < Len(nodes) /\ last' = last + 1
         /\ pre' = [pre EXCEPT ![last + 1] = counter] /\ counter' = counter + 1
         /\ \A s \in 0..last : OnStack(dfs', s) <=> OnStack(dfs, s)
<1> DEFINE n == Len(nodes)
           t == Len(dfs)
           child == children[Top.slot][Top.next]
           f == Advanced
           g == [slot |-> child, next |-> 1]
<1>1. /\ nodes \in Seq(Node) /\ n \in Nat /\ phase = "numbers"
      /\ Tree(nodes, n, children)
      /\ Stacked(nodes, n, children, dfs, last)
      /\ last \in 0..n
  BY LenProperties DEF IInv, Enter, Slots
<1>2. dfs \in Seq(Frames(last)) /\ t \in Nat /\ t > 0
  BY <1>1, EmptySeq, LenProperties DEF Stacked, Frames, Enter
<1>3. TopOf(dfs) = Top /\ Top.next <= Len(children[Top.slot])
  BY DEF TopOf, Top, Enter
<1>4. last < n /\ child = last + 1
  BY <1>1, <1>2, <1>3, NextIsPreorder
<1>5. Pushed(dfs, dfs', last + 1)
  <2>1. dfs \in Seq(Frames(last + 1))
    <3>1. Frames(last) \subseteq Frames(last + 1)
      BY <1>1 DEF Frames
    <3> QED BY <3>1, <1>2, SeqMonotonic
  <2>2. f = [slot |-> dfs[t].slot, next |-> dfs[t].next + 1]
        /\ g = [slot |-> last + 1, next |-> 1]
    BY <1>4 DEF Advanced, Top
  <2>3. dfs' = Append([dfs EXCEPT ![t] = f], g)
    BY DEF Enter
  <2> QED BY <2>1, <2>2, <2>3, <1>1, <1>2, EnterPushes
<1>6. \A s \in 0..last : OnStack(dfs', s) <=> OnStack(dfs, s)
  BY <1>1, <1>2, <1>3, <1>5, EnterKeepsStack
<1> QED BY <1>4, <1>6 DEF Enter

LEMMA LeaveFacts ==
  ASSUME IInv, Leave
  PROVE  /\ Top.slot \in 0..last /\ OnStack(dfs, Top.slot)
         /\ post' = [post EXCEPT ![Top.slot] = counter] /\ counter' = counter + 1
         /\ \A s \in 0..last : OnStack(dfs', s) <=> OnStack(dfs, s) /\ s # Top.slot
<1> DEFINE n == Len(nodes)
<1>1. /\ n \in Nat /\ Tree(nodes, n, children) /\ last \in 0..n
      /\ Stacked(nodes, n, children, dfs, last)
  BY LenProperties DEF IInv, Leave, Slots
<1>2. Len(dfs) \in Nat /\ Len(dfs) > 0
  BY <1>1, EmptySeq, LenProperties DEF Stacked, Leave
<1>3. TopOf(dfs) = Top /\ dfs' = SubSeq(dfs, 1, Len(dfs) - 1)
      /\ TopOf(dfs).next > Len(children[TopOf(dfs).slot])
  BY DEF TopOf, Top, Leave
<1>4. Popped(nodes, n, children, dfs, dfs', last)
  BY <1>1, <1>2, <1>3, LeaveKeepsStack
<1> QED BY <1>3, <1>4 DEF Popped, Leave

LEMMA EnterNumbers ==
  ASSUME NInv, Enter
  PROVE  NInv'
<1>1. IInv'
  BY EnterKeeps DEF NInv
<1>2. /\ Len(nodes) \in Nat /\ last \in 0..Len(nodes) /\ counter \in Nat
      /\ pre \in [0..Len(nodes) -> Nat] /\ phase = "numbers"
      /\ Covered(dfs, last, pre, post, counter)
  BY LenProperties DEF NInv, IInv, Enter, Slots
<1>3. Covered(dfs', last + 1, pre', post, counter + 1)
  BY <1>2, EnterFacts, EnterCovers DEF NInv
<1>4. Covered(dfs', last', pre', post', counter')
  BY <1>3, EnterFacts DEF NInv, Enter
<1> QED BY <1>1, <1>4 DEF NInv, Enter

LEMMA LeaveNumbers ==
  ASSUME NInv, Leave
  PROVE  NInv'
<1>1. IInv'
  BY LeaveKeeps DEF NInv
<1>2. /\ Len(nodes) \in Nat /\ last \in 0..Len(nodes) /\ counter \in Nat
      /\ post \in [0..Len(nodes) -> Nat] /\ phase = "numbers"
      /\ Covered(dfs, last, pre, post, counter)
  BY LenProperties DEF NInv, IInv, Leave, Slots
<1>3. Covered(dfs', last, pre, post', counter + 1)
  BY <1>2, LeaveFacts, LeaveCovers DEF NInv
<1>4. Covered(dfs', last', pre', post', counter')
  BY <1>3, LeaveFacts DEF NInv, Leave
<1> QED BY <1>1, <1>4 DEF NInv, Leave

(* Phase 3: a node is done with. *)
LEMMA ShownSkipped ==
  ASSUME NEW ns, NEW m \in Nat, NEW bs, Shown(ns, m, bs),
         ns[m + 1].kind = "skipped"
  PROVE  Shown(ns, m + 1, bs)
<1>1. \A b \in 1..m + 1 : b \in 1..m \/ b = m + 1
  OBVIOUS
<1>2. \A b \in 1..m : b \in 1..m + 1
  OBVIOUS
<1> QED BY <1>1, <1>2 DEF Shown

LEMMA ShownBuilt ==
  ASSUME NEW ns, NEW m \in Nat, NEW S, NEW bs \in Seq(S), Shown(ns, m, bs),
         ns[m + 1].kind # "skipped", NEW b \in S, b.node = m + 1
  PROVE  Shown(ns, m + 1, Append(bs, b))
<1> DEFINE new == Append(bs, b)
           k == Len(bs)
<1>1. /\ Len(new) = k + 1 /\ k \in Nat
      /\ \A i \in 1..k : new[i] = bs[i]
      /\ new[k + 1] = b
  BY AppendProperties, LenProperties
<1>2. \A i \in 1..k + 1 : i \in 1..k \/ i = k + 1
  BY <1>1
<1>3. \A i \in 1..k : i \in 1..k + 1 /\ bs[i].node \in 1..m /\ bs[i].node < m + 1
  BY <1>1 DEF Shown
<1> HIDE DEF new, k
<1>4. \A i \in 1..k + 1 : new[i].node \in 1..m + 1 /\ ns[new[i].node].kind # "skipped"
  <2> SUFFICES ASSUME NEW i \in 1..k + 1
               PROVE  new[i].node \in 1..m + 1 /\ ns[new[i].node].kind # "skipped"
    OBVIOUS
  <2>1. CASE i = k + 1
    BY <2>1, <1>1
  <2>2. CASE i \in 1..k
    BY <2>2, <1>1, <1>3 DEF Shown, k
  <2> QED BY <2>1, <2>2, <1>2
<1>5. \A i, j \in 1..k + 1 : i < j => new[i].node < new[j].node
  <2> SUFFICES ASSUME NEW i \in 1..k + 1, NEW j \in 1..k + 1, i < j
               PROVE  new[i].node < new[j].node
    OBVIOUS
  <2>1. i \in 1..k
    BY <1>1
  <2>2. CASE j = k + 1
    BY <2>1, <2>2, <1>1, <1>3
  <2>3. CASE j \in 1..k
    BY <2>1, <2>3, <1>1 DEF Shown, k
  <2> QED BY <2>2, <2>3, <1>2
<1>6. ASSUME NEW a \in 1..m + 1, ns[a].kind # "skipped"
      PROVE  \E i \in 1..k + 1 : new[i].node = a
  <2>1. CASE a = m + 1
    <3>1. k + 1 \in 1..k + 1
      BY <1>1
    <3> QED BY <2>1, <3>1, <1>1
  <2>2. CASE a \in 1..m
    <3>1. PICK i \in 1..k : bs[i].node = a
      BY <1>6, <2>2 DEF Shown, k
    <3> QED BY <3>1, <1>1, <1>3
  <2>3. a \in 1..m \/ a = m + 1
    OBVIOUS
  <2> QED BY <2>1, <2>2, <2>3
<1>7. Shown(ns, m + 1, new)
  BY <1>1, <1>4, <1>5, <1>6 DEF Shown
<1> QED BY <1>7 DEF new

LEMMA BlockNumbers ==
  ASSUME NInv, BuildBlock \/ SkipNode
  PROVE  NInv'
<1>1. IInv'
  BY BuildBlockKeeps, RestKeeps DEF NInv
<1>2. /\ UNCHANGED <<nodes, phase, dfs, last, pre, post, counter>>
      /\ phase = "blocks" /\ built' = built + 1 /\ built < Len(nodes)
      /\ built \in Nat /\ Len(nodes) \in Nat
  BY LenProperties DEF NInv, IInv, BuildBlock, SkipNode, Slots
<1>3. Shown(nodes, built + 1, blocks')
  <2>1. CASE SkipNode
    <3>1. blocks' = blocks /\ nodes[built + 1].kind = "skipped"
      BY <2>1 DEF SkipNode
    <3> QED BY <3>1, <1>2, ShownSkipped DEF NInv
  <2>2. CASE BuildBlock
    <3> DEFINE S == [node : 1..Len(nodes), pre : Nat, post : Nat]
    <3>1. PICK b : b = BlockOf(built + 1)
      OBVIOUS
    <3>2. blocks' = Append(blocks, b) /\ nodes[built + 1].kind # "skipped"
      BY <2>2, <3>1 DEF BuildBlock
    <3>3. b \in S /\ b.node = built + 1
      <4>1. /\ built + 1 \in 1..Len(nodes)
            /\ pre[built + 1] \in Nat /\ post[built + 1] \in Nat
        <5>1. pre \in [Slots -> Nat] /\ post \in [Slots -> Nat]
          BY DEF NInv, IInv
        <5>2. built + 1 \in 1..Len(nodes) /\ built + 1 \in Slots
          BY <1>2 DEF Slots
        <5> QED BY <5>1, <5>2
      <4> QED BY <4>1, <3>1 DEF BlockOf
    <3>4. blocks \in Seq(S)
      BY DEF NInv, IInv, Built
    <3> HIDE DEF S
    <3> QED BY <1>2, <3>2, <3>3, <3>4, ShownBuilt DEF NInv
  <2> QED BY <2>1, <2>2
<1> QED BY <1>1, <1>2, <1>3 DEF NInv

LEMMA RestNumbers ==
  ASSUME NInv, \/ AddHeading \/ AddOther \/ StartBlocks \/ Finish \/ UNCHANGED vars
  PROVE  NInv'
<1>1. IInv'
  BY AddHeadingKeeps, AddOtherKeeps, RestKeeps DEF NInv
<1>2. UNCHANGED <<nodes, dfs, last, pre, post, counter, built, blocks>>
  BY DEF AddHeading, AddOther, StartBlocks, Finish, vars
<1>3. /\ phase' # "sections" => phase # "sections"
      /\ phase' \in {"sections", "numbers"} => phase \in {"sections", "numbers"}
      /\ phase' = "done" => phase = "done" \/ built = Len(nodes)
  BY DEF AddHeading, AddOther, StartBlocks, Finish, vars
<1> QED BY <1>1, <1>2, <1>3 DEF NInv

(* The second invariant of build_blocks: the numbers have no gaps, and the *)
(* blocks are all the nodes that are not skipped, in order.                *)
THEOREM NumbersInvariance == Spec => []NInv
<1>1. NInv /\ [Next]_vars => NInv'
  BY StartNumbersCovers, EnterNumbers, LeaveNumbers, BlockNumbers, RestNumbers
     DEF Next
<1> QED BY <1>1, InitNumbers, PTL DEF Spec

-----------------------------------------------------------------------------
(* Navigation                                                              *)

(* The numbers of build_blocks, when it is done. *)
Final(ns, n, pr, po) ==
  /\ \A s \in 0..n : pr[s] \in Nat /\ po[s] \in Nat /\ pr[s] < po[s]
  /\ \A a, b \in 0..n : a < b => pr[a] < pr[b]
  /\ \A a, b \in 0..n : U(ns, a, b) => po[b] < po[a]
  /\ \A a, b \in 0..n : a < b /\ ~U(ns, a, b) => po[a] < pr[b]
  /\ \A b \in 0..n : \A m \in 0..pr[b] : \E s \in 0..n : pr[s] = m \/ po[s] = m

LEMMA DoneIsFinal ==
  ASSUME NInv, phase = "done"
  PROVE  Len(nodes) \in Nat /\ Final(nodes, Len(nodes), pre, post)
<1> DEFINE n == Len(nodes)
<1>1. /\ n \in Nat /\ last \in 0..n /\ dfs = <<>>
      /\ Tree(nodes, n, children)
      /\ Stacked(nodes, n, children, dfs, last)
      /\ Numbered(nodes, n, dfs, last, pre, post, counter)
      /\ Covered(dfs, last, pre, post, counter)
  BY LenProperties DEF NInv, IInv, Slots
<1>2. last = n /\ \A s : ~OnStack(dfs, s)
  BY <1>1, AllEntered
<1>3. pre \in [0..n -> Nat] /\ post \in [0..n -> Nat] /\ counter \in Nat
  BY <1>1 DEF Numbered
<1>4. \A b \in 0..n : pre[b] < counter
  BY <1>1, <1>2 DEF Numbered
<1>5. ASSUME NEW b \in 0..n, NEW m \in 0..pre[b]
      PROVE  \E s \in 0..n : pre[s] = m \/ post[s] = m
  <2>1. pre[b] \in Nat /\ m \in 0..counter-1
    BY <1>3, <1>4
  <2> QED BY <2>1, <1>1, <1>2 DEF Covered
<1>6. \A s \in 0..n : pre[s] \in Nat /\ post[s] \in Nat /\ pre[s] < post[s]
  BY <1>1, <1>2, <1>3 DEF Numbered
<1>7. /\ \A a, b \in 0..n : a < b => pre[a] < pre[b]
      /\ \A a, b \in 0..n : U(nodes, a, b) => post[b] < post[a]
      /\ \A a, b \in 0..n : a < b /\ ~U(nodes, a, b) => post[a] < pre[b]
  BY <1>1, <1>2 DEF Numbered
<1> QED BY <1>1, <1>5, <1>6, <1>7 DEF Final

(* b is what next_sibling of a looks for: the first node after the section *)
(* of a, in the same sections as a.                                        *)
Follows(ns, n, a, b) ==
  /\ a < b /\ ~U(ns, a, b)
  /\ \A s \in 0..n : s \notin {a, b} => (U(ns, s, a) <=> U(ns, s, b))
  /\ \A c \in a+1..b-1 : U(ns, a, c)

LEMMA NextNumberFollows ==
  ASSUME NEW ns, NEW n \in Nat, NEW pr, NEW po, Final(ns, n, pr, po),
         NEW a \in 0..n, NEW b \in 0..n, pr[b] = po[a] + 1
  PROVE  Follows(ns, n, a, b)
<1>1. \A s \in 0..n : pr[s] \in Nat /\ po[s] \in Nat /\ pr[s] < po[s]
  BY DEF Final
<1>2. pr[a] < pr[b] /\ po[a] < po[b]
  BY <1>1
<1>3. a < b
  <2>1. ~(b < a) /\ a # b
    BY <1>1, <1>2 DEF Final
  <2> QED BY <2>1
<1>4. ~U(ns, a, b)
  BY <1>1, <1>2 DEF Final
<1>5. ASSUME NEW c \in a+1..b-1
      PROVE  U(ns, a, c)
  <2>1. c \in 0..n /\ a < c /\ c < b
    OBVIOUS
  <2>2. pr[c] < pr[b]
    BY <2>1 DEF Final
  <2>3. ~(po[a] < pr[c])
    BY <2>1, <2>2, <1>1
  <2> QED BY <2>1, <2>3 DEF Final
<1>6. ASSUME NEW s \in 0..n, s \notin {a, b}, U(ns, s, a)
      PROVE  U(ns, s, b)
  <2>1. s < a
    BY <1>6 DEF U
  <2>2. po[a] < po[s]
    BY <1>6 DEF Final
  <2>3. ~(po[s] < pr[b])
    BY <2>2, <1>1
  <2> QED BY <2>1, <2>3, <1>3 DEF Final
<1>7. ASSUME NEW s \in 0..n, s \notin {a, b}, U(ns, s, b)
      PROVE  U(ns, s, a)
  <2>1. s < b
    BY <1>7 DEF U
  <2>2. CASE s < a
    BY <2>2, <1>3, <1>7, UnderEarlier
  <2>3. CASE a < s
    <3>1. U(ns, a, s)
      BY <2>1, <2>3, <1>5
    <3>2. po[s] < po[a] /\ po[b] < po[s]
      BY <3>1, <1>7 DEF Final
    <3> QED BY <3>2, <1>1, <1>2
  <2> QED BY <2>2, <2>3, <1>7
<1> QED BY <1>3, <1>4, <1>5, <1>6, <1>7 DEF Follows

LEMMA FollowingHasNextNumber ==
  ASSUME NEW ns, NEW n \in Nat, NEW pr, NEW po, Final(ns, n, pr, po),
         NEW a \in 0..n, NEW b \in 0..n, Follows(ns, n, a, b)
  PROVE  pr[b] = po[a] + 1
<1>1. \A s \in 0..n : pr[s] \in Nat /\ po[s] \in Nat /\ pr[s] < po[s]
  BY DEF Final
<1>2. a < b /\ ~U(ns, a, b)
  BY DEF Follows
<1>3. po[a] < pr[b]
  BY <1>2 DEF Final
<1> SUFFICES ASSUME po[a] + 1 # pr[b] PROVE FALSE
  OBVIOUS
<1>4. po[a] + 1 < pr[b] /\ po[a] + 1 \in 0..pr[b]
  BY <1>1, <1>3
<1>5. PICK s \in 0..n : pr[s] = po[a] + 1 \/ po[s] = po[a] + 1
  BY <1>4 DEF Final
<1>6. po[a] < po[s] /\ pr[s] < pr[b] /\ s # a
  BY <1>1, <1>4, <1>5
<1>7. s < b
  <2>1. ~(b < s) /\ s # b
    BY <1>1, <1>6 DEF Final
  <2> QED BY <2>1
<1>8. CASE a < s
  <2>1. U(ns, a, s)
    BY <1>7, <1>8 DEF Follows
  <2>2. po[s] < po[a]
    BY <2>1 DEF Final
  <2> QED BY <2>2, <1>1, <1>6
<1>9. CASE s < a
  <2>1. pr[s] < pr[a]
    BY <1>9 DEF Final
  <2>2. po[s] = po[a] + 1
    BY <2>1, <1>1, <1>5
  <2>3. ~(po[s] < pr[a])
    BY <2>2, <1>1
  <2>4. U(ns, s, a)
    BY <2>3, <1>9 DEF Final
  <2>5. U(ns, s, b)
    BY <2>4, <1>6, <1>7 DEF Follows
  <2>6. po[b] < po[s]
    BY <2>5 DEF Final
  <2> QED BY <2>2, <2>6, <1>1, <1>4
<1> QED BY <1>6, <1>8, <1>9

LEMMA FirstNumberIsUnder ==
  ASSUME NEW ns, NEW n \in Nat, NEW pr, NEW po, Final(ns, n, pr, po),
         NEW a \in 0..n, NEW b \in 0..n, pr[b] = pr[a] + 1
  PROVE  b = a + 1 /\ U(ns, a, a + 1)
<1>1. \A s \in 0..n : pr[s] \in Nat /\ po[s] \in Nat /\ pr[s] < po[s]
  BY DEF Final
<1>2. a < b
  <2>1. ~(b < a) /\ a # b
    BY <1>1 DEF Final
  <2> QED BY <2>1
<1>3. a + 1 \in 0..n /\ a < a + 1
  BY <1>2
<1>4. pr[a] < pr[a + 1]
  BY <1>3 DEF Final
<1>5. ~(a + 1 < b)
  <2>1. ~(pr[a + 1] < pr[b])
    BY <1>1, <1>3, <1>4
  <2> QED BY <2>1, <1>3 DEF Final
<1>6. b = a + 1
  BY <1>2, <1>5
<1>7. ~(po[a] < pr[a + 1])
  BY <1>1, <1>6
<1> QED BY <1>3, <1>6, <1>7 DEF Final

LEMMA InvNavigates == NInv => NavigationFollowsSections
<1> SUFFICES ASSUME NInv, phase = "done", NEW i \in DOMAIN blocks
             PROVE  LET a == blocks[i].node
                    IN  /\ \A k \in NextSiblings(blocks[i]) :
                             LET b == blocks[k].node
                             IN  /\ a < b /\ ~Under(a, b) /\ SameSection(a, b)
                                 /\ \A c \in a+1..b-1 : Under(a, c)
                        /\ \A k \in FirstChildren(blocks[i]) :
                             blocks[k].node = a + 1 /\ Under(a, a + 1)
                        /\ \A b \in Slots :
                             /\ a < b /\ ~Under(a, b) /\ SameSection(a, b)
                             /\ \A c \in a+1..b-1 : Under(a, c)
                             /\ nodes[b].kind # "skipped"
                             => \E k \in NextSiblings(blocks[i]) :
                                  blocks[k].node = b
  BY DEF NavigationFollowsSections
<1> DEFINE n == Len(nodes)
           a == blocks[i].node
<1>1. n \in Nat /\ Final(nodes, n, pre, post) /\ Slots = 0..n
  BY DoneIsFinal DEF Slots
<1>2. \A x, y : Under(x, y) <=> U(nodes, x, y)
  BY DEF Under, U, IsHeading, Depth, H, D
<1>3. ASSUME NEW x \in 0..n, NEW y \in 0..n
      PROVE  Follows(nodes, n, x, y) <=>
               /\ x < y /\ ~Under(x, y) /\ SameSection(x, y)
               /\ \A c \in x+1..y-1 : Under(x, c)
  BY <1>1, <1>2 DEF Follows, SameSection
<1>4. ASSUME NEW k \in DOMAIN blocks
      PROVE  /\ blocks[k].node \in 1..n /\ blocks[k].node \in 0..n
             /\ blocks[k].pre = pre[blocks[k].node]
             /\ blocks[k].post = post[blocks[k].node]
  <2>1. blocks \in Seq([node : 1..n, pre : Nat, post : Nat])
    BY DEF NInv, IInv, Built
  <2>2. k \in 1..Len(blocks) /\ blocks[k] \in [node : 1..n, pre : Nat, post : Nat]
    BY <2>1, LenProperties, ElementOfSeq
  <2>3. /\ blocks[k].node \in 1..n /\ blocks[k].node \in 0..n
    BY <2>2, <1>1
  <2>4. Built(nodes, n, built, pre, post, blocks)
    BY DEF NInv, IInv
  <2>5. /\ blocks[k].pre = pre[blocks[k].node]
        /\ blocks[k].post = post[blocks[k].node]
    BY <2>2, <2>4 DEF Built
  <2> QED BY <2>3, <2>5
<1>5. ASSUME NEW k \in NextSiblings(blocks[i])
      PROVE  Follows(nodes, n, a, blocks[k].node)
  <2>1. k \in DOMAIN blocks /\ blocks[k].pre = blocks[i].post + 1
    BY DEF NextSiblings
  <2>2. pre[blocks[k].node] = post[a] + 1
    BY <2>1, <1>4
  <2> HIDE DEF a
  <2> QED BY <2>1, <2>2, <1>1, <1>4, NextNumberFollows DEF a
<1>6. ASSUME NEW k \in FirstChildren(blocks[i])
      PROVE  blocks[k].node = a + 1 /\ U(nodes, a, a + 1)
  <2>1. k \in DOMAIN blocks /\ blocks[k].pre = blocks[i].pre + 1
    BY DEF FirstChildren
  <2>2. pre[blocks[k].node] = pre[a] + 1
    BY <2>1, <1>4
  <2> HIDE DEF a
  <2> QED BY <2>1, <2>2, <1>1, <1>4, FirstNumberIsUnder DEF a
<1>7. ASSUME NEW b \in 0..n, Follows(nodes, n, a, b), nodes[b].kind # "skipped"
      PROVE  \E k \in NextSiblings(blocks[i]) : blocks[k].node = b
  <2>1. a \in 0..n /\ pre[b] = post[a] + 1
    BY <1>1, <1>4, <1>7, FollowingHasNextNumber
  <2>2. b \in 1..n
    BY <2>1, <1>7 DEF Follows
  <2>3. PICK k \in 1..Len(blocks) : blocks[k].node = b
    BY <2>2, <1>7 DEF NInv, Shown
  <2>4. k \in DOMAIN blocks
    BY LenProperties DEF NInv, IInv, Built
  <2>5. blocks[k].pre = blocks[i].post + 1
    BY <2>1, <2>3, <2>4, <1>4
  <2> QED BY <2>3, <2>4, <2>5 DEF NextSiblings
<1>8. a \in 0..n
  BY <1>4
<1>9. \A k \in NextSiblings(blocks[i]) : blocks[k].node \in 0..n
  BY <1>4 DEF NextSiblings
<1> HIDE DEF a, n
<1>10. \A k \in NextSiblings(blocks[i]) :
         LET b == blocks[k].node
         IN  /\ a < b /\ ~Under(a, b) /\ SameSection(a, b)
             /\ \A c \in a+1..b-1 : Under(a, c)
  BY <1>3, <1>5, <1>8, <1>9
<1>11. \A k \in FirstChildren(blocks[i]) :
         blocks[k].node = a + 1 /\ Under(a, a + 1)
  BY <1>2, <1>6
<1>12. \A b \in Slots :
         /\ a < b /\ ~Under(a, b) /\ SameSection(a, b)
         /\ \A c \in a+1..b-1 : Under(a, c)
         /\ nodes[b].kind # "skipped"
         => \E k \in NextSiblings(blocks[i]) : blocks[k].node = b
  BY <1>1, <1>3, <1>7, <1>8
<1> QED BY <1>10, <1>11, <1>12 DEF a

(* For every document, next_sibling by post + 1 and first_child by pre + 1 *)
(* find the block they are documented to find, and next_sibling misses one *)
(* only where the numbers it looks for are those of a skipped node.        *)
THEOREM NumbersNavigate == Spec => []NavigationFollowsSections
BY NumbersInvariance, InvNavigates, PTL

(* Every variable of build_blocks has a value of its type.                 *)
THEOREM TypeCorrect == Spec => []TypeOK
<1>1. IInv => TypeOK
  <2> SUFFICES ASSUME IInv PROVE TypeOK
    OBVIOUS
  <2>1. /\ Len(nodes) \in Nat /\ added \in Nat /\ last \in Nat
        /\ 0..added \subseteq Slots /\ 0..last \subseteq Slots
        /\ 1..added \subseteq Slots /\ 1..Len(nodes) = Slots \ {0}
    BY LenProperties DEF IInv, Slots
  <2>2. open \in Seq(Slots)
    BY <2>1, SeqMonotonic DEF IInv, Opened
  <2>3. children \in [0..added -> Seq(Slots)]
    <3>1. Seq(1..added) \subseteq Seq(Slots)
      BY <2>1, SeqMonotonic
    <3> QED BY <3>1 DEF IInv, Tree
  <2>4. dfs \in Seq([slot : Slots, next : Nat \ {0}])
    <3>1. [slot : 0..last, next : Nat \ {0}] \subseteq [slot : Slots, next : Nat \ {0}]
      BY <2>1
    <3>2. CASE phase = "sections"
      BY <3>2 DEF IInv
    <3>3. CASE phase # "sections"
      <4>1. dfs \in Seq([slot : 0..last, next : Nat \ {0}])
        BY <3>3 DEF IInv, Stacked
      <4> DEFINE S == [slot : 0..last, next : Nat \ {0}]
                 T == [slot : Slots, next : Nat \ {0}]
      <4>2. S \subseteq T /\ dfs \in Seq(S)
        BY <3>1, <4>1
      <4> HIDE DEF S, T
      <4>3. dfs \in Seq(T)
        BY <4>2, SeqMonotonic
      <4> QED BY <4>3 DEF T
    <3> QED BY <3>2, <3>3
  <2>5. blocks \in Seq([node : Slots \ {0}, pre : Nat, post : Nat])
    BY <2>1 DEF IInv, Built
  <2> QED BY <2>2, <2>3, <2>4, <2>5 DEF IInv, TypeOK
<1> QED BY <1>1, SectionInvariance, PTL

-----------------------------------------------------------------------------
(* Anchors.                                                                *)

Segments == [text : {s.text : s \in Names}, nums : Seq(Nat)]
Paths == Seq(Segments)
Scope == [depth : Nat, path : Paths, children : Seq(Names), types : Seq(Names)]
Anchor == [path : Paths, nth : Nat]

(* Block b of the document is a heading for block_anchors, and its name.   *)
IsScope(ns, bs, b) == ns[bs[b].node].prop > 0
NameOf(ns, bs, b) == ns[bs[b].node].name

(* Path p is the anchor of a heading.                                      *)
IsAnchor(ns, bs, an, p) ==
  \E a \in 1..Len(an) : IsScope(ns, bs, a) /\ an[a].path = p

(* A path starts with that of a heading, if it does not start at the root. *)
StartsAtAnchor(ns, bs, an, a) ==
  \E p \in Paths, x \in Segments :
    /\ an[a].path = Append(p, x)
    /\ p = <<>> \/ IsAnchor(ns, bs, an, p)

(* Block a, whose path starts with that of scope s, was counted there.     *)
Counted(ns, bs, an, s, a) ==
  \A x \in Segments : an[a].path = Append(s.path, x) =>
    LET name == NameOf(ns, bs, a)
    IN  IF IsScope(ns, bs, a)
        THEN \E j \in Nat \ {0} : j < Number(s.children, name)
                                  /\ x = Segment(name, j)
        ELSE x = name /\ an[a].nth < Number(s.types, name)

(* The invariant of the paths: the scopes on the stack are those of one    *)
(* path, each with the counts of everything that starts with it; so what   *)
(* is counted next is new, and where it is not on the stack no path will   *)
(* start any more.                                                         *)
PathsInv(ns, bs, sc, an) ==
  /\ sc \in Seq(Scope) /\ Len(sc) > 0
  /\ an \in Seq(Anchor) /\ Len(an) <= Len(bs)
  /\ \A i \in 1..Len(sc) : Len(sc[i].path) = i - 1
  /\ \A i \in 2..Len(sc) : IsAnchor(ns, bs, an, sc[i].path)
  /\ \A a \in 1..Len(an) : StartsAtAnchor(ns, bs, an, a)
  /\ \A a \in 1..Len(an) : an[a].nth = 0 <=> IsScope(ns, bs, a)
  /\ \A a \in 1..Len(an), i \in 1..Len(sc) : Counted(ns, bs, an, sc[i], a)
  /\ \A a, b \in 1..Len(an) : an[a] = an[b] => a = b

(* What the blocks of build_blocks are.                                    *)
NamedBlocks(ns, bs) ==
  \A b \in 1..Len(bs) :
    /\ NameOf(ns, bs, b) \in Names /\ ns[bs[b].node].prop \in Nat
    /\ IsScope(ns, bs, b) => NameOf(ns, bs, b).nums = <<>>
-----------------------------------------------------------------------------
(* Names and numbers *)

LEMMA NumberGrows ==
  ASSUME NEW S, NEW c \in Seq(S), NEW x \in S, NEW n
  PROVE  /\ Number(c, n) \in Nat \ {0}
         /\ Number(Append(c, x), n)
            = IF n = x THEN Number(c, n) + 1 ELSE Number(c, n)
<1> DEFINE k == Len(c)
           T == {i \in 1..k : c[i] = n}
           new == Append(c, x)
           T2 == {i \in 1..k + 1 : new[i] = n}
<1>1. k \in Nat /\ DOMAIN c = 1..k
  BY LenProperties
<1>2. /\ Len(new) = k + 1 /\ DOMAIN new = 1..k + 1
      /\ \A i \in 1..k : new[i] = c[i]
      /\ new[k + 1] = x
  BY AppendProperties, LenProperties
<1>3. IsFiniteSet(T) /\ Cardinality(T) \in Nat
  <2>1. IsFiniteSet(1..k) /\ T \subseteq 1..k
    BY <1>1, FS_Interval
  <2>2. IsFiniteSet(T)
    BY <2>1, FS_Subset
  <2> QED BY <2>2, FS_CardinalityType
<1>4. Number(c, n) = Cardinality(T) + 1 /\ Number(new, n) = Cardinality(T2) + 1
  BY <1>1, <1>2 DEF Number
<1> DEFINE cT == Cardinality(T)
           cT2 == Cardinality(T2)
           N1 == Number(c, n)
           N2 == Number(new, n)
<1>5. \A i : i \in 1..k + 1 <=> i \in 1..k \/ i = k + 1
  BY <1>1
<1>6. CASE n = x
  <2>1. T2 = T \cup {k + 1} /\ k + 1 \notin T
    BY <1>1, <1>2, <1>5, <1>6
  <2>2. Cardinality(T2) = Cardinality(T) + 1
    BY <2>1, <1>3, FS_AddElement
  <2>3. cT \in Nat /\ cT2 = cT + 1 /\ N1 = cT + 1 /\ N2 = cT2 + 1
    BY <2>2, <1>3, <1>4
  <2> HIDE DEF cT, cT2, N1, N2
  <2>4. N1 \in Nat \ {0} /\ N2 = N1 + 1
    BY <2>3
  <2> QED BY <2>4, <1>6 DEF N1, N2
<1>7. CASE n # x
  <2>1. T2 = T
    BY <1>2, <1>5, <1>7
  <2>2. cT \in Nat /\ N2 = N1 /\ N1 = cT + 1
    BY <2>1, <1>3, <1>4
  <2> HIDE DEF cT, cT2, N1, N2
  <2>3. N1 \in Nat \ {0} /\ N2 = N1
    BY <2>2
  <2> QED BY <2>3, <1>7 DEF N1, N2
<1> QED BY <1>6, <1>7

LEMMA NumberOfNone == \A n : Number(<<>>, n) = 1
<1>1. \A n : {i \in DOMAIN <<>> : <<>>[i] = n} = {}
  OBVIOUS
<1> QED BY <1>1, FS_EmptySet DEF Number

LEMMA NamesAreSegments == Names \subseteq Segments
<1>1. ASSUME NEW s \in Names
      PROVE  s \in Segments
  <2>1. s = [text |-> s.text, nums |-> s.nums] /\ s.nums \in Seq(Nat)
    BY NamesAreNumbered
  <2> QED BY <2>1 DEF Segments
<1> QED BY <1>1

(* Names without numbers stay apart when they are numbered. *)
LEMMA SegmentsDiffer ==
  ASSUME NEW s \in Names, NEW j \in Nat \ {0}, s.nums = <<>>
  PROVE  /\ Segment(s, j) \in Segments
         /\ \A t \in Names : \A i \in Nat \ {0} :
              t.nums = <<>> /\ Segment(s, j) = Segment(t, i) => s = t /\ i = j
<1>1. \A t \in Names : t = [text |-> t.text, nums |-> t.nums]
  BY NamesAreNumbered
<1>2. \A t \in Names : \A i \in Nat \ {0} : t.nums = <<>> =>
        /\ Segment(t, i).text = t.text
        /\ Segment(t, i).nums = IF i = 1 THEN <<>> ELSE <<i>>
  BY <1>1 DEF Segment
<1>3. Segment(s, j) \in Segments
  <2>1. CASE j = 1
    BY <2>1, NamesAreSegments DEF Segment
  <2>2. CASE j # 1
    <3>1. Segment(s, j) = [s EXCEPT !.nums = <<j>>]
      BY <2>2 DEF Segment
    <3>2. Segment(s, j) = [text |-> s.text, nums |-> <<j>>]
      BY <3>1, <1>1
    <3> QED BY <3>2 DEF Segments
  <2> QED BY <2>1, <2>2
<1>4. ASSUME NEW t \in Names, NEW i \in Nat \ {0}, t.nums = <<>>,
             Segment(s, j) = Segment(t, i)
      PROVE  s = t /\ i = j
  <2>1. s.text = t.text
    <3>1. Segment(s, j).text = s.text /\ Segment(t, i).text = t.text
      BY <1>2, <1>4
    <3> QED BY <3>1, <1>4
  <2>2. s = t
    BY <2>1, <1>1, <1>4
  <2>3. (IF i = 1 THEN <<>> ELSE <<i>>) = (IF j = 1 THEN <<>> ELSE <<j>>)
    BY <1>2, <1>4
  <2>4. <<i>> # <<>> /\ <<j>> # <<>> /\ (<<i>> = <<j>> => i = j)
    OBVIOUS
  <2> QED BY <2>2, <2>3, <2>4
<1> QED BY <1>3, <1>4

LEMMA AppendDiffers ==
  ASSUME NEW S, NEW p \in Seq(S), NEW q \in Seq(S), NEW x \in S, NEW y \in S,
         Append(p, x) = Append(q, y)
  PROVE  p = q /\ x = y
<1>1. Len(p) \in Nat /\ Len(q) \in Nat /\ Len(p) = Len(q)
  BY LenProperties, AppendProperties
<1>2. \A i \in 1..Len(p) : p[i] = q[i]
  BY <1>1, AppendProperties
<1>3. p = q
  BY <1>1, <1>2, SeqEqual
<1> QED BY <1>1, <1>3, AppendProperties

-----------------------------------------------------------------------------
(* Steps keep the invariant of the paths *)

(* What was counted for a scope stays counted while its counts only grow.  *)
LEMMA CountsGrow ==
  ASSUME NEW ns, NEW bs, NEW an, NEW an2, NEW s \in Scope, NEW s2 \in Scope,
         NEW a, Counted(ns, bs, an, s, a), an2[a] = an[a], s2.path = s.path,
         \A n : Number(s2.children, n) >= Number(s.children, n),
         \A n : Number(s2.types, n) >= Number(s.types, n),
         an[a].nth \in Nat
  PROVE  Counted(ns, bs, an2, s2, a)
<1> DEFINE name == NameOf(ns, bs, a)
           nc == Number(s.children, name)
           nc2 == Number(s2.children, name)
           nt == Number(s.types, name)
           nt2 == Number(s2.types, name)
<1>1. nc \in Nat /\ nc2 \in Nat /\ nt \in Nat /\ nt2 \in Nat
  <2>1. \A c \in Seq(Names) : Number(c, name) \in Nat
    <3>1. TAKE c \in Seq(Names)
    <3>2. IsFiniteSet({i \in DOMAIN c : c[i] = name})
      <4>1. IsFiniteSet(1..Len(c)) /\ DOMAIN c = 1..Len(c)
        BY FS_Interval, LenProperties
      <4>2. {i \in DOMAIN c : c[i] = name} \subseteq 1..Len(c)
        BY <4>1
      <4> QED BY <4>1, <4>2, FS_Subset
    <3> QED BY <3>2, FS_CardinalityType DEF Number
  <2> QED BY <2>1 DEF Scope
<1>2. nc <= nc2 /\ nt <= nt2
  BY <1>1
<1>3. ASSUME NEW x \in Segments, an2[a].path = Append(s2.path, x)
      PROVE  IF IsScope(ns, bs, a)
             THEN \E j \in Nat \ {0} : j < nc2 /\ x = Segment(name, j)
             ELSE x = name /\ an2[a].nth < nt2
  <2>1. IF IsScope(ns, bs, a)
        THEN \E j \in Nat \ {0} : j < nc /\ x = Segment(name, j)
        ELSE x = name /\ an[a].nth < nt
    BY <1>3 DEF Counted
  <2> HIDE DEF nc, nc2, nt, nt2, name
  <2>2. \A j \in Nat : j < nc => j < nc2
    BY <1>1, <1>2
  <2>3. \A j \in Nat : j < nt => j < nt2
    BY <1>1, <1>2
  <2> QED BY <2>1, <2>2, <2>3
<1> QED BY <1>3 DEF Counted

(* One more anchor. *)
LEMMA OneAnchorMore ==
  ASSUME NEW ns, NEW bs, NEW an \in Seq(Anchor), NEW new \in Anchor
  PROVE  /\ Append(an, new) \in Seq(Anchor)
         /\ Len(Append(an, new)) = Len(an) + 1 /\ Len(an) \in Nat
         /\ \A a \in 1..Len(an) : Append(an, new)[a] = an[a]
         /\ Append(an, new)[Len(an) + 1] = new
         /\ \A p : IsAnchor(ns, bs, an, p) => IsAnchor(ns, bs, Append(an, new), p)
<1> DEFINE two == Append(an, new)
<1>1. /\ two \in Seq(Anchor) /\ Len(two) = Len(an) + 1 /\ Len(an) \in Nat
      /\ \A a \in 1..Len(an) : two[a] = an[a]
      /\ two[Len(an) + 1] = new
  BY AppendProperties, LenProperties
<1>2. \A a \in 1..Len(an) : a \in 1..Len(two)
  BY <1>1
<1> QED BY <1>1, <1>2 DEF IsAnchor

LEMMA ScopesAndAnchors ==
  /\ \A sc \in Seq(Scope) : \A i \in 1..Len(sc) :
       sc[i] \in Scope /\ sc[i].path \in Paths
  /\ \A an \in Seq(Anchor) : \A a \in 1..Len(an) :
       an[a].path \in Paths /\ an[a].nth \in Nat
<1>1. \A sc \in Seq(Scope) : \A i \in 1..Len(sc) : sc[i] \in Scope
  BY ElementOfSeq
<1>2. \A an \in Seq(Anchor) : \A a \in 1..Len(an) : an[a] \in Anchor
  BY ElementOfSeq
<1>3. \A s \in Scope : s.path \in Paths
  BY DEF Scope
<1>4. \A x \in Anchor : x.path \in Paths /\ x.nth \in Nat
  BY DEF Anchor
<1> QED BY <1>1, <1>2, <1>3, <1>4

(* A path that another one continues is shorter. *)
LEMMA ContinuedIsShorter ==
  ASSUME NEW p \in Paths, NEW x \in Segments
  PROVE  /\ Append(p, x) \in Paths /\ Len(Append(p, x)) = Len(p) + 1
         /\ Len(p) \in Nat
BY AppendProperties, LenProperties DEF Paths

LEMMA PathsDiffer ==
  ASSUME NEW p \in Paths, NEW q \in Paths, NEW x \in Segments,
         NEW y \in Segments, Append(p, x) = Append(q, y)
  PROVE  p = q /\ x = y
<1> DEFINE S == Segments
<1>1. p \in Seq(S) /\ q \in Seq(S) /\ x \in S /\ y \in S
  BY DEF Paths
<1> HIDE DEF S
<1> QED BY <1>1, AppendDiffers

(* A path without its last segment. *)
Cut(p) == SubSeq(p, 1, Len(p) - 1)

LEMMA LastIsCutOff ==
  ASSUME NEW p \in Paths, NEW x \in Segments
  PROVE  Cut(Append(p, x)) = p
<1> DEFINE S == Segments
           q == Append(p, x)
<1>1. p \in Seq(S) /\ x \in S
  BY DEF Paths
<1> HIDE DEF S
<1>2. /\ Len(p) \in Nat /\ Len(q) - 1 = Len(p)
      /\ \A i \in 1..Len(p) : q[i] = p[i] /\ p[i] \in S
  BY <1>1, AppendProperties, LenProperties, ElementOfSeq
<1> HIDE DEF q
<1> DEFINE n == Len(p)
           r == SubSeq(q, 1, n)
<1>3. n \in Nat /\ \A i \in 1..n : q[i] \in S
  BY <1>2
<1> HIDE DEF n
<1>4. /\ r \in Seq(S) /\ Len(r) = IF 1 <= n THEN n - 1 + 1 ELSE 0
      /\ \A i \in 1..n - 1 + 1 : r[i] = q[1 + i - 1]
  BY <1>3, SubSeqProperties
<1> HIDE DEF r
<1>5. Len(r) = n /\ \A i \in 1..n : r[i] = q[i]
  BY <1>3, <1>4
<1>6. Len(r) = Len(p) /\ \A i \in 1..Len(r) : r[i] = p[i]
  BY <1>2, <1>5 DEF n
<1>7. r = p
  BY <1>1, <1>4, <1>6, SeqEqual
<1> QED BY <1>2, <1>7 DEF r, n, q, Cut

(* The path of a heading continues that of its section, unless it is empty. *)
LEMMA JoinedPath ==
  ASSUME NEW p \in Paths, NEW x \in Segments
  PROVE  /\ Joined(p, x) \in Paths
         /\ Joined(p, x) # <<>> => Joined(p, x) = Append(p, x)
         /\ Cut(Joined(p, x)) = p
<1>1. CASE p = <<>> /\ x = Blank
  <2>1. Joined(p, x) = p
    BY <1>1 DEF Joined
  <2>2. Cut(<<>>) = <<>>
    <3> DEFINE r == SubSeq(<<>>, 1, Len(<<>>) - 1)
    <3>1. Len(<<>>) - 1 = -1
      BY EmptySeq
    <3>2. r \in Seq(Segments) /\ Len(r) = 0
      <4>1. \A i \in 1..-1 : <<>>[i] \in Segments
        OBVIOUS
      <4> QED BY <3>1, <4>1, SubSeqProperties
    <3> HIDE DEF r
    <3>3. r = <<>>
      BY <3>2, EmptySeq
    <3> QED BY <3>3 DEF Cut, r
  <2> QED BY <1>1, <2>1, <2>2
<1>2. CASE ~(p = <<>> /\ x = Blank)
  <2>1. Joined(p, x) = Append(p, x)
    BY <1>2 DEF Joined
  <2> QED BY <2>1, ContinuedIsShorter, LastIsCutOff
<1> QED BY <1>1, <1>2

(* What is counted next at a scope has a path that no heading has. *)
LEMMA NumberedIsNew ==
  ASSUME NEW ns, NEW bs, NEW an, NEW s \in Scope, NEW a, NEW name \in Names,
         name.nums = <<>>, Counted(ns, bs, an, s, a), IsScope(ns, bs, a),
         NameOf(ns, bs, a) \in Names, NameOf(ns, bs, a).nums = <<>>
  PROVE  an[a].path # Append(s.path, Segment(name, Number(s.children, name)))
<1> DEFINE n == Number(s.children, name)
           x == Segment(name, n)
<1>1. n \in Nat \ {0}
  BY NumberGrows DEF Scope
<1> HIDE DEF n
<1>2. x \in Segments
  BY <1>1, SegmentsDiffer
<1>3. SUFFICES ASSUME an[a].path = Append(s.path, x) PROVE FALSE
  BY DEF n
<1>4. PICK j \in Nat \ {0} : /\ j < Number(s.children, NameOf(ns, bs, a))
                             /\ x = Segment(NameOf(ns, bs, a), j)
  BY <1>2, <1>3 DEF Counted
<1>5. name = NameOf(ns, bs, a) /\ n = j
  BY <1>1, <1>4, SegmentsDiffer
<1>6. j < n
  BY <1>4, <1>5 DEF n
<1> QED BY <1>1, <1>5, <1>6

(* A heading is counted in scope k, and its own scope follows.             *)
Entered(sc, sc2, k, name, path) ==
  /\ k \in 1..Len(sc)
  /\ path = Joined(sc[k].path, Segment(name, Number(sc[k].children, name)))
  /\ sc2 \in Seq(Scope) /\ Len(sc2) = k + 1
  /\ \A i \in 1..k : i # k => sc2[i] = sc[i]
  /\ sc2[k].path = sc[k].path /\ sc2[k].types = sc[k].types
  /\ sc2[k].children = Append(sc[k].children, name)
  /\ sc2[k + 1].path = path

(* Another block is counted in the last scope.                             *)
Listed(sc, sc2, k, name, path, n) ==
  /\ k = Len(sc)
  /\ path = Append(sc[k].path, name) /\ n = Number(sc[k].types, name)
  /\ sc2 \in Seq(Scope) /\ Len(sc2) = k
  /\ \A i \in 1..k : i # k => sc2[i] = sc[i]
  /\ sc2[k].path = sc[k].path /\ sc2[k].children = sc[k].children
  /\ sc2[k].types = Append(sc[k].types, name)

LEMMA HeadingKeepsPaths ==
  ASSUME NEW ns, NEW bs, NEW sc, NEW an, NEW sc2, NEW k, NEW path, NEW name,
         NamedBlocks(ns, bs), PathsInv(ns, bs, sc, an), Len(an) < Len(bs),
         Len(bs) \in Nat,
         IsScope(ns, bs, Len(an) + 1), name = NameOf(ns, bs, Len(an) + 1),
         Entered(sc, sc2, k, name, path), path # <<>>
  PROVE  PathsInv(ns, bs, sc2, Append(an, [path |-> path, nth |-> 0]))
<1> DEFINE m == Len(an) + 1
           new == [path |-> path, nth |-> 0]
           an2 == Append(an, new)
           n == Number(sc[k].children, name)
           x == Segment(name, n)
<1>1. /\ sc \in Seq(Scope) /\ Len(sc) \in Nat /\ an \in Seq(Anchor)
      /\ k \in Nat /\ k \in 1..Len(sc)
  BY LenProperties DEF PathsInv, Entered
<1>21. /\ \A i \in 1..Len(sc) : Len(sc[i].path) = i - 1
       /\ \A i \in 2..Len(sc) : IsAnchor(ns, bs, an, sc[i].path)
       /\ \A a \in 1..Len(an) : StartsAtAnchor(ns, bs, an, a)
       /\ \A a \in 1..Len(an) : an[a].nth = 0 <=> IsScope(ns, bs, a)
  BY DEF PathsInv
<1>22. \A a \in 1..Len(an), i \in 1..Len(sc) : Counted(ns, bs, an, sc[i], a)
  BY DEF PathsInv
<1>23. \A a, b \in 1..Len(an) : an[a] = an[b] => a = b
  BY DEF PathsInv
<1>24. /\ sc2 \in Seq(Scope) /\ Len(sc2) = k + 1
       /\ \A i \in 1..k : i # k => sc2[i] = sc[i]
       /\ sc2[k].path = sc[k].path /\ sc2[k].types = sc[k].types
       /\ sc2[k].children = Append(sc[k].children, name)
       /\ sc2[k + 1].path = path
       /\ path = Append(sc[k].path, x)
  BY DEF Entered, Joined
<1>2. \A i \in 1..Len(sc) : sc[i] \in Scope /\ sc[i].path \in Paths
  BY <1>1, ScopesAndAnchors
<1>3. \A i \in 1..k + 1 : sc2[i] \in Scope /\ sc2[i].path \in Paths
  BY <1>24, ScopesAndAnchors
<1>4. \A a \in 1..Len(an) : an[a].path \in Paths /\ an[a].nth \in Nat
  BY <1>1, ScopesAndAnchors
<1>5. m \in 1..Len(bs) /\ \A a \in 1..Len(an) : a \in 1..Len(bs)
  BY <1>1, LenProperties
<1>6. name \in Names /\ name.nums = <<>>
  BY <1>5 DEF NamedBlocks
<1>7. n \in Nat \ {0} /\ x \in Segments
  <2>1. sc[k].children \in Seq(Names)
    BY <1>1, <1>2 DEF Scope
  <2> HIDE DEF n
  <2>2. n \in Nat \ {0}
    BY <2>1, <1>6, NumberGrows DEF n
  <2> QED BY <2>2, <1>6, SegmentsDiffer
<1>8. path \in Paths /\ Len(path) = k
  <2>1. Len(sc[k].path) = k - 1 /\ path = Append(sc[k].path, x)
    BY <1>1, <1>21, <1>24
  <2> HIDE DEF x
  <2> QED BY <2>1, <1>1, <1>2, <1>7, ContinuedIsShorter
<1>9. new \in Anchor
  BY <1>8 DEF Anchor
<1> HIDE DEF new
<1>10. /\ an2 \in Seq(Anchor) /\ Len(an2) = m /\ Len(an) \in Nat
       /\ \A a \in 1..Len(an) : an2[a] = an[a]
       /\ an2[m] = new
       /\ \A p : IsAnchor(ns, bs, an, p) => IsAnchor(ns, bs, an2, p)
  BY <1>1, <1>9, OneAnchorMore
<1>11. new.path = path /\ new.nth = 0
  BY DEF new
<1>12. \A a \in 1..m : a \in 1..Len(an) \/ a = m
  BY <1>10
<1>13. \A a \in 1..Len(an) : IsScope(ns, bs, a) => an[a].path # path
  <2>1. TAKE a \in 1..Len(an)
  <2>2. HAVE IsScope(ns, bs, a)
  <2>3. Counted(ns, bs, an, sc[k], a)
    BY <1>1, <1>22
  <2>4. NameOf(ns, bs, a) \in Names /\ NameOf(ns, bs, a).nums = <<>>
    BY <1>5, <2>2 DEF NamedBlocks
  <2>5. an[a].path # Append(sc[k].path, x)
    BY <1>1, <1>2, <1>6, <2>2, <2>3, <2>4, NumberedIsNew
  <2> QED BY <2>5, <1>24
<1> HIDE DEF an2, n, x
<1>14. /\ \A i \in 1..k + 1 : Len(sc2[i].path) = i - 1
       /\ \A i \in 1..k : sc2[i].path = sc[i].path
  <2>1. \A i \in 1..k : sc2[i].path = sc[i].path
    BY <1>24
  <2>2. \A i \in 1..k : i \in 1..Len(sc)
    BY <1>1
  <2>3. \A i \in 1..k : Len(sc2[i].path) = i - 1
    BY <2>1, <2>2, <1>21
  <2>4. \A i \in 1..k + 1 : i \in 1..k \/ i = k + 1
    BY <1>1
  <2>5. Len(sc2[k + 1].path) = (k + 1) - 1
    BY <1>1, <1>8, <1>24
  <2>6. \A i \in 1..k + 1 : Len(sc2[i].path) = i - 1
    BY <2>3, <2>4, <2>5
  <2> QED BY <2>1, <2>6
<1>15. \A i \in 2..k + 1 : IsAnchor(ns, bs, an2, sc2[i].path)
  <2>1. TAKE i \in 2..k + 1
  <2>2. CASE i = k + 1
    <3>1. m \in 1..Len(an2) /\ an2[m].path = sc2[i].path
      BY <2>2, <1>10, <1>11, <1>24
    <3>2. IsScope(ns, bs, m)
      OBVIOUS
    <3> QED BY <3>1, <3>2 DEF IsAnchor
  <2>3. CASE i # k + 1
    <3>1. i \in 1..k /\ i \in 2..Len(sc)
      BY <2>3, <1>1
    <3>2. IsAnchor(ns, bs, an, sc[i].path)
      BY <3>1, <1>21
    <3> QED BY <3>1, <3>2, <1>10, <1>14
  <2> QED BY <2>2, <2>3
<1>16. \A a \in 1..m : StartsAtAnchor(ns, bs, an2, a)
  <2>1. TAKE a \in 1..m
  <2>2. CASE a \in 1..Len(an)
    <3>1. StartsAtAnchor(ns, bs, an, a)
      BY <2>2, <1>21
    <3> QED BY <2>2, <3>1, <1>10 DEF StartsAtAnchor
  <2>3. CASE a = m
    <3>1. an2[a].path = Append(sc[k].path, x)
      BY <2>3, <1>10, <1>11, <1>24
    <3>2. sc[k].path = <<>> \/ IsAnchor(ns, bs, an, sc[k].path)
      <4>1. CASE k = 1
        <5>1. Len(sc[k].path) = 0
          BY <4>1, <1>1, <1>21
        <5> QED BY <5>1, <1>1, <1>2, EmptySeq DEF Paths
      <4>2. CASE k # 1
        <5>1. k \in 2..Len(sc)
          BY <4>2, <1>1
        <5> QED BY <5>1, <1>21
      <4> QED BY <4>1, <4>2
    <3> QED BY <3>1, <3>2, <1>1, <1>2, <1>7, <1>10 DEF StartsAtAnchor
  <2> QED BY <2>2, <2>3, <1>12
<1>17. \A a \in 1..m : an2[a].nth = 0 <=> IsScope(ns, bs, a)
  <2>1. \A a \in 1..Len(an) : an2[a].nth = 0 <=> IsScope(ns, bs, a)
    BY <1>10, <1>21
  <2> QED BY <2>1, <1>10, <1>11, <1>12
<1>18. \A a, b \in 1..m : an2[a] = an2[b] => a = b
  <2>1. \A a, b \in 1..Len(an) : an2[a] = an2[b] => a = b
    BY <1>10, <1>23
  <2>2. \A a \in 1..Len(an) : an2[a] # an2[m]
    <3>1. SUFFICES ASSUME NEW a \in 1..Len(an), an2[a] = an2[m]
                   PROVE  FALSE
      OBVIOUS
    <3>2. an[a].nth = 0 /\ an[a].path = path
      BY <3>1, <1>10, <1>11
    <3>3. IsScope(ns, bs, a)
      BY <3>2, <1>21
    <3> QED BY <3>2, <3>3, <1>13
  <2> QED BY <2>1, <2>2, <1>12
<1>19. ASSUME NEW a \in 1..m, NEW i \in 1..k + 1
       PROVE  Counted(ns, bs, an2, sc2[i], a)
  <2>1. CASE i = k + 1
    <3>1. ASSUME NEW y \in Segments, an2[a].path = Append(path, y)
          PROVE  FALSE
      <4>1. CASE a = m
        <5>1. Len(path) = Len(Append(path, y))
          BY <4>1, <3>1, <1>10, <1>11
        <5>2. Len(Append(path, y)) = Len(path) + 1 /\ Len(path) \in Nat
          BY <1>8, ContinuedIsShorter
        <5> QED BY <5>1, <5>2
      <4>2. CASE a \in 1..Len(an)
        <5>1. PICK p \in Paths, z \in Segments :
                /\ an[a].path = Append(p, z)
                /\ p = <<>> \/ IsAnchor(ns, bs, an, p)
          BY <4>2, <1>21 DEF StartsAtAnchor
        <5>2. p = path
          <6>1. Append(p, z) = Append(path, y)
            BY <5>1, <3>1, <4>2, <1>10
          <6> QED BY <6>1, <1>8, PathsDiffer
        <5>3. IsAnchor(ns, bs, an, path)
          <6>1. Len(path) # 0
            BY <1>1, <1>8
          <6>2. path # <<>>
            BY <6>1
          <6> QED BY <5>1, <5>2, <6>2
        <5> QED BY <5>3, <1>13 DEF IsAnchor
      <4> QED BY <4>1, <4>2, <1>12
    <3>2. sc2[i].path = path
      BY <2>1, <1>24
    <3> QED BY <3>1, <3>2 DEF Counted
  <2>2. CASE i \in 1..k /\ a \in 1..Len(an)
    <3>1. Counted(ns, bs, an, sc[i], a) /\ i \in 1..Len(sc)
      <4>1. i \in 1..Len(sc)
        BY <2>2, <1>1
      <4> QED BY <4>1, <2>2, <1>22
    <3>2. \A w : Number(sc2[i].types, w) >= Number(sc[i].types, w)
      <4>1. sc2[i].types = sc[i].types
        BY <2>2, <1>24
      <4>2. \A w : Number(sc[i].types, w) \in Nat
        BY <1>2, <3>1, <1>6, NumberGrows DEF Scope
      <4> QED BY <4>1, <4>2
    <3>3. \A w : Number(sc2[i].children, w) >= Number(sc[i].children, w)
      <4>1. TAKE w
      <4>2. Number(sc[i].children, w) \in Nat
        BY <1>2, <3>1, <1>6, NumberGrows DEF Scope
      <4>3. CASE i # k
        <5>1. sc2[i] = sc[i]
          BY <4>3, <2>2, <1>24
        <5> QED BY <5>1, <4>2
      <4>4. CASE i = k
        <5> DEFINE c == sc[k].children
                   N1 == Number(c, w)
                   N2 == Number(Append(c, name), w)
        <5>1. c \in Seq(Names)
          BY <1>1, <1>2 DEF Scope
        <5> HIDE DEF c
        <5>2. N1 \in Nat /\ N2 = IF w = name THEN N1 + 1 ELSE N1
          BY <5>1, <1>6, NumberGrows
        <5>3. Number(sc2[i].children, w) = N2 /\ Number(sc[i].children, w) = N1
          BY <4>4, <1>24 DEF c
        <5> HIDE DEF N1, N2
        <5>4. N2 >= N1
          BY <5>2
        <5> QED BY <5>3, <5>4
      <4> QED BY <4>3, <4>4
    <3>4. /\ sc[i] \in Scope /\ sc2[i] \in Scope /\ sc2[i].path = sc[i].path
          /\ an2[a] = an[a] /\ an[a].nth \in Nat
      <4>1. i \in 1..k + 1
        OBVIOUS
      <4> QED BY <4>1, <2>2, <3>1, <1>2, <1>3, <1>4, <1>10, <1>14
    <3> QED BY <3>1, <3>2, <3>3, <3>4, CountsGrow
  <2>3. CASE i \in 1..k /\ a = m
    <3>1. ASSUME NEW y \in Segments, path = Append(sc2[i].path, y)
          PROVE  i = k /\ y = x
      <4>1. sc[i].path \in Paths /\ sc2[i].path = sc[i].path /\ i \in Nat
        <5>1. i \in 1..Len(sc)
          BY <2>3, <1>1
        <5> QED BY <5>1, <2>3, <1>2, <1>14
      <4>2. Len(path) = Len(sc[i].path) + 1 /\ Len(sc[i].path) = i - 1
        BY <3>1, <4>1, <1>14, <2>3, <1>1, ContinuedIsShorter
      <4>3. i = k
        BY <4>1, <4>2, <1>1, <1>8
      <4>4. Append(sc[k].path, y) = Append(sc[k].path, x)
        BY <3>1, <4>1, <4>3, <1>24
      <4>5. y = x
        BY <4>4, <1>1, <1>2, <1>7, PathsDiffer
      <4> QED BY <4>3, <4>5
    <3>2. n < Number(sc2[k].children, name)
      <4>1. Number(Append(sc[k].children, name), name) = n + 1
        <5> DEFINE c == sc[k].children
        <5>1. c \in Seq(Names)
          BY <1>1, <1>2 DEF Scope
        <5> HIDE DEF c
        <5>2. Number(Append(c, name), name) = Number(c, name) + 1
          BY <5>1, <1>6, NumberGrows
        <5> QED BY <5>2 DEF c, n
      <4> QED BY <4>1, <1>7, <1>24
    <3>3. an2[a].path = path
      BY <2>3, <1>10, <1>11
    <3>4. IsScope(ns, bs, a) /\ NameOf(ns, bs, a) = name
      BY <2>3
    <3>5. x = Segment(name, n)
      BY DEF x
    <3> QED BY <3>1, <3>2, <3>3, <3>4, <3>5, <1>7 DEF Counted
  <2> QED BY <2>1, <2>2, <2>3, <1>1, <1>12
<1>20. m <= Len(bs) /\ Len(sc2) > 0
  BY <1>1, <1>5, <1>24
<1>25. PathsInv(ns, bs, sc2, an2)
  BY <1>10, <1>14, <1>15, <1>16, <1>17, <1>18, <1>19, <1>20, <1>24 DEF PathsInv
<1> QED BY <1>25 DEF an2, new

LEMMA OtherKeepsPaths ==
  ASSUME NEW ns, NEW bs, NEW sc, NEW an, NEW sc2, NEW k, NEW name, NEW path,
         NEW n,
         NamedBlocks(ns, bs), PathsInv(ns, bs, sc, an), Len(an) < Len(bs),
         Len(bs) \in Nat,
         ~IsScope(ns, bs, Len(an) + 1), name = NameOf(ns, bs, Len(an) + 1),
         Listed(sc, sc2, k, name, path, n)
  PROVE  PathsInv(ns, bs, sc2, Append(an, [path |-> path, nth |-> n]))
<1> DEFINE m == Len(an) + 1
           new == [path |-> path, nth |-> n]
           an2 == Append(an, new)
<1>1. /\ sc \in Seq(Scope) /\ Len(sc) \in Nat /\ an \in Seq(Anchor)
      /\ k \in Nat /\ k \in 1..Len(sc)
  BY LenProperties DEF PathsInv, Listed
<1>21. /\ \A i \in 1..Len(sc) : Len(sc[i].path) = i - 1
       /\ \A i \in 2..Len(sc) : IsAnchor(ns, bs, an, sc[i].path)
       /\ \A a \in 1..Len(an) : StartsAtAnchor(ns, bs, an, a)
       /\ \A a \in 1..Len(an) : an[a].nth = 0 <=> IsScope(ns, bs, a)
  BY DEF PathsInv
<1>22. \A a \in 1..Len(an), i \in 1..Len(sc) : Counted(ns, bs, an, sc[i], a)
  BY DEF PathsInv
<1>23. \A a, b \in 1..Len(an) : an[a] = an[b] => a = b
  BY DEF PathsInv
<1>24. /\ sc2 \in Seq(Scope) /\ Len(sc2) = k /\ Len(sc) = k
       /\ \A i \in 1..k : i # k => sc2[i] = sc[i]
       /\ sc2[k].path = sc[k].path /\ sc2[k].children = sc[k].children
       /\ sc2[k].types = Append(sc[k].types, name)
       /\ path = Append(sc[k].path, name) /\ n = Number(sc[k].types, name)
  BY DEF Listed
<1>2. \A i \in 1..k : sc[i] \in Scope /\ sc[i].path \in Paths
  BY <1>1, <1>24, ScopesAndAnchors
<1>3. \A i \in 1..k : sc2[i] \in Scope /\ sc2[i].path \in Paths
  BY <1>24, ScopesAndAnchors
<1>4. \A a \in 1..Len(an) : an[a].path \in Paths /\ an[a].nth \in Nat
  BY <1>1, ScopesAndAnchors
<1>5. m \in 1..Len(bs)
  BY <1>1, LenProperties
<1>6. name \in Names /\ name \in Segments
  BY <1>5, NamesAreSegments DEF NamedBlocks
<1>7. n \in Nat \ {0}
  <2>1. sc[k].types \in Seq(Names)
    BY <1>1, <1>2, <1>24 DEF Scope
  <2> QED BY <2>1, <1>6, <1>24, NumberGrows
<1>8. path \in Paths /\ Len(path) = k
  <2>1. Len(sc[k].path) = k - 1
    BY <1>1, <1>21
  <2> QED BY <2>1, <1>1, <1>2, <1>6, <1>24, ContinuedIsShorter
<1>9. new \in Anchor
  BY <1>7, <1>8 DEF Anchor
<1> HIDE DEF new
<1>10. /\ an2 \in Seq(Anchor) /\ Len(an2) = m /\ Len(an) \in Nat
       /\ \A a \in 1..Len(an) : an2[a] = an[a]
       /\ an2[m] = new
       /\ \A p : IsAnchor(ns, bs, an, p) => IsAnchor(ns, bs, an2, p)
  BY <1>1, <1>9, OneAnchorMore
<1>11. new.path = path /\ new.nth = n
  BY DEF new
<1>12. \A a \in 1..m : a \in 1..Len(an) \/ a = m
  BY <1>10
<1> HIDE DEF an2
<1>14. \A i \in 1..k : sc2[i].path = sc[i].path /\ Len(sc2[i].path) = i - 1
  <2>1. \A i \in 1..k : sc2[i].path = sc[i].path
    BY <1>24
  <2> QED BY <2>1, <1>21, <1>24
<1>15. \A i \in 2..k : IsAnchor(ns, bs, an2, sc2[i].path)
  <2>1. TAKE i \in 2..k
  <2>2. IsAnchor(ns, bs, an, sc[i].path) /\ i \in 1..k
    BY <2>1, <1>1, <1>21, <1>24
  <2> QED BY <2>2, <1>10, <1>14
<1>16. \A a \in 1..m : StartsAtAnchor(ns, bs, an2, a)
  <2>1. TAKE a \in 1..m
  <2>2. CASE a \in 1..Len(an)
    <3>1. StartsAtAnchor(ns, bs, an, a)
      BY <2>2, <1>21
    <3> QED BY <2>2, <3>1, <1>10 DEF StartsAtAnchor
  <2>3. CASE a = m
    <3>1. an2[a].path = Append(sc[k].path, name)
      BY <2>3, <1>10, <1>11, <1>24
    <3>2. sc[k].path = <<>> \/ IsAnchor(ns, bs, an, sc[k].path)
      <4>1. CASE k = 1
        <5>1. Len(sc[k].path) = 0
          BY <4>1, <1>1, <1>21
        <5> QED BY <5>1, <1>1, <1>2, <1>24, EmptySeq DEF Paths
      <4>2. CASE k # 1
        <5>1. k \in 2..Len(sc)
          BY <4>2, <1>1
        <5> QED BY <5>1, <1>21
      <4> QED BY <4>1, <4>2
    <3> QED BY <3>1, <3>2, <1>1, <1>2, <1>6, <1>10, <1>24 DEF StartsAtAnchor
  <2> QED BY <2>2, <2>3, <1>12
<1>17. \A a \in 1..m : an2[a].nth = 0 <=> IsScope(ns, bs, a)
  <2>1. \A a \in 1..Len(an) : an2[a].nth = 0 <=> IsScope(ns, bs, a)
    BY <1>10, <1>21
  <2> QED BY <2>1, <1>7, <1>10, <1>11, <1>12
<1>18. \A a, b \in 1..m : an2[a] = an2[b] => a = b
  <2>1. \A a, b \in 1..Len(an) : an2[a] = an2[b] => a = b
    BY <1>10, <1>23
  <2>2. \A a \in 1..Len(an) : an2[a] # an2[m]
    <3>1. SUFFICES ASSUME NEW a \in 1..Len(an), an2[a] = an2[m]
                   PROVE  FALSE
      OBVIOUS
    <3>2. an[a].nth = n /\ an[a].path = Append(sc[k].path, name)
      BY <3>1, <1>10, <1>11, <1>24
    <3>3. ~IsScope(ns, bs, a)
      BY <3>2, <1>7, <1>21
    <3>4. Counted(ns, bs, an, sc[k], a)
      BY <1>1, <1>22
    <3>5. name = NameOf(ns, bs, a) /\ n < Number(sc[k].types, name)
      BY <3>2, <3>3, <3>4, <1>6, <1>24 DEF Counted
    <3> QED BY <3>5, <1>7, <1>24
  <2> QED BY <2>1, <2>2, <1>12
<1>19. ASSUME NEW a \in 1..m, NEW i \in 1..k
       PROVE  Counted(ns, bs, an2, sc2[i], a)
  <2>1. CASE a \in 1..Len(an)
    <3>1. Counted(ns, bs, an, sc[i], a)
      BY <2>1, <1>22, <1>24
    <3>2. \A w : Number(sc2[i].children, w) >= Number(sc[i].children, w)
      <4>1. sc2[i].children = sc[i].children
        BY <1>24
      <4>2. \A w : Number(sc[i].children, w) \in Nat
        BY <1>2, <1>6, NumberGrows DEF Scope
      <4> QED BY <4>1, <4>2
    <3>3. \A w : Number(sc2[i].types, w) >= Number(sc[i].types, w)
      <4>1. TAKE w
      <4>2. Number(sc[i].types, w) \in Nat
        BY <1>2, <1>6, NumberGrows DEF Scope
      <4>3. CASE i # k
        <5>1. sc2[i] = sc[i]
          BY <4>3, <1>24
        <5> QED BY <5>1, <4>2
      <4>4. CASE i = k
        <5> DEFINE c == sc[k].types
                   N1 == Number(c, w)
                   N2 == Number(Append(c, name), w)
        <5>1. c \in Seq(Names)
          BY <1>1, <1>2, <1>24 DEF Scope
        <5> HIDE DEF c
        <5>2. N1 \in Nat /\ N2 = IF w = name THEN N1 + 1 ELSE N1
          BY <5>1, <1>6, NumberGrows
        <5>3. Number(sc2[i].types, w) = N2 /\ Number(sc[i].types, w) = N1
          BY <4>4, <1>24 DEF c
        <5> HIDE DEF N1, N2
        <5>4. N2 >= N1
          BY <5>2
        <5> QED BY <5>3, <5>4
      <4> QED BY <4>3, <4>4
    <3>4. /\ sc[i] \in Scope /\ sc2[i] \in Scope /\ sc2[i].path = sc[i].path
          /\ an2[a] = an[a] /\ an[a].nth \in Nat
      BY <2>1, <1>2, <1>3, <1>4, <1>10, <1>14
    <3> QED BY <3>1, <3>2, <3>3, <3>4, CountsGrow
  <2>2. CASE a = m
    <3>1. ASSUME NEW y \in Segments, path = Append(sc2[i].path, y)
          PROVE  i = k /\ y = name
      <4>1. sc[i].path \in Paths /\ sc2[i].path = sc[i].path /\ i \in Nat
        <5>1. i \in Nat
          BY <1>1
        <5>2. sc[i].path \in Paths
          BY <1>2
        <5>3. sc2[i].path = sc[i].path
          BY <1>14
        <5> QED BY <5>1, <5>2, <5>3
      <4>2. Len(path) = Len(sc[i].path) + 1 /\ Len(sc[i].path) = i - 1
        BY <3>1, <4>1, <1>14, ContinuedIsShorter
      <4>3. i = k
        BY <4>1, <4>2, <1>1, <1>8
      <4>4. Append(sc[k].path, y) = Append(sc[k].path, name)
        BY <3>1, <4>1, <4>3, <1>24
      <4>5. y = name
        <5>1. sc[k].path \in Paths
          BY <1>1, <1>2, <1>24
        <5> QED BY <4>4, <5>1, <1>6, PathsDiffer
      <4> QED BY <4>3, <4>5
    <3>2. n < Number(sc2[k].types, name)
      <4>1. Number(Append(sc[k].types, name), name) = n + 1
        <5> DEFINE c == sc[k].types
        <5>1. c \in Seq(Names)
          BY <1>1, <1>2, <1>24 DEF Scope
        <5> HIDE DEF c
        <5>2. Number(Append(c, name), name) = Number(c, name) + 1
          BY <5>1, <1>6, NumberGrows
        <5> QED BY <5>2, <1>24 DEF c
      <4> QED BY <4>1, <1>7, <1>24
    <3>3. an2[a].path = path /\ an2[a].nth = n
      BY <2>2, <1>10, <1>11
    <3>4. ~IsScope(ns, bs, a) /\ NameOf(ns, bs, a) = name
      BY <2>2
    <3> QED BY <3>1, <3>2, <3>3, <3>4 DEF Counted
  <2> QED BY <2>1, <2>2, <1>12
<1>20. m <= Len(bs) /\ Len(sc2) > 0
  BY <1>1, <1>5, <1>24
<1>25. PathsInv(ns, bs, sc2, an2)
  BY <1>10, <1>14, <1>15, <1>16, <1>17, <1>18, <1>19, <1>20, <1>24 DEF PathsInv
<1> QED BY <1>25 DEF an2, new

-----------------------------------------------------------------------------
(* The steps of block_anchors *)

BlocksNamed(ns, bs) ==
  \A b \in 1..Len(bs) :
    NameOf(ns, bs, b) \in Names /\ ns[bs[b].node].prop \in Nat

Typed(bs, sc, an) ==
  /\ sc \in Seq(Scope) /\ Len(sc) > 0
  /\ an \in Seq(Anchor) /\ Len(an) <= Len(bs) /\ Len(bs) \in Nat

LEMMA SegmentIsSegment ==
  ASSUME NEW s \in Names, NEW j \in Nat \ {0}
  PROVE  Segment(s, j) \in Segments
<1>1. s = [text |-> s.text, nums |-> s.nums] /\ s.nums \in Seq(Nat)
  BY NamesAreNumbered
<1>2. CASE j = 1
  BY <1>2, NamesAreSegments DEF Segment
<1>3. CASE j # 1
  <2>1. Append(s.nums, j) \in Seq(Nat)
    BY <1>1, AppendProperties
  <2>2. Segment(s, j) = [s EXCEPT !.nums = Append(s.nums, j)]
    BY <1>3 DEF Segment
  <2>3. Segment(s, j) = [text |-> s.text, nums |-> Append(s.nums, j)]
    BY <2>2, <1>1
  <2> QED BY <2>1, <2>3 DEF Segments
<1> QED BY <1>2, <1>3

(* A new scope, and a scope with one more name counted.                    *)
LEMMA ScopeIsNew ==
  ASSUME NEW d \in Nat, NEW path \in Paths
  PROVE  /\ NewScope(d, path) \in Scope
         /\ NewScope(d, path).depth = d /\ NewScope(d, path).path = path
<1> DEFINE S == Seq(Names)
<1>1. <<>> \in S
  BY EmptySeq
<1> HIDE DEF S
<1>2. Scope = [depth : Nat, path : Paths, children : S, types : S]
  BY DEF Scope, S
<1> QED BY <1>1, <1>2 DEF NewScope

LEMMA ScopeCounts ==
  ASSUME NEW s \in Scope, NEW name \in Names
  PROVE  /\ LET t == [s EXCEPT !.children = Append(s.children, name)]
            IN  /\ t \in Scope /\ t.children = Append(s.children, name)
                /\ t.path = s.path /\ t.types = s.types /\ t.depth = s.depth
         /\ LET t == [s EXCEPT !.types = Append(s.types, name)]
            IN  /\ t \in Scope /\ t.types = Append(s.types, name)
                /\ t.path = s.path /\ t.children = s.children
                /\ t.depth = s.depth
<1> DEFINE S == Seq(Names)
           more == Append(s.children, name)
           mort == Append(s.types, name)
<1>1. s.children \in S /\ s.types \in S
  BY DEF Scope
<1>2. more \in S /\ mort \in S
  BY <1>1, AppendProperties
<1> HIDE DEF S, more, mort
<1>3. Scope = [depth : Nat, path : Paths, children : S, types : S]
  BY DEF Scope, S
<1>4. LET t == [s EXCEPT !.children = more]
      IN  /\ t \in Scope /\ t.children = more
          /\ t.path = s.path /\ t.types = s.types /\ t.depth = s.depth
  BY <1>2, <1>3
<1>5. LET t == [s EXCEPT !.types = mort]
      IN  /\ t \in Scope /\ t.types = mort
          /\ t.path = s.path /\ t.children = s.children /\ t.depth = s.depth
  BY <1>2, <1>3
<1> QED BY <1>4, <1>5 DEF more, mort

LEMMA HeadingFacts ==
  ASSUME Typed(blocks, scopes, anchors), BlocksNamed(nodes, blocks),
         AnchorHeading
  PROVE  \E k \in 1..Len(scopes), path \in Paths :
           /\ IsLeft(k, Prop)
           /\ Entered(scopes, scopes', k, Name, path)
           /\ \A i \in 1..k : scopes'[i].depth = scopes[i].depth
           /\ scopes'[k + 1].depth = Prop
           /\ anchors' = Append(anchors, [path |-> path, nth |-> 0])
<1> DEFINE m == Len(anchors) + 1
<1>1. /\ scopes \in Seq(Scope) /\ Len(scopes) \in Nat /\ anchors \in Seq(Anchor)
      /\ m \in 1..Len(blocks)
  BY LenProperties DEF Typed, AnchorHeading, Working
<1>2. Name \in Names /\ Prop \in Nat
  BY <1>1 DEF BlocksNamed, NameOf, Name, Prop, Block
<1>3. PICK k \in 1..Len(scopes) :
        /\ IsLeft(k, Prop)
        /\ LET path == Joined(scopes[k].path,
                              Segment(Name, Number(scopes[k].children, Name)))
               kept == [SubSeq(scopes, 1, k) EXCEPT
                          ![k].children = Append(@, Name)]
           IN  /\ anchors' = Append(anchors, [path |-> path, nth |-> 0])
               /\ scopes' = Append(kept, NewScope(Prop, path))
  BY DEF AnchorHeading
<1> DEFINE T == Scope
           x == Segment(Name, Number(scopes[k].children, Name))
           path == Joined(scopes[k].path, x)
           base == SubSeq(scopes, 1, k)
           item == [base[k] EXCEPT !.children = Append(@, Name)]
           kept == [base EXCEPT ![k] = item]
           top == NewScope(Prop, path)
<1>4. k \in Nat /\ k >= 1 /\ \A i \in 1..k : scopes[i] \in Scope
  <2>1. \A i \in 1..k : i \in 1..Len(scopes)
    BY <1>1
  <2> QED BY <2>1, <1>1, ScopesAndAnchors
<1>5. path \in Paths
  <2>1. scopes[k] \in Scope /\ scopes[k].path \in Paths
    BY <1>1, ScopesAndAnchors
  <2>2. scopes[k].children \in Seq(Names)
    BY <2>1 DEF Scope
  <2> DEFINE n == Number(scopes[k].children, Name)
  <2>3. n \in Nat \ {0}
    BY <2>2, <1>2, NumberGrows
  <2> HIDE DEF n
  <2>4. x \in Segments
    BY <2>3, <1>2, SegmentIsSegment DEF n
  <2> HIDE DEF x
  <2> QED BY <2>1, <2>4, JoinedPath
<1>6. /\ base \in Seq(T) /\ Len(base) = k
      /\ \A i \in 1..k : base[i] = scopes[i] /\ base[i] \in T
  <2>1. \A i \in 1..k : scopes[i] \in T
    BY <1>4
  <2> HIDE DEF T
  <2>2. /\ base \in Seq(T) /\ Len(base) = IF 1 <= k THEN k - 1 + 1 ELSE 0
        /\ \A i \in 1..k - 1 + 1 : base[i] = scopes[1 + i - 1]
    BY <2>1, <1>4, SubSeqProperties
  <2>3. Len(base) = k /\ \A i \in 1..k : base[i] = scopes[i]
    BY <2>2, <1>4
  <2> QED BY <2>1, <2>2, <2>3
<1>7. k \in 1..k
  BY <1>4
<1>8. /\ item \in T /\ item.children = Append(scopes[k].children, Name)
      /\ item.path = scopes[k].path /\ item.types = scopes[k].types
      /\ item.depth = scopes[k].depth
  <2> HIDE DEF base
  <2>1. base[k] = scopes[k] /\ scopes[k] \in Scope
    BY <1>6, <1>7
  <2> DEFINE s == scopes[k]
             more == Append(s.children, Name)
  <2>2. item = [s EXCEPT !.children = more]
    BY <2>1
  <2> HIDE DEF item, s
  <2>3. s \in Scope
    BY <2>1 DEF s
  <2>4. /\ item \in Scope /\ item.children = more
        /\ item.path = s.path /\ item.types = s.types /\ item.depth = s.depth
    BY <2>2, <2>3, <1>2, ScopeCounts
  <2> QED BY <2>4 DEF s
<1>9. top \in T /\ top.path = path /\ top.depth = Prop
  <2> HIDE DEF path
  <2> QED BY <1>2, <1>5, ScopeIsNew
<1>10. /\ scopes' = Append(kept, top)
       /\ anchors' = Append(anchors, [path |-> path, nth |-> 0])
  BY <1>3
<1> HIDE DEF T, path, base, item, top
<1>11. /\ kept \in Seq(T) /\ Len(kept) = k
       /\ \A i \in 1..k : kept[i] = IF i = k THEN item ELSE scopes[i]
  BY <1>6, <1>7, <1>8, ExceptSeq
<1> HIDE DEF kept
<1>12. /\ scopes' \in Seq(T) /\ Len(scopes') = k + 1
       /\ \A i \in 1..k : scopes'[i] = IF i = k THEN item ELSE scopes[i]
       /\ scopes'[k + 1] = top
  BY <1>9, <1>10, <1>11, AppendProperties
<1>13. Entered(scopes, scopes', k, Name, path)
  <2>1. path = Joined(scopes[k].path,
                      Segment(Name, Number(scopes[k].children, Name)))
    BY DEF path
  <2>2. scopes' \in Seq(Scope)
    BY <1>12 DEF T
  <2>3. \A i \in 1..k : i # k => scopes'[i] = scopes[i]
    BY <1>12
  <2>4. scopes'[k] = item
    BY <1>7, <1>12
  <2> QED BY <2>1, <2>2, <2>3, <2>4, <1>8, <1>9, <1>12 DEF Entered
<1>14. \A i \in 1..k : scopes'[i].depth = scopes[i].depth
  BY <1>8, <1>12
<1>15. scopes'[k + 1].depth = Prop
  BY <1>9, <1>12
<1> QED BY <1>3, <1>5, <1>10, <1>13, <1>14, <1>15

LEMMA OtherFacts ==
  ASSUME Typed(blocks, scopes, anchors), BlocksNamed(nodes, blocks),
         AnchorOther
  PROVE  \E path \in Paths, n \in Nat :
           /\ Listed(scopes, scopes', Len(scopes), Name, path, n)
           /\ \A i \in 1..Len(scopes) : scopes'[i].depth = scopes[i].depth
           /\ anchors' = Append(anchors, [path |-> path, nth |-> n])
<1> DEFINE m == Len(anchors) + 1
           k == Len(scopes)
           T == Scope
           path == Append(scopes[k].path, Name)
           n == Number(scopes[k].types, Name)
           item == [scopes[k] EXCEPT !.types = Append(@, Name)]
<1>1. /\ scopes \in Seq(Scope) /\ k \in Nat /\ k \in 1..k
      /\ m \in 1..Len(blocks)
  BY LenProperties DEF Typed, AnchorOther, Working
<1>2. Name \in Names
  BY <1>1 DEF BlocksNamed, NameOf, Name, Block
<1>3. scopes[k] \in Scope /\ scopes[k].path \in Paths
  BY <1>1, ScopesAndAnchors
<1>4. path \in Paths
  BY <1>2, <1>3, NamesAreSegments, ContinuedIsShorter
<1>5. n \in Nat
  <2>1. scopes[k].types \in Seq(Names)
    BY <1>3 DEF Scope
  <2> QED BY <2>1, <1>2, NumberGrows
<1>6. /\ item \in T /\ item.types = Append(scopes[k].types, Name)
      /\ item.path = scopes[k].path /\ item.children = scopes[k].children
      /\ item.depth = scopes[k].depth
  <2> DEFINE s == scopes[k]
  <2> HIDE DEF s
  <2>1. s \in Scope
    BY <1>3 DEF s
  <2> QED BY <2>1, <1>2, ScopeCounts DEF s
<1>7. /\ scopes' = [scopes EXCEPT ![k] = item]
      /\ anchors' = Append(anchors, [path |-> path, nth |-> n])
  BY DEF AnchorOther
<1>8. scopes \in Seq(T)
  BY <1>1
<1> HIDE DEF T, k, item, path, n
<1>9. /\ scopes' \in Seq(T) /\ Len(scopes') = Len(scopes)
      /\ \A i \in 1..Len(scopes) :
           scopes'[i] = IF i = k THEN item ELSE scopes[i]
  BY <1>1, <1>6, <1>7, <1>8, ExceptSeq DEF k
<1>10. Listed(scopes, scopes', k, Name, path, n)
  <2>1. path = Append(scopes[k].path, Name) /\ n = Number(scopes[k].types, Name)
    BY DEF path, n
  <2>2. scopes' \in Seq(Scope) /\ k = Len(scopes) /\ Len(scopes') = k
    BY <1>9 DEF T, k
  <2>3. \A i \in 1..k : i # k => scopes'[i] = scopes[i]
    BY <1>9, <2>2
  <2>4. scopes'[k] = item
    BY <1>1, <1>9, <2>2
  <2>5. /\ scopes'[k].path = scopes[k].path
        /\ scopes'[k].children = scopes[k].children
        /\ scopes'[k].types = Append(scopes[k].types, Name)
    BY <2>4, <1>6
  <2> QED BY <2>1, <2>2, <2>3, <2>5 DEF Listed
<1>11. \A i \in 1..Len(scopes) : scopes'[i].depth = scopes[i].depth
  BY <1>6, <1>9
<1> QED BY <1>4, <1>5, <1>7, <1>10, <1>11 DEF k

-----------------------------------------------------------------------------
(* The invariant of block_anchors, next to that of build_blocks.           *)

(* No text of a heading looks like the number of a repeated one.           *)
NoNumbers == \A i \in DOMAIN nodes : IsHeading(i) => nodes[i].name.nums = <<>>

(* No heading has the empty path. *)
NoneEmpty(an) == \A a \in 1..Len(an) : an[a].path # <<>>

AInv ==
  /\ Typed(blocks, scopes, anchors)
  /\ phase # "done" => anchors = <<>> /\ scopes = <<NewScope(0, <<>>)>>
  /\ NoNumbers /\ NoneEmpty(anchors)
       => PathsInv(nodes, blocks, scopes, anchors)

LEMMA BlocksAreNamed ==
  ASSUME NInv
  PROVE  /\ BlocksNamed(nodes, blocks) /\ Len(blocks) \in Nat
         /\ NoNumbers => NamedBlocks(nodes, blocks)
<1> DEFINE n == Len(nodes)
           R == [node : 1..n, pre : Nat, post : Nat]
<1>1. nodes \in Seq(Node) /\ blocks \in Seq(R)
  BY DEF NInv, IInv, Built
<1>2. \A b \in 1..Len(blocks) : blocks[b] \in R
  <2> HIDE DEF R
  <2> QED BY <1>1, ElementOfSeq
<1>3. \A b \in 1..Len(blocks) : blocks[b].node \in 1..n
  BY <1>2
<1>4. \A i \in 1..n : nodes[i] \in Node
  BY <1>1, ElementOfSeq
<1>5. DOMAIN nodes = 1..n /\ n \in Nat
  BY <1>1, LenProperties
<1>6. \A v \in Node : /\ v.name \in Names /\ v.prop \in Nat
                      /\ v.prop > 0 => v.kind = "heading" \/ v.name = NoName
  BY SizesAreNatural
     DEF Node, Heading, Frontmatter, Other, Skipped, Names
<1>7. ASSUME NoNumbers, NEW i \in 1..n, nodes[i].prop > 0
      PROVE  nodes[i].name.nums = <<>>
  <2>1. nodes[i].kind = "heading" \/ nodes[i].name = NoName
    BY <1>4, <1>6, <1>7
  <2>2. CASE nodes[i].kind = "heading"
    <3>1. IsHeading(i) /\ i \in DOMAIN nodes
      BY <2>2, <1>5 DEF IsHeading
    <3> QED BY <3>1, <1>7 DEF NoNumbers
  <2>3. CASE nodes[i].name = NoName
    BY <2>3, NamesAreNumbered
  <2> QED BY <2>1, <2>2, <2>3
<1>8. Len(blocks) \in Nat
  <2> HIDE DEF R
  <2> QED BY <1>1, LenProperties
<1> HIDE DEF n
<1>9. BlocksNamed(nodes, blocks)
  BY <1>3, <1>4, <1>6 DEF BlocksNamed, NameOf
<1>10. NoNumbers => NamedBlocks(nodes, blocks)
  BY <1>3, <1>7, <1>9 DEF BlocksNamed, NamedBlocks, NameOf, IsScope
<1> QED BY <1>8, <1>9, <1>10

(* Before the first block there are no paths.                              *)
LEMMA NoPathsYet ==
  ASSUME NEW ns, NEW bs, Len(bs) \in Nat
  PROVE  /\ Typed(bs, <<NewScope(0, <<>>)>>, <<>>)
         /\ PathsInv(ns, bs, <<NewScope(0, <<>>)>>, <<>>)
<1> DEFINE root == NewScope(0, <<>>)
           sc == <<root>>
           T == Scope
           A == Anchor
<1>1. <<>> \in Paths /\ Len(<<>>) = 0
  BY EmptySeq DEF Paths
<1>2. root \in T /\ root.path = <<>>
  BY <1>1, ScopeIsNew
<1> HIDE DEF root, T, A
<1>3. sc \in Seq(T) /\ Len(sc) = 1 /\ sc[1] = root
  BY <1>2
<1>4. <<>> \in Seq(A)
  BY EmptySeq
<1> HIDE DEF sc
<1>5. Typed(bs, sc, <<>>)
  BY <1>1, <1>3, <1>4 DEF Typed, T, A
<1>6. PathsInv(ns, bs, sc, <<>>)
  <2>1. \A i \in 1..Len(sc) : Len(sc[i].path) = i - 1
    BY <1>1, <1>2, <1>3
  <2>2. \A i \in 2..Len(sc) : FALSE
    BY <1>3
  <2>3. \A a \in 1..Len(<<>>) : FALSE
    BY <1>1
  <2> QED BY <1>1, <1>3, <1>4, <2>1, <2>2, <2>3 DEF PathsInv, T, A
<1> QED BY <1>5, <1>6 DEF sc, root

LEMMA AnchoredIsBuilt == AnchorSpec => []NInv
<1>1. AnchorInit => Init
  BY DEF AnchorInit
<1>2. [AnchorNext]_<<vars, avars>> => [Next]_vars
  BY DEF AnchorNext, AnchorHeading, AnchorOther
<1> QED BY <1>1, <1>2, NumbersInvariance, PTL DEF AnchorSpec, Spec

LEMMA AnchorInitInv == AnchorInit /\ NInv => AInv
<1> SUFFICES ASSUME AnchorInit, NInv PROVE AInv
  OBVIOUS
<1>1. Len(blocks) \in Nat
  BY BlocksAreNamed
<1>2. /\ Typed(blocks, <<NewScope(0, <<>>)>>, <<>>)
      /\ PathsInv(nodes, blocks, <<NewScope(0, <<>>)>>, <<>>)
  BY <1>1, NoPathsYet
<1> QED BY <1>2 DEF AInv, AnchorInit

(* A path that is empty stays so. *)
LEMMA EmptyStays ==
  ASSUME NEW an \in Seq(Anchor), NEW path \in Paths, NEW n \in Nat,
         NoneEmpty(Append(an, [path |-> path, nth |-> n]))
  PROVE  NoneEmpty(an) /\ path # <<>>
<1> DEFINE new == [path |-> path, nth |-> n]
           an2 == Append(an, new)
<1>1. new \in Anchor /\ new.path = path
  BY DEF Anchor
<1> HIDE DEF new
<1>2. /\ Len(an2) = Len(an) + 1 /\ Len(an) \in Nat
      /\ \A a \in 1..Len(an) : an2[a] = an[a]
      /\ an2[Len(an) + 1] = new
  BY <1>1, OneAnchorMore
<1>3. NoneEmpty(an2)
  BY DEF new
<1> HIDE DEF an2
<1>4. \A a \in 1..Len(an) : a \in 1..Len(an2)
  BY <1>2
<1>5. Len(an) + 1 \in 1..Len(an2)
  BY <1>2
<1> QED BY <1>1, <1>2, <1>3, <1>4, <1>5 DEF NoneEmpty

LEMMA HeadingKeepsAnchors == AInv /\ NInv /\ AnchorHeading => AInv'
<1> SUFFICES ASSUME AInv, NInv, AnchorHeading PROVE AInv'
  OBVIOUS
<1> DEFINE m == Len(anchors) + 1
<1>1. BlocksNamed(nodes, blocks) /\ Typed(blocks, scopes, anchors)
  BY BlocksAreNamed DEF AInv
<1>2. PICK k \in 1..Len(scopes), path \in Paths :
        /\ Entered(scopes, scopes', k, Name, path)
        /\ anchors' = Append(anchors, [path |-> path, nth |-> 0])
  BY <1>1, HeadingFacts
<1>3. /\ nodes' = nodes /\ blocks' = blocks /\ phase' = phase /\ phase = "done"
      /\ Len(anchors) < Len(blocks) /\ Prop > 0 /\ m = Len(anchors) + 1
  BY DEF AnchorHeading, Working, vars
<1>4. Typed(blocks, scopes', anchors')
  <2> DEFINE new == [path |-> path, nth |-> 0]
  <2>1. new \in Anchor
    BY DEF Anchor
  <2> HIDE DEF new
  <2>2. anchors \in Seq(Anchor) /\ Len(anchors) \in Nat
    BY <1>1, LenProperties DEF Typed
  <2>3. anchors' \in Seq(Anchor) /\ Len(anchors') = Len(anchors) + 1
    BY <1>2, <2>1, <2>2, AppendProperties DEF new
  <2>4. scopes' \in Seq(Scope) /\ Len(scopes') > 0
    BY <1>2 DEF Entered
  <2>5. Len(blocks) \in Nat
    BY <1>1 DEF Typed
  <2> QED BY <2>2, <2>3, <2>4, <2>5, <1>3 DEF Typed
<1>7. anchors \in Seq(Anchor)
  BY <1>1 DEF Typed
<1>5. ASSUME NoNumbers, NoneEmpty(anchors')
      PROVE  PathsInv(nodes, blocks, scopes', anchors')
  <2>1. NamedBlocks(nodes, blocks) /\ Len(blocks) \in Nat
    BY <1>5, BlocksAreNamed
  <2>4. NoneEmpty(anchors) /\ path # <<>>
    BY <1>2, <1>5, <1>7, EmptyStays
  <2>2. PathsInv(nodes, blocks, scopes, anchors)
    BY <1>5, <2>4 DEF AInv
  <2>3. IsScope(nodes, blocks, m) /\ Name = NameOf(nodes, blocks, m)
    BY <1>3 DEF IsScope, NameOf, Prop, Name, Block
  <2> QED BY <1>2, <1>3, <2>1, <2>2, <2>3, <2>4, HeadingKeepsPaths
<1>6. NoNumbers' <=> NoNumbers
  BY <1>3 DEF NoNumbers, IsHeading
<1> QED BY <1>3, <1>4, <1>5, <1>6 DEF AInv

LEMMA OtherKeepsAnchors == AInv /\ NInv /\ AnchorOther => AInv'
<1> SUFFICES ASSUME AInv, NInv, AnchorOther PROVE AInv'
  OBVIOUS
<1> DEFINE m == Len(anchors) + 1
           k == Len(scopes)
<1>1. BlocksNamed(nodes, blocks) /\ Typed(blocks, scopes, anchors)
  BY BlocksAreNamed DEF AInv
<1>2. PICK path \in Paths, n \in Nat :
        /\ Listed(scopes, scopes', k, Name, path, n)
        /\ anchors' = Append(anchors, [path |-> path, nth |-> n])
  BY <1>1, OtherFacts
<1>3. /\ nodes' = nodes /\ blocks' = blocks /\ phase' = phase /\ phase = "done"
      /\ Len(anchors) < Len(blocks) /\ Prop = 0 /\ m = Len(anchors) + 1
  BY DEF AnchorOther, Working, vars
<1>4. Typed(blocks, scopes', anchors')
  <2> DEFINE new == [path |-> path, nth |-> n]
  <2>1. new \in Anchor
    BY DEF Anchor
  <2> HIDE DEF new
  <2>2. anchors \in Seq(Anchor) /\ Len(anchors) \in Nat /\ Len(scopes) > 0
    BY <1>1, LenProperties DEF Typed
  <2>3. anchors' \in Seq(Anchor) /\ Len(anchors') = Len(anchors) + 1
    BY <1>2, <2>1, <2>2, AppendProperties DEF new
  <2>4. scopes' \in Seq(Scope) /\ Len(scopes') > 0
    BY <1>2, <2>2 DEF Listed
  <2>5. Len(blocks) \in Nat
    BY <1>1 DEF Typed
  <2> QED BY <2>2, <2>3, <2>4, <2>5, <1>3 DEF Typed
<1>7. anchors \in Seq(Anchor)
  BY <1>1 DEF Typed
<1>5. ASSUME NoNumbers, NoneEmpty(anchors')
      PROVE  PathsInv(nodes, blocks, scopes', anchors')
  <2>1. NamedBlocks(nodes, blocks) /\ Len(blocks) \in Nat
    BY <1>5, BlocksAreNamed
  <2>4. NoneEmpty(anchors) /\ path # <<>>
    BY <1>2, <1>5, <1>7, EmptyStays
  <2>2. PathsInv(nodes, blocks, scopes, anchors)
    BY <1>5, <2>4 DEF AInv
  <2>3. ~IsScope(nodes, blocks, m) /\ Name = NameOf(nodes, blocks, m)
    BY <1>3 DEF IsScope, NameOf, Prop, Name, Block
  <2> QED BY <1>2, <1>3, <2>1, <2>2, <2>3, OtherKeepsPaths
<1>6. NoNumbers' <=> NoNumbers
  BY <1>3 DEF NoNumbers, IsHeading
<1> QED BY <1>3, <1>4, <1>5, <1>6 DEF AInv

(* build_blocks comes first, and leaves the document as it is.             *)
LEMMA NextComesFirst == Next => phase # "done" /\ nodes' = nodes
BY DEF Next, AddHeading, AddOther, StartNumbers, Enter, Leave, StartBlocks,
       BuildBlock, SkipNode, Finish

LEMMA BlocksAreCounted == NInv' => Len(blocks') \in Nat
<1> DEFINE Says == Len(blocks) \in Nat
<1>1. NInv => Says
  BY BlocksAreNamed
<1> HIDE DEF Says
<1>2. NInv' => Says'
  BY <1>1, PTL
<1> QED BY <1>2 DEF Says

LEMMA BuildingKeepsAnchors ==
  AInv /\ NInv' /\ Next /\ UNCHANGED avars => AInv'
<1> SUFFICES ASSUME AInv, NInv', Next, UNCHANGED avars PROVE AInv'
  OBVIOUS
<1>1. Len(blocks') \in Nat
  BY BlocksAreCounted
<1>2. scopes' = <<NewScope(0, <<>>)>> /\ anchors' = <<>>
  BY NextComesFirst DEF AInv, avars
<1>3. Typed(blocks', scopes', anchors')
      /\ PathsInv(nodes', blocks', scopes', anchors')
  BY <1>1, <1>2, NoPathsYet
<1> QED BY <1>2, <1>3 DEF AInv

(* The invariant of block_anchors: the scopes on its stack count all that  *)
(* was given a path in them.                                               *)
THEOREM AnchorInvariance == AnchorSpec => []AInv
<1>1. AnchorInit => Init
  BY DEF AnchorInit
<1>2. AInv /\ NInv /\ NInv' /\ [AnchorNext]_<<vars, avars>> => AInv'
  <2> SUFFICES ASSUME AInv, NInv, NInv', [AnchorNext]_<<vars, avars>>
               PROVE  AInv'
    OBVIOUS
  <2>1. CASE UNCHANGED <<vars, avars>>
    BY <2>1 DEF AInv, Typed, NoNumbers, IsHeading, vars, avars
  <2>2. CASE AnchorNext
    BY <2>2, HeadingKeepsAnchors, OtherKeepsAnchors, BuildingKeepsAnchors
       DEF AnchorNext
  <2> QED BY <2>1, <2>2
<1>3. AnchorInit => NInv
  BY <1>1, InitNumbers
<1> QED BY <1>2, <1>3, AnchorInitInv, AnchoredIsBuilt, PTL DEF AnchorSpec

LEMMA InvIdentifies == AInv /\ NInv => AnchorsIdentify
<1> SUFFICES ASSUME AInv, NInv, Anchored, NoNumbers, ~AnchorsRestart,
                    NEW a \in DOMAIN blocks, NEW b \in DOMAIN blocks,
                    anchors[a] = anchors[b]
             PROVE  a = b
  BY DEF AnchorsIdentify, NoNumbers
<1>1. DOMAIN blocks = 1..Len(blocks) /\ Len(blocks) = Len(anchors)
  BY LenProperties DEF NInv, IInv, Built, Anchored
<1>3. NoneEmpty(anchors)
  BY <1>1 DEF NoneEmpty, AnchorsRestart
<1>2. \A c, d \in 1..Len(anchors) : anchors[c] = anchors[d] => c = d
  BY <1>3 DEF AInv, PathsInv
<1> QED BY <1>1, <1>2

(* No two blocks get the same anchor: the counters of block_anchors.  Two  *)
(* kinds of documents are excepted, those where the text of a heading      *)
(* looks like the number of a repeated one, and those with a heading       *)
(* without text at the root, whose section repeats the root's paths.       *)
THEOREM AnchorsAreKeys == AnchorSpec => []AnchorsIdentify
BY AnchorInvariance, AnchoredIsBuilt, InvIdentifies, PTL

-----------------------------------------------------------------------------
(* The sections that block_anchors finds: its stack is that of the open    *)
(* sections after the last block that got an anchor.                       *)

LastNode(bs, m) == IF m = 0 THEN 0 ELSE bs[m].node

(* p is the path of the section of slot s. *)
PathOf(bs, an, s, p) ==
  \/ s = 0 /\ p = <<>>
  \/ \E a \in 1..Len(an) : bs[a].node = s /\ an[a].path = p

(* Block b has a path in the innermost section around it. *)
Placed(ns, bs, an, b) ==
  \E s \in Nat : /\ Parent(ns, s, bs[b].node)
                 /\ PathOf(bs, an, s, Cut(an[b].path))

Stacks(ns, bs, sc, an, op) ==
  /\ Opened(ns, LastNode(bs, Len(an)), op)
  /\ Len(op) = Len(sc)
  /\ \A i \in 1..Len(sc) : /\ sc[i].depth = D(ns, op[i])
                           /\ PathOf(bs, an, op[i], sc[i].path)

SectionsInv(ns, bs, sc, an) ==
  /\ \E op : Stacks(ns, bs, sc, an, op)
  /\ \A b \in 1..Len(an) : Placed(ns, bs, an, b)

(* Only headings have a property depth. *)
OnlyHeadings(ns) ==
  \A i \in 1..Len(ns) : ns[i].prop > 0 <=> ns[i].kind = "heading"

LEMMA SkippedBetween ==
  ASSUME NEW ns, NEW n \in Nat, NEW bs, Len(bs) \in Nat, Shown(ns, n, bs),
         NEW m \in Nat, m < Len(bs)
  PROVE  /\ bs[m + 1].node \in 1..n
         /\ LastNode(bs, m) \in 0..bs[m + 1].node - 1
         /\ \A c \in LastNode(bs, m) + 1..bs[m + 1].node - 1 : ~H(ns, c)
<1>1. /\ \A i \in 1..Len(bs) : bs[i].node \in 1..n
      /\ \A i, j \in 1..Len(bs) : i < j => bs[i].node < bs[j].node
      /\ \A b \in 1..n : ns[b].kind # "skipped"
                           => \E i \in 1..Len(bs) : bs[i].node = b
  BY DEF Shown
<1>2. m + 1 \in 1..Len(bs) /\ (m # 0 => m \in 1..Len(bs))
  OBVIOUS
<1>3. bs[m + 1].node \in 1..n
  BY <1>1, <1>2
<1>4. LastNode(bs, m) \in 0..bs[m + 1].node - 1
  <2>1. CASE m = 0
    BY <2>1, <1>3 DEF LastNode
  <2>2. CASE m # 0
    <3>1. bs[m].node < bs[m + 1].node /\ bs[m].node \in 1..n
      BY <2>2, <1>1, <1>2
    <3> QED BY <3>1, <2>2, <1>3 DEF LastNode
  <2> QED BY <2>1, <2>2
<1>5. ASSUME NEW c \in LastNode(bs, m) + 1..bs[m + 1].node - 1, H(ns, c)
      PROVE  FALSE
  <2>1. c \in 1..n /\ LastNode(bs, m) < c /\ c < bs[m + 1].node
    BY <1>3, <1>4
  <2>2. PICK i \in 1..Len(bs) : bs[i].node = c
    BY <2>1, <1>1, <1>5 DEF H
  <2>3. CASE i <= m
    <3>1. m # 0 /\ (i < m => bs[i].node < bs[m].node)
      BY <2>3, <1>1, <1>2
    <3>2. LastNode(bs, m) = bs[m].node /\ bs[m].node \in 1..n
      BY <3>1, <1>1, <1>2 DEF LastNode
    <3>3. bs[i].node <= bs[m].node
      BY <2>2, <2>3, <3>1, <3>2, <2>1
    <3> QED BY <3>2, <3>3, <2>1, <2>2
  <2>4. CASE i > m
    <3>1. i > m + 1 => bs[m + 1].node < bs[i].node
      BY <1>1, <1>2
    <3> QED BY <3>1, <2>1, <2>2, <2>4, <1>3
  <2> QED BY <2>3, <2>4
<1>6. \A c \in LastNode(bs, m) + 1..bs[m + 1].node - 1 : ~H(ns, c)
  BY <1>5
<1> QED BY <1>3, <1>4, <1>6

(* Nodes that are no headings leave the sections as they are. *)
LEMMA OpenedAdvances ==
  ASSUME NEW ns, NEW k \in Nat, NEW j \in Nat, k <= j, NEW op,
         Opened(ns, k, op), \A c \in k + 1..j : ~H(ns, c)
  PROVE  Opened(ns, j, op)
<1>1. op \in Seq(0..k) /\ \A i \in 1..Len(op) : op[i] \in 0..k
  BY ElementOfSeq DEF Opened
<1>2. op \in Seq(0..j)
  <2>1. 0..k \subseteq 0..j
    OBVIOUS
  <2> QED BY <1>1, <2>1, SeqMonotonic
<1>3. \A a \in 0..k : StillOpen(ns, a, k) <=> StillOpen(ns, a, j)
  <2>1. \A c \in k + 1..j : ~H(ns, c)
    OBVIOUS
  <2>2. \A a \in 0..k : \A c : c \in a + 1..j <=> c \in a + 1..k \/ c \in k + 1..j
    OBVIOUS
  <2>3. \A a \in 0..k : a \in 0..j
    OBVIOUS
  <2> QED BY <2>1, <2>2, <2>3 DEF StillOpen
<1>4. \A a \in 0..j : StillOpen(ns, a, j) => a \in 0..k
  <2>1. \A a \in 0..j : a \in 0..k \/ a \in k + 1..j
    OBVIOUS
  <2> QED BY <2>1 DEF StillOpen
<1>5. \A i \in 1..Len(op) : StillOpen(ns, op[i], j)
  BY <1>1, <1>3 DEF Opened
<1>6. \A a \in 0..j : StillOpen(ns, a, j) => \E i \in 1..Len(op) : op[i] = a
  BY <1>3, <1>4 DEF Opened
<1> QED BY <1>2, <1>5, <1>6 DEF Opened

(* The root is the first open section. *)
LEMMA RootIsOpen ==
  ASSUME NEW ns \in Seq(Node), NEW k \in 0..Len(ns), NEW op, Opened(ns, k, op)
  PROVE  op[1] = 0
<1>1. /\ op \in Seq(0..k) /\ Len(op) \in Nat /\ 1 \in 1..Len(op)
      /\ k \in Nat /\ Len(ns) \in Nat
  BY LenProperties DEF Opened
<1>2. StillOpen(ns, 0, k)
  <2>1. \A c \in 1..k : H(ns, c) => D(ns, c) > 0
    BY <1>1, NodeDepth
  <2> QED BY <2>1, <1>1 DEF StillOpen, D
<1>3. PICK i \in 1..Len(op) : op[i] = 0
  BY <1>1, <1>2 DEF Opened
<1>4. op[1] \in 0..k
  BY <1>1, ElementOfSeq
<1>5. 1 < i => op[1] < op[i]
  BY <1>1 DEF Opened
<1> QED BY <1>1, <1>3, <1>4, <1>5

(* More anchors, the same paths. *)
LEMMA PathsStay ==
  ASSUME NEW bs, NEW an \in Seq(Anchor), NEW new \in Anchor
  PROVE  /\ \A s, p : PathOf(bs, an, s, p) => PathOf(bs, Append(an, new), s, p)
         /\ \A ns : \A b \in 1..Len(an) :
              Placed(ns, bs, an, b) => Placed(ns, bs, Append(an, new), b)
<1> DEFINE an2 == Append(an, new)
<1>1. /\ Len(an) \in Nat /\ Len(an2) = Len(an) + 1
      /\ \A a \in 1..Len(an) : an2[a] = an[a]
  BY AppendProperties, LenProperties
<1> HIDE DEF an2
<1>2. \A a \in 1..Len(an) : a \in 1..Len(an2)
  BY <1>1
<1>3. \A s, p : PathOf(bs, an, s, p) => PathOf(bs, an2, s, p)
  BY <1>1, <1>2 DEF PathOf
<1>4. \A ns : \A b \in 1..Len(an) :
        Placed(ns, bs, an, b) => Placed(ns, bs, an2, b)
  BY <1>1, <1>3 DEF Placed
<1> QED BY <1>3, <1>4 DEF an2

LEMMA HeadingKeepsSections ==
  ASSUME NEW ns \in Seq(Node), NEW bs, NEW sc, NEW an, NEW sc2, NEW k,
         NEW path \in Paths, NEW name \in Names, NEW q,
         Shown(ns, Len(ns), bs), OnlyHeadings(ns), Typed(bs, sc, an),
         SectionsInv(ns, bs, sc, an), Len(an) < Len(bs),
         q = bs[Len(an) + 1].node, ns[q].prop > 0,
         k = 1 \/ sc[k].depth < ns[q].prop,
         \A i \in k+1..Len(sc) : sc[i].depth >= ns[q].prop,
         Entered(sc, sc2, k, name, path),
         \A i \in 1..k : sc2[i].depth = sc[i].depth,
         sc2[k + 1].depth = ns[q].prop
  PROVE  SectionsInv(ns, bs, sc2, Append(an, [path |-> path, nth |-> 0]))
<1> DEFINE m == Len(an) + 1
           new == [path |-> path, nth |-> 0]
           an2 == Append(an, new)
           x == Segment(name, Number(sc[k].children, name))
<1>1. /\ sc \in Seq(Scope) /\ Len(sc) \in Nat /\ an \in Seq(Anchor)
      /\ Len(an) \in Nat /\ Len(bs) \in Nat /\ Len(ns) \in Nat
  BY LenProperties DEF Typed
<1>2. /\ k \in 1..Len(sc) /\ k \in Nat /\ Len(sc2) = k + 1
      /\ \A i \in 1..k : sc2[i].path = sc[i].path
      /\ sc2[k + 1].path = path /\ path = Joined(sc[k].path, x)
  <2>1. k \in Nat /\ k \in 1..Len(sc)
    BY <1>1 DEF Entered
  <2> QED BY <2>1 DEF Entered
<1>3. sc[k].path \in Paths /\ x \in Segments
  <2>1. sc[k] \in Scope /\ sc[k].path \in Paths
    BY <1>1, <1>2, ScopesAndAnchors
  <2> DEFINE n == Number(sc[k].children, name)
  <2>2. n \in Nat \ {0}
    <3>1. sc[k].children \in Seq(Names)
      BY <2>1 DEF Scope
    <3> QED BY <3>1, NumberGrows
  <2> HIDE DEF n
  <2>3. Segment(name, n) \in Segments
    BY <2>2, SegmentIsSegment
  <2> QED BY <2>1, <2>3 DEF n
<1>4. new \in Anchor /\ new.path = path
  BY DEF Anchor
<1> HIDE DEF new, x
<1>5. /\ Len(an2) = m /\ \A a \in 1..Len(an) : an2[a] = an[a]
      /\ an2[m] = new
  BY <1>1, <1>4, AppendProperties
<1>6. /\ \A s, p : PathOf(bs, an, s, p) => PathOf(bs, an2, s, p)
      /\ \A b \in 1..Len(an) : Placed(ns, bs, an, b) => Placed(ns, bs, an2, b)
  BY <1>1, <1>4, PathsStay
<1> HIDE DEF an2
<1>7. PICK op : Stacks(ns, bs, sc, an, op)
  BY DEF SectionsInv
<1> DEFINE v == LastNode(bs, Len(an))
<1>8. /\ q \in 1..Len(ns) /\ v \in 0..q - 1
      /\ \A c \in v + 1..q - 1 : ~H(ns, c)
  BY <1>1, SkippedBetween
<1>9. PICK j \in Nat : q = j + 1 /\ j < Len(ns)
  <2>1. q - 1 \in Nat /\ q = (q - 1) + 1 /\ q - 1 < Len(ns)
    BY <1>1, <1>8
  <2> QED BY <2>1
<1>10. Opened(ns, j, op)
  <2>1. v \in Nat /\ v <= j /\ \A c \in v + 1..j : ~H(ns, c)
    BY <1>8, <1>9
  <2>2. Opened(ns, v, op)
    BY <1>7 DEF Stacks
  <2> HIDE DEF v
  <2> QED BY <2>1, <2>2, OpenedAdvances
<1>11. /\ Len(op) = Len(sc)
       /\ \A i \in 1..Len(sc) : /\ sc[i].depth = D(ns, op[i])
                                /\ PathOf(bs, an, op[i], sc[i].path)
  BY <1>7 DEF Stacks
<1>12. H(ns, q) /\ D(ns, q) = ns[q].prop
  BY <1>8 DEF OnlyHeadings, H, D
<1>13. D(ns, op[k]) < D(ns, q)
  <2>1. CASE k = 1
    <3>1. op[k] = 0
      <4>1. j \in 0..Len(ns)
        BY <1>1, <1>9
      <4> QED BY <4>1, <2>1, <1>10, RootIsOpen
    <3> QED BY <3>1, <1>12 DEF D
  <2>2. CASE sc[k].depth < ns[q].prop
    BY <2>2, <1>2, <1>11, <1>12
  <2> QED BY <2>1, <2>2
<1>14. \A i \in k+1..Len(op) : D(ns, op[i]) >= D(ns, q)
  <2>1. \A i \in k+1..Len(op) : i \in 1..Len(sc) /\ i \in k+1..Len(sc)
    BY <1>2, <1>11
  <2> QED BY <2>1, <1>11, <1>12
<1> DEFINE op2 == Append(SubSeq(op, 1, k), q)
<1>15. Parent(ns, op[k], q) /\ Opened(ns, q, op2)
  <2>1. k \in 1..Len(op)
    BY <1>2, <1>11
  <2> QED BY <2>1, <1>9, <1>10, <1>12, <1>13, <1>14, OpenedByHeading
<1>16. /\ Len(op2) = k + 1 /\ \A i \in 1..k : op2[i] = op[i]
       /\ op2[k + 1] = q
  <2> DEFINE N == 0..j
             base == SubSeq(op, 1, k)
  <2>1. q \in Nat /\ \A i \in 1..k : op[i] \in Nat
    <3>1. \A i \in 1..Len(op) : op[i] \in 0..j
      BY <1>10, ElementOfSeq DEF Opened
    <3>2. \A i \in 1..k : i \in 1..Len(op)
      BY <1>2, <1>11
    <3> QED BY <3>1, <3>2, <1>9
  <2>2. /\ base \in Seq(Nat) /\ Len(base) = k
        /\ \A i \in 1..k : base[i] = op[i]
    BY <2>1, <1>2, SubSeqProperties
  <2> HIDE DEF base
  <2> QED BY <2>1, <2>2, AppendProperties DEF base
<1> HIDE DEF op2
<1>17. Stacks(ns, bs, sc2, an2, op2)
  <2>1. Opened(ns, LastNode(bs, Len(an2)), op2)
    BY <1>1, <1>5, <1>15 DEF LastNode
  <2>2. ASSUME NEW i \in 1..Len(sc2)
        PROVE  /\ sc2[i].depth = D(ns, op2[i])
               /\ PathOf(bs, an2, op2[i], sc2[i].path)
    <3>1. CASE i = k + 1
      <4>1. m \in 1..Len(an2) /\ bs[m].node = q /\ an2[m].path = path
        BY <1>1, <1>4, <1>5
      <4>2. sc2[i].path = path /\ op2[i] = q /\ sc2[i].depth = D(ns, q)
        BY <3>1, <1>2, <1>12, <1>16
      <4> QED BY <4>1, <4>2 DEF PathOf
    <3>2. CASE i # k + 1
      <4>1. i \in 1..k /\ i \in 1..Len(sc)
        BY <3>2, <1>2
      <4>2. sc2[i].depth = sc[i].depth /\ sc2[i].path = sc[i].path
        BY <4>1, <1>2
      <4>3. op2[i] = op[i]
        BY <4>1, <1>16
      <4> QED BY <4>1, <4>2, <4>3, <1>6, <1>11
    <3> QED BY <3>1, <3>2
  <2> QED BY <2>1, <2>2, <1>2, <1>16 DEF Stacks
<1>18. ASSUME NEW b \in 1..Len(an2)
       PROVE  Placed(ns, bs, an2, b)
  <2>1. CASE b \in 1..Len(an)
    BY <2>1, <1>6 DEF SectionsInv
  <2>2. CASE b = m
    <3>1. op[k] \in Nat
      <4>1. \A i \in 1..Len(op) : op[i] \in 0..j
        BY <1>10, ElementOfSeq DEF Opened
      <4> QED BY <4>1, <1>2, <1>11
    <3>2. Cut(an2[b].path) = sc[k].path /\ bs[b].node = q
      <4>1. Cut(Joined(sc[k].path, x)) = sc[k].path
        BY <1>3, JoinedPath
      <4> QED BY <4>1, <2>2, <1>2, <1>4, <1>5
    <3>3. PathOf(bs, an2, op[k], sc[k].path)
      BY <1>2, <1>6, <1>11
    <3> QED BY <3>1, <3>2, <3>3, <1>3, <1>15 DEF Placed
  <2> QED BY <2>1, <2>2, <1>1, <1>5
<1> QED BY <1>17, <1>18 DEF SectionsInv, an2, new

LEMMA OtherKeepsSections ==
  ASSUME NEW ns \in Seq(Node), NEW bs, NEW sc, NEW an, NEW sc2, NEW k,
         NEW path \in Paths, NEW name \in Names, NEW q, NEW n \in Nat,
         Shown(ns, Len(ns), bs), OnlyHeadings(ns), Typed(bs, sc, an),
         SectionsInv(ns, bs, sc, an), Len(an) < Len(bs),
         q = bs[Len(an) + 1].node, ns[q].prop = 0,
         Listed(sc, sc2, k, name, path, n),
         \A i \in 1..k : sc2[i].depth = sc[i].depth
  PROVE  SectionsInv(ns, bs, sc2, Append(an, [path |-> path, nth |-> n]))
<1> DEFINE m == Len(an) + 1
           new == [path |-> path, nth |-> n]
           an2 == Append(an, new)
<1>1. /\ sc \in Seq(Scope) /\ Len(sc) \in Nat /\ an \in Seq(Anchor)
      /\ Len(an) \in Nat /\ Len(bs) \in Nat /\ Len(ns) \in Nat
  BY LenProperties DEF Typed
<1>2. /\ k = Len(sc) /\ k \in 1..Len(sc) /\ k \in Nat /\ Len(sc2) = k
      /\ \A i \in 1..k : sc2[i].path = sc[i].path
      /\ path = Append(sc[k].path, name)
  <2>1. k = Len(sc) /\ k \in Nat /\ k \in 1..Len(sc)
    BY <1>1 DEF Listed, Typed
  <2> QED BY <2>1 DEF Listed
<1>3. sc[k].path \in Paths /\ name \in Segments
  BY <1>1, <1>2, ScopesAndAnchors, NamesAreSegments
<1>4. new \in Anchor /\ new.path = path
  BY DEF Anchor
<1> HIDE DEF new
<1>5. /\ Len(an2) = m /\ \A a \in 1..Len(an) : an2[a] = an[a]
      /\ an2[m] = new
  BY <1>1, <1>4, AppendProperties
<1>6. /\ \A s, p : PathOf(bs, an, s, p) => PathOf(bs, an2, s, p)
      /\ \A b \in 1..Len(an) : Placed(ns, bs, an, b) => Placed(ns, bs, an2, b)
  BY <1>1, <1>4, PathsStay
<1> HIDE DEF an2
<1>7. PICK op : Stacks(ns, bs, sc, an, op)
  BY DEF SectionsInv
<1> DEFINE v == LastNode(bs, Len(an))
<1>8. /\ q \in 1..Len(ns) /\ v \in 0..q - 1
      /\ \A c \in v + 1..q - 1 : ~H(ns, c)
  BY <1>1, SkippedBetween
<1>9. PICK j \in Nat : q = j + 1 /\ j < Len(ns)
  <2>1. q - 1 \in Nat /\ q = (q - 1) + 1 /\ q - 1 < Len(ns)
    BY <1>1, <1>8
  <2> QED BY <2>1
<1>10. Opened(ns, j, op)
  <2>1. v \in Nat /\ v <= j /\ \A c \in v + 1..j : ~H(ns, c)
    BY <1>8, <1>9
  <2>2. Opened(ns, v, op)
    BY <1>7 DEF Stacks
  <2> HIDE DEF v
  <2> QED BY <2>1, <2>2, OpenedAdvances
<1>11. /\ Len(op) = Len(sc)
       /\ \A i \in 1..Len(sc) : /\ sc[i].depth = D(ns, op[i])
                                /\ PathOf(bs, an, op[i], sc[i].path)
  BY <1>7 DEF Stacks
<1>12. ~H(ns, q)
  BY <1>8 DEF OnlyHeadings, H
<1>13. Parent(ns, op[k], q) /\ Opened(ns, q, op)
  <2>1. k = Len(op)
    BY <1>2, <1>11
  <2> QED BY <2>1, <1>9, <1>10, <1>12, OpenedByOther
<1>14. Stacks(ns, bs, sc2, an2, op)
  <2>1. Opened(ns, LastNode(bs, Len(an2)), op)
    BY <1>1, <1>5, <1>13 DEF LastNode
  <2>2. \A i \in 1..Len(sc2) : /\ sc2[i].depth = D(ns, op[i])
                               /\ PathOf(bs, an2, op[i], sc2[i].path)
    <3>1. TAKE i \in 1..Len(sc2)
    <3>2. i \in 1..k /\ i \in 1..Len(sc)
      BY <1>2
    <3>3. sc2[i].depth = sc[i].depth /\ sc2[i].path = sc[i].path
      BY <3>2, <1>2
    <3> QED BY <3>2, <3>3, <1>6, <1>11
  <2> QED BY <2>1, <2>2, <1>2, <1>11 DEF Stacks
<1>15. ASSUME NEW b \in 1..Len(an2)
       PROVE  Placed(ns, bs, an2, b)
  <2>1. CASE b \in 1..Len(an)
    BY <2>1, <1>6 DEF SectionsInv
  <2>2. CASE b = m
    <3>1. op[k] \in Nat
      <4>1. \A i \in 1..Len(op) : op[i] \in 0..j
        BY <1>10, ElementOfSeq DEF Opened
      <4> QED BY <4>1, <1>2, <1>11
    <3>2. Cut(an2[b].path) = sc[k].path /\ bs[b].node = q
      <4>1. Cut(Append(sc[k].path, name)) = sc[k].path
        BY <1>3, LastIsCutOff
      <4> QED BY <4>1, <2>2, <1>2, <1>4, <1>5
    <3>3. PathOf(bs, an2, op[k], sc[k].path)
      BY <1>2, <1>6, <1>11
    <3> QED BY <3>1, <3>2, <3>3, <1>3, <1>13 DEF Placed
  <2> QED BY <2>1, <2>2, <1>1, <1>5
<1> QED BY <1>14, <1>15 DEF SectionsInv, an2, new

LEMMA NoSectionsYet ==
  ASSUME NEW ns, NEW bs
  PROVE  SectionsInv(ns, bs, <<NewScope(0, <<>>)>>, <<>>)
<1> DEFINE root == NewScope(0, <<>>)
           sc == <<root>>
           op == <<0>>
<1>1. root.depth = 0 /\ root.path = <<>>
  BY DEF NewScope
<1> HIDE DEF root
<1>2. Len(sc) = 1 /\ sc[1] = root /\ Len(<<>>) = 0
  BY EmptySeq
<1> HIDE DEF sc
<1>3. Opened(ns, 0, op)
  <2>1. op \in Seq(0..0) /\ Len(op) = 1 /\ op[1] = 0
    OBVIOUS
  <2>2. StillOpen(ns, 0, 0)
    BY DEF StillOpen
  <2> HIDE DEF op
  <2> QED BY <2>1, <2>2 DEF Opened
<1>4. Len(op) = 1 /\ op[1] = 0
  OBVIOUS
<1> HIDE DEF op
<1>5. PathOf(bs, <<>>, op[1], sc[1].path) /\ sc[1].depth = D(ns, op[1])
  BY <1>1, <1>2, <1>4 DEF PathOf, D
<1>6. Stacks(ns, bs, sc, <<>>, op)
  BY <1>2, <1>3, <1>4, <1>5 DEF Stacks, LastNode
<1> QED BY <1>2, <1>6 DEF SectionsInv, sc, root
-----------------------------------------------------------------------------
(* The second invariant of block_anchors.                                  *)

(* Without a frontmatter key "depth". *)
Plain == \A i \in DOMAIN nodes : nodes[i].kind = "yaml" => nodes[i].prop = 0

BInv == Plain => SectionsInv(nodes, blocks, scopes, anchors)

LEMMA DoneBlocks ==
  ASSUME NInv, phase = "done"
  PROVE  /\ nodes \in Seq(Node) /\ Len(nodes) \in Nat
         /\ DOMAIN blocks = 1..Len(blocks)
         /\ Shown(nodes, Len(nodes), blocks)
         /\ \A b \in 1..Len(blocks) : /\ blocks[b].node \in 1..Len(nodes)
                                      /\ blocks[b].pre = pre[blocks[b].node]
         /\ Plain => OnlyHeadings(nodes)
<1>1. /\ nodes \in Seq(Node) /\ Len(nodes) \in Nat
      /\ DOMAIN blocks = 1..Len(blocks)
  BY LenProperties DEF NInv, IInv, Built
<1>2. Shown(nodes, Len(nodes), blocks)
  BY DEF NInv
<1>3. \A b \in 1..Len(blocks) : /\ blocks[b].node \in 1..Len(nodes)
                                /\ blocks[b].pre = pre[blocks[b].node]
  BY <1>2 DEF Shown, NInv, IInv, Built
<1>4. ASSUME Plain PROVE OnlyHeadings(nodes)
  <2>1. \A v \in Node : /\ v.kind = "heading" => v.prop > 0
                        /\ v.kind \notin {"heading", "yaml"} => v.prop = 0
    BY SizesAreNatural DEF Node, Heading, Frontmatter, Other, Skipped
  <2>2. \A i \in 1..Len(nodes) : nodes[i] \in Node
    BY <1>1, ElementOfSeq
  <2>3. \A i \in 1..Len(nodes) : nodes[i].kind = "yaml" => nodes[i].prop = 0
    BY <1>1, <1>4, LenProperties DEF Plain
  <2> QED BY <2>1, <2>2, <2>3 DEF OnlyHeadings
<1> QED BY <1>1, <1>2, <1>3, <1>4

LEMMA HeadingKeepsPlaces == AInv /\ NInv /\ BInv /\ AnchorHeading => BInv'
<1> SUFFICES ASSUME AInv, NInv, BInv, AnchorHeading, Plain'
             PROVE  SectionsInv(nodes, blocks, scopes, anchors)'
  BY DEF BInv
<1> DEFINE q == blocks[Len(anchors) + 1].node
<1>1. BlocksNamed(nodes, blocks) /\ Typed(blocks, scopes, anchors)
  BY BlocksAreNamed DEF AInv
<1>2. PICK k \in 1..Len(scopes), path \in Paths :
           /\ IsLeft(k, Prop)
           /\ Entered(scopes, scopes', k, Name, path)
           /\ \A i \in 1..k : scopes'[i].depth = scopes[i].depth
           /\ scopes'[k + 1].depth = Prop
           /\ anchors' = Append(anchors, [path |-> path, nth |-> 0])
  BY <1>1, HeadingFacts
<1>3. /\ nodes' = nodes /\ blocks' = blocks /\ phase = "done"
      /\ Len(anchors) < Len(blocks) /\ Prop > 0 /\ Prop = nodes[q].prop
  BY DEF AnchorHeading, Working, vars, Prop, Block
<1>4. Plain /\ OnlyHeadings(nodes) /\ nodes \in Seq(Node)
      /\ Shown(nodes, Len(nodes), blocks)
  BY <1>3, DoneBlocks DEF Plain
<1>5. Name \in Names
  <2>1. Len(anchors) + 1 \in 1..Len(blocks)
    BY <1>1, <1>3, LenProperties DEF Typed
  <2> QED BY <2>1, <1>1 DEF BlocksNamed, NameOf, Name, Block
<1>6. SectionsInv(nodes, blocks, scopes, anchors)
  BY <1>4 DEF BInv
<1>7. /\ k = 1 \/ scopes[k].depth < nodes[q].prop
      /\ \A i \in k+1..Len(scopes) : scopes[i].depth >= nodes[q].prop
      /\ nodes[q].prop > 0 /\ scopes'[k + 1].depth = nodes[q].prop
  BY <1>2, <1>3 DEF IsLeft
<1> HIDE DEF q
<1>8. q = blocks[Len(anchors) + 1].node
  BY DEF q
<1>9. SectionsInv(nodes, blocks, scopes', anchors')
  BY <1>1, <1>2, <1>3, <1>4, <1>5, <1>6, <1>7, <1>8, HeadingKeepsSections
<1> QED BY <1>3, <1>9

LEMMA OtherKeepsPlaces == AInv /\ NInv /\ BInv /\ AnchorOther => BInv'
<1> SUFFICES ASSUME AInv, NInv, BInv, AnchorOther, Plain'
             PROVE  SectionsInv(nodes, blocks, scopes, anchors)'
  BY DEF BInv
<1> DEFINE q == blocks[Len(anchors) + 1].node
           k == Len(scopes)
<1>1. BlocksNamed(nodes, blocks) /\ Typed(blocks, scopes, anchors)
  BY BlocksAreNamed DEF AInv
<1>2. PICK path \in Paths, n \in Nat :
           /\ Listed(scopes, scopes', k, Name, path, n)
           /\ \A i \in 1..k : scopes'[i].depth = scopes[i].depth
           /\ anchors' = Append(anchors, [path |-> path, nth |-> n])
  BY <1>1, OtherFacts
<1>3. /\ nodes' = nodes /\ blocks' = blocks /\ phase = "done"
      /\ Len(anchors) < Len(blocks) /\ Prop = 0 /\ Prop = nodes[q].prop
  BY DEF AnchorOther, Working, vars, Prop, Block
<1>4. Plain /\ OnlyHeadings(nodes) /\ nodes \in Seq(Node)
      /\ Shown(nodes, Len(nodes), blocks)
  BY <1>3, DoneBlocks DEF Plain
<1>5. Name \in Names
  <2>1. Len(anchors) + 1 \in 1..Len(blocks)
    BY <1>1, <1>3, LenProperties DEF Typed
  <2> QED BY <2>1, <1>1 DEF BlocksNamed, NameOf, Name, Block
<1>6. SectionsInv(nodes, blocks, scopes, anchors)
  BY <1>4 DEF BInv
<1>7. nodes[q].prop = 0
  BY <1>3
<1> HIDE DEF q, k
<1>8. q = blocks[Len(anchors) + 1].node
  BY DEF q
<1>9. SectionsInv(nodes, blocks, scopes', anchors')
  BY <1>1, <1>2, <1>3, <1>4, <1>5, <1>6, <1>7, <1>8, OtherKeepsSections
<1> QED BY <1>3, <1>9

(* The stack of block_anchors holds the sections that are open after the   *)
(* last block, and every anchor starts with that of the section around it. *)
THEOREM SectionsInvariance == AnchorSpec => []BInv
<1>1. AnchorInit => BInv
  BY NoSectionsYet DEF AnchorInit, BInv
<1>2. AInv /\ AInv' /\ NInv /\ BInv /\ [AnchorNext]_<<vars, avars>> => BInv'
  <2> SUFFICES ASSUME AInv, AInv', NInv, BInv, [AnchorNext]_<<vars, avars>>
               PROVE  BInv'
    OBVIOUS
  <2>1. CASE UNCHANGED <<vars, avars>>
    BY <2>1 DEF BInv, Plain, vars, avars
  <2>2. CASE Next /\ UNCHANGED avars
    <3>1. scopes' = <<NewScope(0, <<>>)>> /\ anchors' = <<>>
      BY <2>2, NextComesFirst DEF AInv, avars
    <3> QED BY <3>1, NoSectionsYet DEF BInv
  <2> QED BY <2>1, <2>2, HeadingKeepsPlaces, OtherKeepsPlaces DEF AnchorNext
<1> QED BY <1>1, <1>2, AnchorInvariance, AnchoredIsBuilt, PTL DEF AnchorSpec

LEMMA InvFollows == AInv /\ NInv /\ BInv => AnchorsFollowIntervals
<1> DEFINE Around(b) == {a \in DOMAIN blocks : Contains(blocks[a], blocks[b])}
<1> SUFFICES ASSUME AInv, NInv, BInv, Anchored, Plain, NEW b \in DOMAIN blocks
             PROVE  IF Around(b) = {} THEN Section(b) = <<>>
                    ELSE \E a \in Around(b) :
                           /\ \A c \in Around(b) : blocks[c].pre <= blocks[a].pre
                           /\ Section(b) = anchors[a].path
  BY DEF AnchorsFollowIntervals, Plain
<1> DEFINE n == Len(nodes)
           v == blocks[b].node
<1>1. /\ n \in Nat /\ DOMAIN blocks = 1..Len(blocks)
      /\ \A c \in 1..Len(blocks) : /\ blocks[c].node \in 1..n
                                   /\ blocks[c].pre = pre[blocks[c].node]
  BY DoneBlocks DEF Anchored
<1>2. Final(nodes, n, pre, post)
  BY DoneIsFinal DEF Anchored
<1>3. Len(anchors) = Len(blocks) /\ b \in 1..Len(anchors)
  BY <1>1 DEF Anchored
<1>4. \A a \in DOMAIN blocks : a \in Around(b) <=> U(nodes, blocks[a].node, v)
  <2>1. ContainsIsUnder
    BY InvContains DEF NInv
  <2>2. \A a \in DOMAIN blocks :
          Contains(blocks[a], blocks[b]) <=> Under(blocks[a].node, v)
    BY <2>1 DEF ContainsIsUnder, Anchored
  <2>3. \A c : Under(c, v) <=> U(nodes, c, v)
    BY DEF Under, U, IsHeading, Depth, H, D
  <2> QED BY <2>2, <2>3
<1> DEFINE p == Cut(anchors[b].path)
<1>5. PICK s \in Nat : /\ Parent(nodes, s, v)
                       /\ PathOf(blocks, anchors, s, p)
  BY <1>3 DEF BInv, SectionsInv, Placed
<1>6. Section(b) = p
  BY DEF Section, Cut
<1> HIDE DEF p
<1>7. \A a \in Around(b) : blocks[a].node \in 1..n /\ blocks[a].node <= s
  <2> SUFFICES ASSUME NEW a \in Around(b)
               PROVE  blocks[a].node \in 1..n /\ blocks[a].node <= s
    OBVIOUS
  <2>1. /\ a \in DOMAIN blocks /\ U(nodes, blocks[a].node, v)
        /\ blocks[a].node \in 1..n /\ v \in 1..n
    BY <1>1, <1>4
  <2>2. blocks[a].node \in 0..v - 1
    BY <2>1 DEF U
  <2> QED BY <2>1, <2>2, <1>5 DEF Parent
<1> HIDE DEF Around, v
<1>8. \A a \in Around(b) : a \in DOMAIN blocks
  BY DEF Around
<1>9. CASE s = 0 /\ p = <<>>
  <2>1. Around(b) = {}
    BY <1>7, <1>9
  <2> QED BY <2>1, <1>6, <1>9
<1>10. ASSUME NEW a \in 1..Len(anchors), blocks[a].node = s, anchors[a].path = p
       PROVE  IF Around(b) = {} THEN Section(b) = <<>>
                    ELSE \E d \in Around(b) :
                           /\ \A c \in Around(b) : blocks[c].pre <= blocks[d].pre
                           /\ Section(b) = anchors[d].path
  <2>1. a \in DOMAIN blocks /\ s \in 1..n /\ blocks[a].pre = pre[s]
    BY <1>1, <1>3, <1>10
  <2>2. a \in Around(b)
    BY <2>1, <1>4, <1>5, <1>10 DEF Parent
  <2>3. ASSUME NEW c \in Around(b)
        PROVE  blocks[c].pre <= blocks[a].pre
    <3> DEFINE w == blocks[c].node
    <3>1. w \in 1..n /\ w <= s /\ blocks[c].pre = pre[w]
      BY <1>1, <1>7, <1>8
    <3> HIDE DEF w
    <3>2. w \in 0..n /\ s \in 0..n
      BY <2>1, <3>1, <1>1
    <3>3. pre[w] \in Nat /\ pre[s] \in Nat /\ (w < s => pre[w] < pre[s])
      BY <3>2, <1>2 DEF Final
    <3>4. w = s \/ w < s
      BY <3>1, <2>1, <1>1
    <3>5. pre[w] <= pre[s]
      BY <3>3, <3>4
    <3> QED BY <3>1, <3>5, <2>1
  <2> QED BY <2>2, <2>3, <1>6, <1>10
<1> QED BY <1>5, <1>9, <1>10 DEF PathOf

(* Where no frontmatter has a key "depth", a block's anchor starts with    *)
(* the one of the innermost heading whose interval contains it, and with   *)
(* nothing where there is none: block_anchors, which keeps a stack of its  *)
(* own, and the numbers of build_blocks agree on the sections.             *)
THEOREM AnchorsFollow == AnchorSpec => []AnchorsFollowIntervals
BY SectionsInvariance, AnchorInvariance, AnchoredIsBuilt, InvFollows, PTL
=============================================================================
