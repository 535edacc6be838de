--------------------------- MODULE ViewLockProofs ---------------------------
(* Proofs of the safety properties of ViewLock. *)
EXTENDS ViewLock, TLAPS

(* A view that is not being resolved yet extends the path. *)
LEMMA PathGrows ==
  ASSUME NEW p \in Paths, NEW n \in Names, n \notin Range(p)
  PROVE  /\ Append(p, n) \in Paths
         /\ Len(Append(p, n)) = Len(p) + 1
         /\ \A i \in 1 .. Len(p) : Append(p, n)[i] = p[i]
         /\ Append(p, n)[Len(p) + 1] = n
<1>1. /\ p \in Seq(Names)
      /\ IsInjective(p)
      /\ DOMAIN p = 1 .. Len(p)
      /\ Len(p) \in Nat
  BY DEF Paths
<1>2. \A i \in 1 .. Len(p) : p[i] # n
  BY <1>1 DEF Range
<1>3. /\ Append(p, n) \in Seq(Names)
      /\ Len(Append(p, n)) = Len(p) + 1
      /\ DOMAIN Append(p, n) = 1 .. Len(p) + 1
      /\ \A i \in 1 .. Len(p) : Append(p, n)[i] = p[i]
      /\ Append(p, n)[Len(p) + 1] = n
  BY <1>1
<1>4. IsInjective(Append(p, n))
  BY <1>1, <1>2, <1>3 DEF IsInjective
<1> QED
  BY <1>3, <1>4 DEF Paths

(* Leaving the innermost view shortens the path by it. *)
LEMMA PathShrinks ==
  ASSUME NEW p \in Paths, p # <<>>
  PROVE  /\ SubSeq(p, 1, Len(p) - 1) \in Paths
         /\ Len(SubSeq(p, 1, Len(p) - 1)) = Len(p) - 1
         /\ \A i \in 1 .. Len(p) - 1 : SubSeq(p, 1, Len(p) - 1)[i] = p[i]
<1>1. /\ p \in Seq(Names)
      /\ IsInjective(p)
      /\ DOMAIN p = 1 .. Len(p)
      /\ Len(p) \in Nat \ {0}
  BY DEF Paths
<1> DEFINE q == SubSeq(p, 1, Len(p) - 1)
<1>2. /\ q \in Seq(Names)
      /\ Len(q) = Len(p) - 1
      /\ DOMAIN q = 1 .. Len(p) - 1
      /\ \A i \in 1 .. Len(p) - 1 : q[i] = p[i]
  BY <1>1
<1> HIDE DEF q
<1>3. IsInjective(q)
  BY <1>1, <1>2 DEF IsInjective
<1>4. q \in Paths
  BY <1>2, <1>3 DEF Paths
<1> QED
  BY <1>2, <1>4 DEF q

(* Changing the last element of a sequence leaves the others. *)
LEMMA LastChanges ==
  ASSUME NEW S, NEW t \in Seq(S), t # <<>>, NEW x \in S
  PROVE  /\ [t EXCEPT ![Len(t)] = x] \in Seq(S)
         /\ Len([t EXCEPT ![Len(t)] = x]) = Len(t)
         /\ [t EXCEPT ![Len(t)] = x][Len(t)] = x
         /\ \A i \in 1 .. Len(t) - 1 : [t EXCEPT ![Len(t)] = x][i] = t[i]
OBVIOUS

(* Sequences of the same length and the same elements are equal. *)
LEMMA SequencesEqual ==
  ASSUME NEW S, NEW a \in Seq(S), NEW b \in Seq(S), Len(a) = Len(b),
         \A i \in 1 .. Len(a) : a[i] = b[i]
  PROVE  a = b
OBVIOUS

(* Reading on in a query from the place it has reached. *)
LEMMA ReadingOn ==
  ASSUME NEW S, NEW q \in Seq(S), NEW k \in 0 .. Len(q),
         SubSeq(q, k + 1, Len(q)) # <<>>
  PROVE  /\ k + 1 \in 1 .. Len(q)
         /\ Head(SubSeq(q, k + 1, Len(q))) = q[k + 1]
         /\ Tail(SubSeq(q, k + 1, Len(q))) = SubSeq(q, (k + 1) + 1, Len(q))
<1> DEFINE t == SubSeq(q, k + 1, Len(q))
<1>1. k + 1 \in 1 .. Len(q)
  OBVIOUS
<1>2. /\ t \in Seq(S)
      /\ Len(t) = Len(q) - k
      /\ \A i \in 1 .. Len(q) - k : t[i] = q[k + i]
  BY <1>1
<1>3. Head(t) = q[k + 1]
  BY <1>1, <1>2
<1>4. Tail(t) = SubSeq(q, (k + 1) + 1, Len(q))
  <2> DEFINE u == SubSeq(q, (k + 1) + 1, Len(q))
  <2>1. /\ u \in Seq(S)
        /\ Len(u) = Len(q) - k - 1
        /\ \A i \in 1 .. Len(q) - k - 1 : u[i] = q[k + 1 + i]
    BY <1>1
  <2>2. /\ Tail(t) \in Seq(S)
        /\ Len(Tail(t)) = Len(q) - k - 1
        /\ \A i \in 1 .. Len(q) - k - 1 : Tail(t)[i] = t[i + 1]
    <3> HIDE DEF t
    <3> QED
      BY <1>1, <1>2
  <2> HIDE DEF t, u
  <2>3. \A i \in 1 .. Len(q) - k - 1 : Tail(t)[i] = u[i]
    BY <1>1, <1>2, <2>1, <2>2
  <2>4. Tail(t) = u
    BY <2>1, <2>2, <2>3, SequencesEqual
  <2> QED
    BY <2>4 DEF u
<1> QED
  BY <1>1, <1>3, <1>4

(* No view is resolved when nothing is going on. *)
LEMMA IdleTyped == Idle \in Session /\ Idle.path = <<>> /\ Idle.pc = "idle"
<1>1. <<>> \in Paths
  BY DEF Paths, IsInjective
<1>2. <<>> \in Seq(Seq(Sources))
  OBVIOUS
<1> QED
  BY <1>1, <1>2 DEF Idle, Session, Sources

(* What a SELECT has on its path and has yet to read. *)
LEMMA SelectTyped ==
  ASSUME TypeOK, NEW s \in Sessions, sess[s].pc = "select"
  PROVE  /\ sess[s].path \in Paths /\ Len(sess[s].path) \in Nat
         /\ sess[s].todo \in Seq(Seq(Sources))
         /\ Len(sess[s].todo) = Len(sess[s].path) + 1
         /\ sess[s].todo # <<>>
         /\ Reading(s) \in Seq(Sources)
<1>1. /\ sess[s].path \in Paths
      /\ sess[s].todo \in Seq(Seq(Sources))
      /\ Len(sess[s].todo) = Len(sess[s].path) + 1
  BY DEF TypeOK, Session
<1>2. Len(sess[s].path) \in Nat
  BY <1>1 DEF Paths
<1>3. sess[s].todo # <<>> /\ sess[s].todo[Len(sess[s].todo)] \in Seq(Sources)
  <2> DEFINE t == sess[s].todo
  <2>1. t \in Seq(Seq(Sources)) /\ Len(t) \in Nat \ {0}
    BY <1>1, <1>2
  <2> HIDE DEF t
  <2>2. t # <<>> /\ t[Len(t)] \in Seq(Sources)
    BY <2>1
  <2> QED
    BY <2>2 DEF t
<1> QED
  BY <1>1, <1>2, <1>3 DEF Reading

(* Reading one relation shortens the innermost query by it, and no other. *)
LEMMA RelationIsRead ==
  ASSUME TypeOK, NEW s \in Sessions, NEW n \in Sources, Reads(s, n)
  PROVE  LET l == Len(sess[s].todo)
         IN /\ Remaining(s) \in Seq(Seq(Sources))
            /\ Len(Remaining(s)) = l
            /\ Remaining(s)[l] = Tail(Reading(s))
            /\ \A i \in 1 .. l - 1 : Remaining(s)[i] = sess[s].todo[i]
<1>1. /\ sess[s].todo \in Seq(Seq(Sources)) /\ sess[s].todo # <<>>
      /\ Reading(s) \in Seq(Sources) /\ Reading(s) # <<>>
  BY SelectTyped DEF Reads
<1>2. Tail(Reading(s)) \in Seq(Sources)
  BY <1>1
<1>3. Remaining(s) = [sess[s].todo EXCEPT ![Len(sess[s].todo)] = Tail(Reading(s))]
  BY DEF Remaining, Reading
<1> QED
  BY <1>1, <1>2, <1>3, LastChanges

(* A statement that is not a SELECT holds no guard, and knows what view it *)
(* changes; a SELECT has one more query to read than views on its path.    *)
Shaped(r) ==
  /\ r.pc \in {"change", "flush", "undo"} => r.name \in Names
  /\ IF r.pc = "select" THEN Len(r.todo) = Len(r.path) + 1 ELSE r.path = <<>>

(* The declared ranges are kept by every step. *)
THEOREM TypeCorrect == Spec => []TypeOK
<1>1. Init => TypeOK
  BY IdleTyped DEF Init, TypeOK, Idle
<1>2. TypeOK /\ [Next]_vars => TypeOK'
  <2> SUFFICES ASSUME TypeOK, [Next]_vars PROVE TypeOK'
    OBVIOUS
  <2>1. /\ sess \in [Sessions -> Session]
        /\ views \in [Names -> Queries \cup {NoView}]
        /\ \A s \in Sessions : Shaped(sess[s])
        /\ Idle \in Session /\ Idle.pc = "idle" /\ Idle.path = <<>>
        /\ Queries \subseteq Seq(Sources)
    BY IdleTyped, NamesAssumption DEF TypeOK, Shaped
  <2>2. ASSUME NEW s \in Sessions, NEW r \in Session, Shaped(r),
               sess' = [sess EXCEPT ![s] = r],
               views' \in [Names -> Queries \cup {NoView}]
        PROVE  TypeOK'
    <3>1. sess' \in [Sessions -> Session]
      BY <2>1, <2>2
    <3>2. \A x \in Sessions : Shaped(sess'[x])
      BY <2>1, <2>2
    <3> QED
      BY <3>1, <3>2, <2>2 DEF TypeOK, Shaped
  <2>3. ASSUME NEW s \in Sessions, NEW q \in Queries, Select(s, q) PROVE TypeOK'
    <3> DEFINE r == [Idle EXCEPT !.pc = "select", !.todo = <<q>>]
    <3>1. <<q>> \in Seq(Seq(Sources)) /\ Len(<<q>>) = 1 /\ Len(<<>>) = 0
      BY <2>1
    <3>2. r \in Session /\ r.pc = "select" /\ r.path = <<>> /\ r.todo = <<q>>
      BY <2>1, <3>1 DEF Session, Idle
    <3> HIDE DEF r
    <3>3. Shaped(r)
      BY <3>1, <3>2 DEF Shaped
    <3>4. sess' = [sess EXCEPT ![s] = r] /\ views' = views
      BY <2>3 DEF Select, r
    <3> QED
      BY <2>1, <2>2, <3>2, <3>3, <3>4
  <2>4. ASSUME NEW s \in Sessions, NEW n \in Names, NEW d \in Queries \cup {NoView},
               ChangeView(s, n, d)
        PROVE  TypeOK'
    <3> DEFINE r == [Idle EXCEPT !.pc = "change", !.name = n, !.def = d]
    <3>1. r \in Session /\ r.pc = "change" /\ r.name = n /\ r.path = <<>>
      BY <2>1 DEF Session, Idle, Sources
    <3>2. Shaped(r)
      BY <3>1 DEF Shaped
    <3> HIDE DEF r
    <3>3. sess' = [sess EXCEPT ![s] = r] /\ views' = views
      BY <2>4 DEF ChangeView, r
    <3> QED
      BY <2>1, <2>2, <3>1, <3>2, <3>3
  <2>5. ASSUME NEW s \in Sessions, NEW n \in Sources, ResolveView(s, n)
        PROVE  TypeOK'
    <3> DEFINE p == Append(sess[s].path, n)
               t == Append(Remaining(s), views[n])
               r == [sess[s] EXCEPT !.path = p, !.todo = t]
    <3>1. /\ n \in Names /\ n \notin Range(sess[s].path)
          /\ views[n] \in Seq(Sources) /\ Reads(s, n) /\ sess[s].pc = "select"
      BY <2>1, <2>5 DEF ResolveView, Reads, Sources
    <3>2. /\ sess[s].path \in Paths /\ Len(sess[s].path) \in Nat
          /\ Len(sess[s].todo) = Len(sess[s].path) + 1
      BY <3>1, SelectTyped
    <3>3. p \in Paths /\ Len(p) = Len(sess[s].path) + 1
      BY <3>1, <3>2, PathGrows
    <3>4. /\ Remaining(s) \in Seq(Seq(Sources))
          /\ Len(Remaining(s)) = Len(sess[s].todo)
      BY <3>1, RelationIsRead
    <3>5. t \in Seq(Seq(Sources)) /\ Len(t) = Len(sess[s].todo) + 1
      BY <3>1, <3>4
    <3> HIDE DEF p, t
    <3>6. r \in Session /\ r.pc = "select" /\ r.path = p /\ r.todo = t
      BY <2>1, <3>1, <3>3, <3>5 DEF Session
    <3>7. sess' = [sess EXCEPT ![s] = r] /\ views' = views
      BY <2>1, <2>5 DEF ResolveView, Session, p, t
    <3> HIDE DEF r
    <3>8. Shaped(r)
      BY <3>2, <3>3, <3>5, <3>6 DEF Shaped
    <3> QED
      BY <2>1, <2>2, <3>6, <3>7, <3>8
  <2>6. ASSUME NEW s \in Sessions, NEW n \in Sources, ReadRows(s, n)
        PROVE  TypeOK'
    <3> DEFINE r == [sess[s] EXCEPT !.todo = Remaining(s)]
    <3>1. Reads(s, n) /\ sess[s].pc = "select"
      BY <2>6 DEF ReadRows, Reads
    <3>2. /\ Remaining(s) \in Seq(Seq(Sources))
          /\ Len(Remaining(s)) = Len(sess[s].todo)
          /\ Len(sess[s].todo) = Len(sess[s].path) + 1
      BY <3>1, RelationIsRead, SelectTyped
    <3>3. /\ r \in Session /\ r.pc = "select"
          /\ r.path = sess[s].path /\ r.todo = Remaining(s)
      BY <2>1, <3>1, <3>2 DEF Session
    <3>4. sess' = [sess EXCEPT ![s] = r] /\ views' = views
      BY <2>6 DEF ReadRows
    <3> HIDE DEF r
    <3>5. Shaped(r)
      BY <3>2, <3>3 DEF Shaped
    <3> QED
      BY <2>1, <2>2, <3>3, <3>4, <3>5
  <2>7. ASSUME NEW s \in Sessions, LeaveView(s) PROVE TypeOK'
    <3> DEFINE k == Len(sess[s].path)
               p == SubSeq(sess[s].path, 1, k - 1)
               t == SubSeq(sess[s].todo, 1, k)
               r == [sess[s] EXCEPT !.path = p, !.todo = t]
    <3>1. sess[s].pc = "select" /\ sess[s].path # <<>>
      BY <2>7 DEF LeaveView
    <3>2. /\ sess[s].path \in Paths /\ k \in Nat
          /\ sess[s].todo \in Seq(Seq(Sources)) /\ Len(sess[s].todo) = k + 1
      BY <3>1, SelectTyped
    <3>3. p \in Paths /\ Len(p) = k - 1
      BY <3>1, <3>2, PathShrinks
    <3> HIDE DEF p
    <3>4. t \in Seq(Seq(Sources)) /\ Len(t) = k
      <4> HIDE DEF k
      <4> QED
        BY <3>2
    <3>5. sess' = [sess EXCEPT ![s] = r] /\ views' = views
      BY <2>1, <2>7 DEF LeaveView, Session, p
    <3> HIDE DEF t, k
    <3>6. r \in Session /\ r.pc = "select" /\ r.path = p /\ r.todo = t
      BY <2>1, <3>1, <3>3, <3>4 DEF Session
    <3> HIDE DEF r
    <3>7. Shaped(r)
      BY <3>2, <3>3, <3>4, <3>6 DEF Shaped
    <3> QED
      BY <2>1, <2>2, <3>5, <3>6, <3>7
  <2>8. Shaped(Idle)
    BY <2>1 DEF Shaped
  <2>9. ASSUME NEW s \in Sessions, EndSelect(s) PROVE TypeOK'
    BY <2>1, <2>2, <2>8, <2>9 DEF EndSelect
  <2>10. ASSUME NEW s \in Sessions, Write(s) PROVE TypeOK'
    <3> DEFINE n == sess[s].name
               r == [sess[s] EXCEPT !.pc = "flush", !.def = views[n]]
    <3>1. /\ n \in Names /\ sess[s].def \in Queries \cup {NoView}
          /\ sess[s].path = <<>>
      BY <2>1, <2>10 DEF Write, Shaped, Session
    <3>2. r \in Session /\ r.pc = "flush" /\ r.name = n /\ r.path = <<>>
      BY <2>1, <3>1 DEF Session
    <3>3. Shaped(r)
      BY <3>1, <3>2 DEF Shaped
    <3>4. /\ sess' = [sess EXCEPT ![s] = r]
          /\ views' \in [Names -> Queries \cup {NoView}]
      BY <2>1, <2>10, <3>1 DEF Write, Session
    <3> HIDE DEF r
    <3> QED
      BY <2>2, <3>2, <3>3, <3>4
  <2>11. ASSUME NEW s \in Sessions, Flush(s) PROVE TypeOK'
    <3> DEFINE r == [sess[s] EXCEPT !.pc = "undo"]
    <3>1. CASE sess' = [sess EXCEPT ![s] = Idle]
      BY <2>1, <2>2, <2>8, <2>11, <3>1 DEF Flush
    <3>2. CASE sess' = [sess EXCEPT ![s].pc = "undo"]
      <4>1. /\ r \in Session /\ r.pc = "undo"
            /\ r.name = sess[s].name /\ r.path = sess[s].path
        BY <2>1 DEF Session
      <4>2. Shaped(r)
        BY <2>1, <2>11, <4>1 DEF Shaped, Flush
      <4>3. sess' = [sess EXCEPT ![s] = r] /\ views' = views
        BY <2>1, <2>11, <3>2 DEF Flush, Session
      <4> HIDE DEF r
      <4> QED
        BY <2>1, <2>2, <4>1, <4>2, <4>3
    <3> QED
      BY <2>11, <3>1, <3>2 DEF Flush
  <2>12. ASSUME NEW s \in Sessions, Undo(s) PROVE TypeOK'
    <3>1. sess[s].name \in Names /\ sess[s].def \in Queries \cup {NoView}
      BY <2>1, <2>12 DEF Undo, Shaped, Session
    <3>2. /\ sess' = [sess EXCEPT ![s] = Idle]
          /\ views' \in [Names -> Queries \cup {NoView}]
      BY <2>1, <2>12, <3>1 DEF Undo
    <3> QED
      BY <2>1, <2>2, <2>8, <3>2
  <2>13. CASE UNCHANGED vars
    BY <2>13 DEF vars, TypeOK
  <2> QED
    BY <2>3, <2>4, <2>5, <2>6, <2>7, <2>9, <2>10, <2>11, <2>12, <2>13
       DEF Next, Read, Change
<1> QED
  BY <1>1, <1>2, PTL DEF Spec

(* The query of the i-th view on path p, defined as q, is read from todo as *)
(* PathInForce says.                                                        *)
InForce(p, todo, q, i) ==
  /\ q \in Queries
  /\ \E k \in 0 .. Len(q) :
       /\ todo[i + 1] = SubSeq(q, k + 1, Len(q))
       /\ i < Len(p) => k > 0 /\ p[i + 1] = q[k]

LEMMA PathInForceIs ==
  PathInForce <=> \A s \in Sessions : \A i \in DOMAIN sess[s].path :
                    InForce(sess[s].path, sess[s].todo, views[sess[s].path[i]], i)
BY DEF PathInForce, InForce

(* The innermost query of a SELECT reads the next relation in force. *)
LEMMA NextInForce ==
  ASSUME TypeOK, PathInForce, NEW s \in Sessions, NEW n \in Sources, Reads(s, n),
         sess[s].path # <<>>
  PROVE  LET i == Len(sess[s].path)
             q == views[sess[s].path[i]]
         IN /\ q \in Queries
            /\ \E k \in 1 .. Len(q) :
                 n = q[k] /\ Remaining(s)[i + 1] = SubSeq(q, k + 1, Len(q))
<1> DEFINE i == Len(sess[s].path)
           q == views[sess[s].path[i]]
<1>1. /\ sess[s].pc = "select" /\ Reading(s) # <<>> /\ n = Head(Reading(s))
      /\ sess[s].path \in Paths /\ i \in Nat /\ Len(sess[s].todo) = i + 1
  BY SelectTyped DEF Reads
<1>2. i \in DOMAIN sess[s].path
  BY <1>1 DEF Paths
<1>3. InForce(sess[s].path, sess[s].todo, q, i)
  BY <1>2, PathInForceIs
<1>4. Reading(s) = sess[s].todo[i + 1] /\ Remaining(s)[i + 1] = Tail(Reading(s))
  BY <1>1, RelationIsRead DEF Reading
<1> HIDE DEF q, i
<1>5. q \in Seq(Sources)
  BY <1>3, NamesAssumption DEF InForce
<1>6. PICK k \in 0 .. Len(q) : Reading(s) = SubSeq(q, k + 1, Len(q))
  BY <1>3, <1>4 DEF InForce
<1>7. /\ k + 1 \in 1 .. Len(q) /\ n = q[k + 1]
      /\ Remaining(s)[i + 1] = SubSeq(q, (k + 1) + 1, Len(q))
  BY <1>1, <1>4, <1>5, <1>6, ReadingOn
<1>8. q \in Queries /\ \E j \in 1 .. Len(q) :
                 n = q[j] /\ Remaining(s)[i + 1] = SubSeq(q, j + 1, Len(q))
  BY <1>3, <1>7 DEF InForce
<1> QED
  BY <1>8 DEF q, i

(* No definition changes under a read guard, and the guards of a SELECT    *)
(* cover every definition it has followed from the relation it resolves.   *)
THEOREM PathsAreInForce == Spec => []PathInForce
<1>1. Init => PathInForce
  BY IdleTyped DEF Init, PathInForce
<1>2. TypeOK /\ PathInForce /\ [Next]_vars => PathInForce'
  <2> SUFFICES ASSUME TypeOK, PathInForce, [Next]_vars,
                      NEW x \in Sessions, NEW i \in DOMAIN sess'[x].path
               PROVE  InForce(sess'[x].path, sess'[x].todo,
                              views'[sess'[x].path[i]], i)
    BY DEF PathInForce, InForce
  <2> DEFINE Held == InForce(sess'[x].path, sess'[x].todo, views[sess'[x].path[i]], i)
  <2>1. /\ sess \in [Sessions -> Session]
        /\ \A s \in Sessions : Shaped(sess[s])
        /\ Idle.path = <<>>
        /\ DOMAIN <<>> = {}
    BY IdleTyped DEF TypeOK, Shaped
  <2>2. ASSUME sess'[x].path = sess[x].path, sess'[x].todo = sess[x].todo
        PROVE  Held
    BY <2>2, PathInForceIs
  <2> HIDE DEF Held
  <2>3. CASE UNCHANGED vars
    BY <2>2, <2>3 DEF vars, Held
  <2>4. ASSUME NEW s \in Sessions, NEW q \in Queries, Select(s, q)
        PROVE  Held /\ views' = views
    <3>1. sess'[s].path = <<>> /\ (x # s => sess'[x] = sess[x])
      BY <2>1, <2>4 DEF Select, Idle
    <3>2. x # s
      BY <2>1, <3>1
    <3> QED
      BY <2>2, <2>4, <3>1, <3>2 DEF Select
  <2>5. ASSUME NEW s \in Sessions, NEW n \in Names, NEW d, ChangeView(s, n, d)
        PROVE  Held /\ views' = views
    <3>1. sess'[s].path = <<>> /\ (x # s => sess'[x] = sess[x])
      BY <2>1, <2>5 DEF ChangeView, Idle
    <3>2. x # s
      BY <2>1, <3>1
    <3> QED
      BY <2>2, <2>5, <3>1, <3>2 DEF ChangeView
  <2>6. ASSUME NEW s \in Sessions, NEW n \in Sources, ResolveView(s, n)
        PROVE  Held /\ views' = views
    <3> DEFINE p == sess[s].path
               l == Len(p)
    <3>1. /\ Reads(s, n) /\ sess[s].pc = "select"
          /\ n \in Names /\ n \notin Range(p)
          /\ views[n] \in Queries /\ views' = views
      BY <2>6 DEF ResolveView, Reads, Sources, TypeOK
    <3>2. CASE x # s
      <4>1. sess'[x] = sess[x]
        BY <2>1, <2>6, <3>2 DEF ResolveView
      <4> QED
        BY <2>2, <3>1, <4>1
    <3>3. CASE x = s
      <4> DEFINE t == Remaining(s)
      <4>1. /\ p \in Paths /\ l \in Nat /\ DOMAIN p = 1 .. l
            /\ Len(sess[s].todo) = l + 1
        BY <3>1, SelectTyped DEF Paths
      <4>2. /\ sess'[x].path = Append(p, n)
            /\ sess'[x].todo = Append(t, views[n])
        BY <2>1, <2>6, <3>3 DEF ResolveView, Session
      <4>3. /\ Append(p, n) \in Paths /\ Len(Append(p, n)) = l + 1
            /\ \A j \in 1 .. l : Append(p, n)[j] = p[j]
            /\ Append(p, n)[l + 1] = n
        BY <3>1, <4>1, PathGrows
      <4>4. /\ t \in Seq(Seq(Sources)) /\ Len(t) = l + 1
            /\ \A j \in 1 .. l : t[j] = sess[s].todo[j]
        BY <3>1, <4>1, RelationIsRead
      <4>5. i \in 1 .. l + 1
        BY <4>2, <4>3, <4>1 DEF Paths
      <4>6. views[n] \in Seq(Sources)
        BY <3>1, NamesAssumption
      <4> HIDE DEF t, p, l
      <4>7. /\ Append(t, views[n])[l + 2] = views[n]
            /\ \A j \in 1 .. l + 1 : Append(t, views[n])[j] = t[j]
        BY <4>1, <4>4, <4>6
      <4>8. CASE i = l + 1
        <5>1. SubSeq(views[n], 0 + 1, Len(views[n])) = views[n] /\ Len(views[n]) \in Nat
          BY <4>6
        <5>2. InForce(Append(p, n), Append(t, views[n]), views[n], i)
          <6>1. i + 1 = l + 2 /\ ~(i < Len(Append(p, n))) /\ 0 \in 0 .. Len(views[n])
            BY <4>1, <4>3, <4>8, <5>1
          <6>2. Append(t, views[n])[i + 1] = SubSeq(views[n], 0 + 1, Len(views[n]))
            BY <4>7, <5>1, <6>1
          <6> QED
            BY <3>1, <6>1, <6>2 DEF InForce
        <5> QED
          BY <3>1, <4>2, <4>3, <4>8, <5>2 DEF Held
      <4>9. CASE i = l /\ i # l + 1
        <5>1. p # <<>> /\ Append(p, n)[i] = p[i]
          BY <2>1, <4>1, <4>3, <4>5, <4>9
        <5> DEFINE q == views[p[i]]
        <5>2. q \in Queries /\ \E k \in 1 .. Len(q) :
                n = q[k] /\ t[i + 1] = SubSeq(q, k + 1, Len(q))
          BY <3>1, <4>9, <5>1, NextInForce DEF p, l, t
        <5> HIDE DEF q
        <5>3. q \in Seq(Sources)
          BY <5>2, NamesAssumption
        <5>4. PICK k \in 1 .. Len(q) : n = q[k] /\ t[i + 1] = SubSeq(q, k + 1, Len(q))
          BY <5>2
        <5>5. k \in 0 .. Len(q) /\ k > 0
          BY <5>3
        <5>6. Append(t, views[n])[i + 1] = t[i + 1] /\ Append(p, n)[i + 1] = n
          <6>1. i + 1 = l + 1 /\ l + 1 \in 1 .. l + 1
            BY <4>1, <4>9
          <6> QED
            BY <4>3, <4>7, <6>1
        <5>7. InForce(Append(p, n), Append(t, views[n]), q, i)
          BY <5>2, <5>4, <5>5, <5>6 DEF InForce
        <5> QED
          BY <3>1, <4>2, <5>1, <5>7 DEF Held, q
      <4>10. CASE i \in 1 .. l - 1
        <5>1. InForce(p, sess[s].todo, views[p[i]], i)
          BY <4>1, <4>10, PathInForceIs DEF p
        <5>2. /\ Append(p, n)[i] = p[i] /\ Append(p, n)[i + 1] = p[i + 1]
              /\ Append(t, views[n])[i + 1] = sess[s].todo[i + 1]
              /\ i < Len(p)
          BY <4>1, <4>3, <4>4, <4>7, <4>10 DEF l
        <5>3. InForce(Append(p, n), Append(t, views[n]), views[p[i]], i)
          BY <5>1, <5>2 DEF InForce
        <5> QED
          BY <3>1, <4>2, <5>2, <5>3 DEF Held
      <4>11. Held
        BY <4>1, <4>5, <4>8, <4>9, <4>10
      <4> QED
        BY <3>1, <4>11
    <3> QED
      BY <3>2, <3>3
  <2>7. ASSUME NEW s \in Sessions, NEW n \in Sources, ReadRows(s, n)
        PROVE  Held /\ views' = views
    <3> DEFINE p == sess[s].path
               l == Len(p)
               t == Remaining(s)
    <3>1. Reads(s, n) /\ sess[s].pc = "select" /\ views' = views
      BY <2>7 DEF ReadRows, Reads
    <3>2. CASE x # s
      <4>1. sess'[x] = sess[x]
        BY <2>1, <2>7, <3>2 DEF ReadRows
      <4> QED
        BY <2>2, <3>1, <4>1
    <3>3. CASE x = s
      <4>1. /\ p \in Paths /\ l \in Nat /\ DOMAIN p = 1 .. l
            /\ Len(sess[s].todo) = l + 1
        BY <3>1, SelectTyped DEF Paths
      <4>2. sess'[x].path = p /\ sess'[x].todo = t
        BY <2>1, <2>7, <3>3 DEF ReadRows, Session
      <4>3. \A j \in 1 .. l : t[j] = sess[s].todo[j]
        BY <3>1, <4>1, RelationIsRead
      <4>4. CASE i = l
        <5>1. p # <<>>
          BY <2>1, <4>1, <4>2, <4>4
        <5> DEFINE q == views[p[i]]
        <5>2. q \in Queries /\ \E k \in 1 .. Len(q) :
                n = q[k] /\ t[i + 1] = SubSeq(q, k + 1, Len(q))
          BY <3>1, <4>4, <5>1, NextInForce
        <5> HIDE DEF q, t, p, l
        <5>3. q \in Seq(Sources)
          BY <5>2, NamesAssumption
        <5>4. PICK k \in 1 .. Len(q) : n = q[k] /\ t[i + 1] = SubSeq(q, k + 1, Len(q))
          BY <5>2
        <5>5. k \in 0 .. Len(q) /\ ~(i < Len(p))
          BY <4>1, <4>4, <5>3 DEF l
        <5>6. InForce(p, t, q, i)
          BY <5>2, <5>4, <5>5 DEF InForce
        <5> QED
          BY <3>1, <4>2, <5>6 DEF Held, q
      <4>5. CASE i \in 1 .. l - 1
        <5>1. InForce(p, sess[s].todo, views[p[i]], i)
          BY <4>1, <4>5, PathInForceIs
        <5>2. t[i + 1] = sess[s].todo[i + 1]
          BY <4>1, <4>3, <4>5
        <5>3. InForce(p, t, views[p[i]], i)
          BY <5>1, <5>2 DEF InForce
        <5> QED
          BY <3>1, <4>2, <5>3 DEF Held
      <4> QED
        BY <3>1, <4>1, <4>2, <4>4, <4>5
    <3> QED
      BY <3>2, <3>3
  <2>8. ASSUME NEW s \in Sessions, LeaveView(s) PROVE Held /\ views' = views
    <3> DEFINE p == sess[s].path
               l == Len(p)
               t == sess[s].todo
    <3>1. sess[s].pc = "select" /\ p # <<>> /\ views' = views
      BY <2>8 DEF LeaveView
    <3>2. CASE x # s
      <4>1. sess'[x] = sess[x]
        BY <2>1, <2>8, <3>2 DEF LeaveView
      <4> QED
        BY <2>2, <3>1, <4>1
    <3>3. CASE x = s
      <4>1. /\ p \in Paths /\ l \in Nat /\ DOMAIN p = 1 .. l
            /\ t \in Seq(Seq(Sources)) /\ Len(t) = l + 1
        BY <3>1, SelectTyped DEF Paths
      <4>2. sess'[x].path = SubSeq(p, 1, l - 1) /\ sess'[x].todo = SubSeq(t, 1, l)
        BY <2>1, <2>8, <3>3 DEF LeaveView, Session
      <4>3. /\ SubSeq(p, 1, l - 1) \in Paths
            /\ Len(SubSeq(p, 1, l - 1)) = l - 1
            /\ \A j \in 1 .. l - 1 : SubSeq(p, 1, l - 1)[j] = p[j]
        BY <3>1, <4>1, PathShrinks
      <4>4. i \in 1 .. l - 1
        BY <4>2, <4>3 DEF Paths
      <4>5. InForce(p, t, views[p[i]], i)
        BY <4>1, <4>4, PathInForceIs
      <4> HIDE DEF p, t, l
      <4>6. SubSeq(t, 1, l)[i + 1] = t[i + 1]
        BY <4>1, <4>4
      <4>7. i < l - 1 => i < Len(p) /\ SubSeq(p, 1, l - 1)[i + 1] = p[i + 1]
        BY <4>1, <4>3, <4>4 DEF l
      <4>8. InForce(SubSeq(p, 1, l - 1), SubSeq(t, 1, l), views[p[i]], i)
        BY <4>3, <4>5, <4>6, <4>7 DEF InForce
      <4> QED
        BY <3>1, <4>2, <4>3, <4>4, <4>8 DEF Held
    <3> QED
      BY <3>2, <3>3
  <2>9. ASSUME NEW s \in Sessions, EndSelect(s) PROVE Held /\ views' = views
    <3>1. x # s
      BY <2>1, <2>9 DEF EndSelect
    <3> QED
      BY <2>1, <2>2, <2>9, <3>1 DEF EndSelect
  <2>10. ASSUME NEW s \in Sessions, Write(s) PROVE FALSE
    BY <2>10, <2>1 DEF Write, WriteLockable, Session
  <2>11. ASSUME NEW s \in Sessions, Flush(s) PROVE Held /\ views' = views
    <3>1. sess[s].path = <<>>
      BY <2>1, <2>11 DEF Flush, Shaped
    <3>2. sess'[s].path = <<>> /\ (x # s => sess'[x] = sess[x])
      BY <2>1, <2>11, <3>1 DEF Flush, Session
    <3>3. x # s
      BY <2>1, <3>2
    <3> QED
      BY <2>2, <2>11, <3>2, <3>3 DEF Flush
  <2>12. ASSUME NEW s \in Sessions, Undo(s) PROVE FALSE
    BY <2>12, <2>1 DEF Undo, WriteLockable, Session
  <2> QED
    BY <2>3, <2>4, <2>5, <2>6, <2>7, <2>8, <2>9, <2>10, <2>11, <2>12
       DEF Next, Read, Change, Held, vars
<1> QED
  BY <1>1, <1>2, TypeCorrect, PTL DEF Spec
=============================================================================
