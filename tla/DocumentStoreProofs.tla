------------------------ MODULE DocumentStoreProofs ------------------------
(***************************************************************************)
(* Proofs about DocumentStore, for any number of paths, contents, ids and  *)
(* pages, and whatever order the operations are called in.  Three          *)
(* invariants:                                                             *)
(*   IInv  ids and hashes: no document gets an id that is or may again be  *)
(*         another's, and no hash outlives the content it is of;           *)
(*   PInv  pages and caches: what is not in memory is on the pages that    *)
(*         the document names, and the file shows the store, as long as    *)
(*         vacuum is called with everything in memory and last (Protocol); *)
(*   JInv  reindex_paths: what it has read is in the store, and so is what *)
(*         was there when it began.                                        *)
(***************************************************************************)
EXTENDS DocumentStore, FunctionTheorems, FiniteSetTheorems,
        SequenceTheorems, WellFoundedInduction, TLAPS

(* A document, with all its fields. *)
IsDoc(d) ==
  /\ d = [path |-> d.path, blocks |-> d.blocks, sum |-> d.sum, idx |-> d.idx,
          bpage |-> d.bpage, ipage |-> d.ipage, direct |-> d.direct]
  /\ d.direct \in BOOLEAN /\ d.path \in Paths \cup {NoPath}

IsMap(D) == DOMAIN D \subseteq Ids /\ D = [i \in DOMAIN D |-> D[i]]

(* What HashesMatch says of one catalog. *)
Match(D, H) ==
  /\ IsMap(D) /\ IsMap(H)
  /\ \A i \in DOMAIN D : IsDoc(D[i])
  /\ \A i \in DOMAIN H : i \in DOMAIN D /\ (D[i].direct \/ D[i].sum = H[i])

GoodStore(s) ==
  /\ s = [docs |-> s.docs, hashes |-> s.hashes, next |-> s.next]
  /\ s.next \in Nat
  /\ Match(s.docs, s.hashes)
GoodDb(d) ==
  /\ d = [pages |-> d.pages, docs |-> d.docs, hashes |-> d.hashes]
  /\ Match(d.docs, d.hashes)
GoodJob(j) ==
  /\ j = [on |-> j.on, todo |-> j.todo, read |-> j.read, prune |-> j.prune,
          docs |-> j.docs, hashes |-> j.hashes]
  /\ Match(j.docs, j.hashes)

(* Every document of D has an id below that of the next one. *)
Fresh(D, n) == \A i \in DOMAIN D : i < n

(* The inductive invariant.  HashesMatch says nothing of the snapshot of   *)
(* reindex_paths, which becomes the store when its flush fails; and no     *)
(* snapshot outlives its process, since the next one counts anew.          *)
IInv ==
  /\ GoodStore(store) /\ GoodDb(db) /\ Match(tx.docs, tx.hashes) /\ GoodJob(job)
  /\ Fresh(store.docs, store.next)
  /\ Fresh(tx.docs, store.next)
  /\ Fresh(job.docs, store.next)
  /\ mode = "none" => tx = NoTx /\ job = NoJob
-----------------------------------------------------------------------------
(* Catalogs *)

(* An empty store. *)
LEMMA NoneMatches == Match(None, None)
BY DEF Match, IsMap, None, Ids

(* A document without a hash is added. *)
LEMMA AddedMatches ==
  ASSUME NEW D, NEW H, Match(D, H), NEW i \in Ids, i \notin DOMAIN D,
         NEW d, IsDoc(d)
  PROVE  Match(With(D, i, d), H)
BY DEF Match, IsMap, With

(* A document is written together with its hash. *)
LEMMA HashedMatches ==
  ASSUME NEW D, NEW H, Match(D, H), NEW i \in Ids, NEW d, IsDoc(d)
  PROVE  Match(With(D, i, d), With(H, i, d.sum))
BY DEF Match, IsMap, With

(* A document is written over one that may have a hash. *)
LEMMA ReplacedMatches ==
  ASSUME NEW D, NEW H, Match(D, H), NEW i \in DOMAIN D,
         NEW d, IsDoc(d), i \in DOMAIN H => d.direct
  PROVE  Match([D EXCEPT ![i] = d], H)
BY DEF Match, IsMap

(* Replacing is adding at an id that is there. *)
LEMMA ReplaceIsWith ==
  ASSUME NEW D, NEW i \in DOMAIN D, NEW d, D = [j \in DOMAIN D |-> D[j]]
  PROVE  [D EXCEPT ![i] = d] = With(D, i, d)
BY DEF With

(* Documents and their hashes are dropped. *)
LEMMA PrunedMatches ==
  ASSUME NEW D, NEW H, Match(D, H), NEW I
  PROVE  Match(Without(D, I), Without(H, I))
BY DEF Match, IsMap, Without

(* Caches and pages do not matter. *)
LEMMA SameMatches ==
  ASSUME NEW D, NEW H, Match(D, H), NEW E,
         E = [i \in DOMAIN D |-> E[i]],
         \A i \in DOMAIN D : IsDoc(E[i]) /\ E[i].sum = D[i].sum
                                         /\ E[i].direct = D[i].direct
  PROVE  Match(E, H)
<1>1. DOMAIN E = DOMAIN D  OBVIOUS
<1>2. IsMap(E)  BY <1>1 DEF Match, IsMap
<1>3. QED  BY <1>1, <1>2 DEF Match

(* Neither blocks nor index nor pages are what a hash is compared with. *)
LEMMA FieldChanged ==
  ASSUME NEW d, IsDoc(d), NEW x
  PROVE  \A e \in {[d EXCEPT !.blocks = x], [d EXCEPT !.idx = x],
                   [d EXCEPT !.bpage = x], [d EXCEPT !.ipage = x]} :
           IsDoc(e) /\ e.sum = d.sum /\ e.direct = d.direct
BY DEF IsDoc

(* The documents as from_catalog_lazy makes them. *)
LEMMA LazyMatches ==
  ASSUME NEW D, NEW H, Match(D, H)
  PROVE  Match(LazyDocs(D), H)
<1>1. ASSUME NEW i \in DOMAIN D
      PROVE  IsDoc(Lazy(D[i])) /\ Lazy(D[i]).sum = D[i].sum
                               /\ Lazy(D[i]).direct = D[i].direct
  <2> DEFINE b == [D[i] EXCEPT !.blocks = NoBlocks]
             e == [b EXCEPT !.idx = NoIndex]
  <2>1. IsDoc(b) /\ b.sum = D[i].sum /\ b.direct = D[i].direct
    BY FieldChanged DEF Match
  <2> HIDE DEF b
  <2>2. IsDoc(e) /\ e.sum = b.sum /\ e.direct = b.direct
    BY <2>1, FieldChanged
  <2>3. Lazy(D[i]) = e  BY DEF Lazy, b
  <2>4. QED  BY <2>1, <2>2, <2>3
<1>2. QED  BY <1>1, SameMatches DEF LazyDocs

(* The documents as a rollback restores them. *)
LEMMA NoIndexesMatches ==
  ASSUME NEW D, NEW H, Match(D, H)
  PROVE  Match(NoIndexes(D), H) /\ DOMAIN NoIndexes(D) = DOMAIN D
<1> DEFINE d(i) == [D[i] EXCEPT !.idx = NoIndex]
<1>1. \A i \in DOMAIN D : IsDoc(d(i)) /\ d(i).sum = D[i].sum
                                     /\ d(i).direct = D[i].direct
  BY DEF Match, IsDoc
<1>2. QED  BY <1>1, SameMatches DEF NoIndexes

(* The documents of a parse, in memory or with their pages. *)
LEMMA ParsedIsDoc ==
  ASSUME NEW p \in Paths \cup {NoPath}, NEW c
  PROVE  /\ IsDoc(Parsed(p, c)) /\ Parsed(p, c).sum = c
         /\ IsDoc(Stored(Parsed(p, c))) /\ Stored(Parsed(p, c)).sum = c
BY DEF Parsed, Stored, IsDoc

(* next_doc_id of an opened store is above every id. *)
LEMMA NextIsAbove ==
  ASSUME NEW D, DOMAIN D \subseteq Ids
  PROVE  NextId(D) \in Nat /\ Fresh(D, NextId(D))
<1>1. CASE DOMAIN D = {}  BY <1>1 DEF NextId, Fresh
<1>2. CASE DOMAIN D # {}
  <2> DEFINE T == {MaxId - i : i \in DOMAIN D}
  <2>1. T \subseteq Nat /\ T # {}  BY <1>2, BoundsAssumption DEF Ids
  <2>2. PICK x \in T : \A y \in T : ~(<<y, x>> \in OpToRel(<, Nat))
    BY <2>1, NatLessThanWellFounded, WFMin
  <2>3. \A y \in T : ~(y < x)  BY <2>1, <2>2 DEF OpToRel
  <2>4. PICK m \in DOMAIN D : x = MaxId - m  OBVIOUS
  <2>5. IsMax(DOMAIN D, m)
    <3>1. ASSUME NEW j \in DOMAIN D PROVE j <= m
      <4>1. ~(MaxId - j < MaxId - m)  BY <2>3, <2>4
      <4>2. QED  BY <4>1, BoundsAssumption DEF Ids
    <3>2. QED  BY <3>1 DEF IsMax
  <2>6. \E i \in Ids : IsMax(DOMAIN D, i)  BY <2>5
  <2>7. PICK k \in Ids : IsMax(DOMAIN D, k) /\ NextId(D) = 1 + k
    BY <1>2, <2>6 DEF NextId
  <2>8. QED  BY <2>7, BoundsAssumption DEF IsMax, Ids, Fresh
<1>3. QED  BY <1>1, <1>2
-----------------------------------------------------------------------------
(* Flushes *)

(* What a flush publishes is as good as the store it publishes. *)
LEMMA PublishedIsGood ==
  ASSUME NEW s, GoodStore(s), NEW pages
  PROVE  GoodDb(Published(s, pages))
BY LazyMatches DEF GoodStore, GoodDb, Published

(* A flush ends with the new store or the one to go back to. *)
LEMMA FlushKeeps ==
  ASSUME NEW s, NEW u, NEW pages, GoodStore(s), GoodStore(u), GoodDb(db),
         Flush(s, u, pages)
  PROVE  store' \in {s, u} /\ GoodStore(store') /\ GoodDb(db')
<1>1. GoodDb([db EXCEPT !.pages = pages])  BY DEF GoodDb
<1>2. GoodDb(Published(s, pages))  BY PublishedIsGood
<1>3. QED  BY <1>1, <1>2 DEF Flush

(* save_inner. *)
LEMMA RewrittenIsGood ==
  ASSUME GoodStore(store)
  PROVE  GoodDb(Rewritten(store))
<1> DEFINE I == DOMAIN store.docs
           n == Cardinality(I)
           d(i) == [store.docs[i] EXCEPT !.bpage = Rank(I, i),
                                         !.ipage = n + Rank(I, i)]
           D == [i \in I |-> d(i)]
           s == [store EXCEPT !.docs = D]
<1>1. ASSUME NEW i \in I
      PROVE  IsDoc(d(i)) /\ d(i).sum = store.docs[i].sum
                         /\ d(i).direct = store.docs[i].direct
  <2> DEFINE b == [store.docs[i] EXCEPT !.bpage = Rank(I, i)]
             e == [b EXCEPT !.ipage = n + Rank(I, i)]
  <2>1. IsDoc(b) /\ b.sum = store.docs[i].sum /\ b.direct = store.docs[i].direct
    BY FieldChanged DEF GoodStore, Match
  <2> HIDE DEF b
  <2>2. IsDoc(e) /\ e.sum = b.sum /\ e.direct = b.direct
    BY <2>1, FieldChanged
  <2>3. d(i) = e  BY DEF b
  <2>4. QED  BY <2>1, <2>2, <2>3
<1>2. Match(D, store.hashes)
  <2>1. Match(store.docs, store.hashes)  BY DEF GoodStore
  <2>2. QED  BY <1>1, <2>1, SameMatches
<1>3. GoodStore(s)
  <2>1. s = [docs |-> D, hashes |-> store.hashes, next |-> store.next]
    <3> HIDE DEF D
    <3>1. QED  BY DEF GoodStore
  <2> HIDE DEF D
  <2>2. QED  BY <1>2, <2>1 DEF GoodStore
<1>4. \A pages : GoodDb(Published(s, pages))
  <2> HIDE DEF s
  <2>1. QED  BY <1>3, PublishedIsGood
<1>5. QED  BY <1>4 DEF Rewritten
-----------------------------------------------------------------------------
(* The invariant *)

(* There is no store and no file. *)
LEMMA InitIInv == Init => IInv
BY NoneMatches
   DEF Init, IInv, GoodStore, GoodDb, GoodJob, Fresh, New, NoDb, NoTx, NoJob,
       None

(* A step that leaves the snapshots alone and gives back no id. *)
LEMMA SnapshotsStay ==
  ASSUME IInv, GoodStore(store'), GoodDb(db'), UNCHANGED <<mode, tx, job>>,
         Fresh(store'.docs, store'.next), store'.next >= store.next
  PROVE  IInv'
BY DEF IInv, Fresh, GoodStore, GoodJob, Match, IsMap, Ids

(* A document is added to the store at next_doc_id. *)
LEMMA AddedIsGood ==
  ASSUME IInv, store.next \in Ids, NEW d, IsDoc(d)
  PROVE  /\ GoodStore(Added(store, d))
         /\ Fresh(Added(store, d).docs, Added(store, d).next)
         /\ Added(store, d).next = store.next + 1
         /\ Match(Added(store, d).docs, With(store.hashes, store.next, d.sum))
         /\ Added(store, d).hashes = store.hashes
<1> DEFINE D == With(store.docs, store.next, d)
<1>1. Added(store, d) = [docs |-> D, hashes |-> store.hashes,
                         next |-> store.next + 1]
  <2>1. Added(store, d) = [store EXCEPT !.docs = D, !.next = store.next + 1]
    BY DEF Added
  <2> HIDE DEF D
  <2>2. QED  BY <2>1 DEF IInv, GoodStore
<1>2. store.next \notin DOMAIN store.docs  BY DEF IInv, Fresh, GoodStore
<1>3. Match(D, store.hashes) /\ Match(D, With(store.hashes, store.next, d.sum))
  BY <1>2, AddedMatches, HashedMatches DEF IInv, GoodStore
<1>4. Fresh(D, store.next + 1)
  BY DEF IInv, Fresh, With, GoodStore, Match, IsMap, Ids
<1> HIDE DEF D
<1>5. QED  BY <1>1, <1>3, <1>4 DEF GoodStore, IInv

(* A new process counts from the ids of what it opens; it has no snapshots. *)
LEMMA NewProcess ==
  ASSUME IInv, mode = "none", mode' # "none", UNCHANGED <<db, tx, job>>,
         GoodStore(store'), Fresh(store'.docs, store'.next)
  PROVE  IInv'
<1>1. tx.docs = None /\ job.docs = None  BY DEF IInv, NoTx, NoJob
<1>2. Fresh(None, store'.next)  BY DEF Fresh, None
<1>3. QED  BY <1>1, <1>2 DEF IInv

(* The store of open and of load. *)
LEMMA OpenedIsGood ==
  ASSUME IInv, NEW D, Match(D, db.hashes), DOMAIN D = DOMAIN db.docs,
         store' = [docs |-> D, hashes |-> db.hashes, next |-> NextId(db.docs)]
  PROVE  GoodStore(store') /\ Fresh(store'.docs, store'.next)
<1>1. DOMAIN db.docs \subseteq Ids  BY DEF IInv, GoodDb, Match, IsMap
<1>2. QED  BY <1>1, NextIsAbove DEF GoodStore, Fresh

(* Processes begin and end. *)
LEMMA ProcessSteps ==
  ASSUME IInv, NewStore \/ Open \/ Load \/ ProcessEnds
  PROVE  IInv'
<1>1. CASE NewStore
  <2>1. GoodStore(store') /\ Fresh(store'.docs, store'.next)
    BY <1>1, NoneMatches DEF NewStore, GoodStore, New, Fresh, None
  <2>2. QED  BY <1>1, <2>1, NewProcess DEF NewStore
<1>2. CASE Open
  <2>1. Match(db.docs, db.hashes)  BY DEF IInv, GoodDb
  <2>2. QED  BY <1>2, <2>1, OpenedIsGood, NewProcess DEF Open
<1>3. CASE Load
  <2> DEFINE d(i) == [db.docs[i] EXCEPT !.blocks = BlocksOf(db.docs[i]),
                                        !.bpage = 0]
             D == [i \in DOMAIN db.docs |-> d(i)]
  <2>1. ASSUME NEW i \in DOMAIN db.docs
        PROVE  IsDoc(d(i)) /\ d(i).sum = db.docs[i].sum
                           /\ d(i).direct = db.docs[i].direct
    <3> DEFINE b == [db.docs[i] EXCEPT !.blocks = BlocksOf(db.docs[i])]
               e == [b EXCEPT !.bpage = 0]
    <3>1. IsDoc(b) /\ b.sum = db.docs[i].sum /\ b.direct = db.docs[i].direct
      BY FieldChanged DEF IInv, GoodDb, Match
    <3> HIDE DEF b
    <3>2. IsDoc(e) /\ e.sum = b.sum /\ e.direct = b.direct
      BY <3>1, FieldChanged
    <3>3. d(i) = e  BY DEF b
    <3>4. QED  BY <3>1, <3>2, <3>3
  <2>2. Match(D, db.hashes)
    <3>1. Match(db.docs, db.hashes)  BY DEF IInv, GoodDb
    <3>2. QED  BY <2>1, <3>1, SameMatches
  <2>3. GoodStore(store') /\ Fresh(store'.docs, store'.next)
    <3>1. store' = [docs |-> D, hashes |-> db.hashes, next |-> NextId(db.docs)]
      BY <1>3 DEF Load
    <3>2. DOMAIN D = DOMAIN db.docs  OBVIOUS
    <3> HIDE DEF D
    <3>3. QED  BY <2>2, <3>1, <3>2, OpenedIsGood
  <2>4. QED  BY <1>3, <2>3, NewProcess DEF Load
<1>4. CASE ProcessEnds
  BY <1>4, NoneMatches
     DEF ProcessEnds, IInv, GoodStore, GoodJob, Fresh, New, NoTx, NoJob, None
<1>5. QED  BY <1>1, <1>2, <1>3, <1>4

(* Blocks and indexes are read into memory. *)
LEMMA Cached ==
  ASSUME IInv, UNCHANGED <<mode, db, tx, job>>, NEW E,
         store' = [store EXCEPT !.docs = E],
         E = [i \in DOMAIN store.docs |-> E[i]],
         \A i \in DOMAIN store.docs :
           IsDoc(E[i]) /\ E[i].sum = store.docs[i].sum
                       /\ E[i].direct = store.docs[i].direct
  PROVE  IInv'
<1>1. Match(E, store.hashes)  BY SameMatches DEF IInv, GoodStore
<1>2. DOMAIN E = DOMAIN store.docs  OBVIOUS
<1>3. store' = [docs |-> E, hashes |-> store.hashes, next |-> store.next]
  BY DEF IInv, GoodStore
<1>4. GoodStore(store') /\ Fresh(store'.docs, store'.next)
  BY <1>1, <1>2, <1>3 DEF IInv, GoodStore, Fresh
<1>5. QED  BY <1>3, <1>4 DEF IInv, Fresh

(* load_all_blocks and load_all_indexes. *)
LEMMA LoadSteps ==
  ASSUME IInv, LoadAllBlocks \/ LoadAllIndexes
  PROVE  IInv'
<1> DEFINE s(i) == store.docs[i]
           b(i) == IF i \in UnloadedIds
                   THEN [s(i) EXCEPT !.blocks = BlocksOf(s(i))] ELSE s(i)
           x(i) == IF s(i).idx # NoIndex THEN s(i)
                   ELSE [s(i) EXCEPT !.idx = IndexOf(s(i))]
<1>1. \A i \in DOMAIN store.docs : IsDoc(s(i))
  BY DEF IInv, GoodStore, Match
<1>2. CASE LoadAllBlocks
  <2> DEFINE E == [i \in DOMAIN store.docs |-> b(i)]
  <2>1. \A i \in DOMAIN store.docs : IsDoc(b(i)) /\ b(i).sum = s(i).sum
                                                /\ b(i).direct = s(i).direct
    BY <1>1, FieldChanged
  <2>2. store' = [store EXCEPT !.docs = E]
    BY <1>2 DEF LoadAllBlocks, IInv, GoodStore
  <2>3. UNCHANGED <<mode, db, tx, job>>  BY <1>2 DEF LoadAllBlocks
  <2>4. /\ E = [i \in DOMAIN store.docs |-> E[i]]
        /\ \A i \in DOMAIN store.docs :
             IsDoc(E[i]) /\ E[i].sum = s(i).sum /\ E[i].direct = s(i).direct
    BY <2>1
  <2> HIDE DEF E
  <2>5. QED  BY <2>2, <2>3, <2>4, Cached
<1>3. CASE LoadAllIndexes
  <2> DEFINE E == [i \in DOMAIN store.docs |-> x(i)]
  <2>1. \A i \in DOMAIN store.docs : IsDoc(x(i)) /\ x(i).sum = s(i).sum
                                                /\ x(i).direct = s(i).direct
    BY <1>1, FieldChanged
  <2>2. store' = [store EXCEPT !.docs = E]
    BY <1>3 DEF LoadAllIndexes, IInv, GoodStore
  <2>3. UNCHANGED <<mode, db, tx, job>>  BY <1>3 DEF LoadAllIndexes
  <2>4. /\ E = [i \in DOMAIN store.docs |-> E[i]]
        /\ \A i \in DOMAIN store.docs :
             IsDoc(E[i]) /\ E[i].sum = s(i).sum /\ E[i].direct = s(i).direct
    BY <2>1
  <2> HIDE DEF E
  <2>5. QED  BY <2>2, <2>3, <2>4, Cached
<1>4. QED  BY <1>2, <1>3

(* The id of a document whose pages are not written is not given back. *)
LEMMA BurntIsGood ==
  ASSUME IInv
  PROVE  GoodStore(Burnt(store)) /\ Fresh(Burnt(store).docs, Burnt(store).next)
         /\ Burnt(store).next = store.next + 1
BY DEF Burnt, IInv, GoodStore, Fresh, Match, IsMap, Ids

(* append_file, append_str: added, refused, or not written. *)
LEMMA AppendStep ==
  ASSUME IInv, NEW p \in Paths \cup {NoPath}, NEW c, AppendDocument(p, c)
  PROVE  IInv'
<1> DEFINE d == Stored(Parsed(p, c))
           s == Added(store, d)
<1>1. UNCHANGED <<mode, tx, job>> /\ store.next \in Ids
  BY DEF AppendDocument
<1>2. IsDoc(d)  BY ParsedIsDoc
<1>3. CASE Flush(s, store, PagesWith(d))
  <2>1. GoodStore(s) /\ Fresh(s.docs, s.next) /\ s.next = store.next + 1
    BY <1>1, <1>2, AddedIsGood
  <2>2. GoodStore(store) /\ GoodDb(db) /\ Fresh(store.docs, store.next)
    BY DEF IInv
  <2> HIDE DEF d, s
  <2>3. store' \in {s, store} /\ GoodStore(store') /\ GoodDb(db')
    BY <1>3, <2>1, <2>2, FlushKeeps
  <2>4. Fresh(store'.docs, store'.next) /\ store'.next >= store.next
    BY <2>1, <2>2, <2>3 DEF GoodStore
  <2>5. QED  BY <1>1, <2>3, <2>4, SnapshotsStay
<1>4. CASE store' = Burnt(store) /\ UNCHANGED db
  <2>1. GoodStore(store') /\ Fresh(store'.docs, store'.next)
        /\ store'.next >= store.next
    BY <1>4, BurntIsGood DEF IInv, GoodStore
  <2>2. GoodDb(db')  BY <1>4 DEF IInv
  <2>3. QED  BY <1>1, <2>1, <2>2, SnapshotsStay
<1>5. QED  BY <1>3, <1>4 DEF AppendDocument

(* The store with other documents and hashes. *)
LEMMA OtherFields ==
  ASSUME NEW s, s = [docs |-> s.docs, hashes |-> s.hashes, next |-> s.next],
         NEW D, NEW H
  PROVE  [s EXCEPT !.docs = D, !.hashes = H]
         = [docs |-> D, hashes |-> H, next |-> s.next]
<1> DEFINE t == [s EXCEPT !.docs = D]
<1>1. t = [docs |-> D, hashes |-> s.hashes, next |-> s.next]  OBVIOUS
<1> HIDE DEF t
<1>2. [t EXCEPT !.hashes = H] = [docs |-> D, hashes |-> H, next |-> s.next]
  BY <1>1
<1>3. QED  BY <1>2 DEF t

(* The store with other documents, none of them with a new id. *)
LEMMA OthersAreGood ==
  ASSUME IInv, NEW D, NEW H, Match(D, H), Fresh(D, store.next)
  PROVE  LET s == [store EXCEPT !.docs = D, !.hashes = H]
         IN  GoodStore(s) /\ Fresh(s.docs, s.next) /\ s.next = store.next
<1> DEFINE s == [store EXCEPT !.docs = D, !.hashes = H]
<1>1. s = [docs |-> D, hashes |-> H, next |-> store.next]
  <2>1. store = [docs |-> store.docs, hashes |-> store.hashes,
                 next |-> store.next]
    BY DEF IInv, GoodStore
  <2>2. QED  BY <2>1, OtherFields
<1>2. store.next \in Nat  BY DEF IInv, GoodStore
<1> HIDE DEF s
<1>3. GoodStore(s) /\ Fresh(s.docs, s.next) /\ s.next = store.next
  BY <1>1, <1>2 DEF GoodStore
<1>4. QED  BY <1>3 DEF s

(* The history of a document changes. *)
LEMMA DirectChanged ==
  ASSUME NEW d, IsDoc(d), NEW v \in BOOLEAN
  PROVE  LET e == [d EXCEPT !.direct = v]
         IN  IsDoc(e) /\ e.direct = v
BY DEF IsDoc

(* replace_document: the hash that stays is not trusted any more. *)
LEMMA ReplaceStep ==
  ASSUME IInv, NEW i \in Ids, NEW c, ReplaceDocument(i, c)
  PROVE  IInv'
<1> DEFINE e == Stored(Parsed(store.docs[i].path, c))
           d == [e EXCEPT !.direct = i \in DOMAIN store.hashes]
           s == [store EXCEPT !.docs[i] = d]
<1>1. UNCHANGED <<mode, tx, job>> /\ i \in DOMAIN store.docs
  BY DEF ReplaceDocument
<1>2. Flush(s, store, PagesWith(d))  BY DEF ReplaceDocument
<1>3. IsDoc(e)
  <2>1. store.docs[i].path \in Paths \cup {NoPath}
    BY <1>1 DEF IInv, GoodStore, Match, IsDoc
  <2>2. QED  BY <2>1, ParsedIsDoc
<1>4. IsDoc(d) /\ (i \in DOMAIN store.hashes => d.direct)
  <2> DEFINE v == i \in DOMAIN store.hashes
  <2>1. v \in BOOLEAN  OBVIOUS
  <2>2. v <=> i \in DOMAIN store.hashes  OBVIOUS
  <2> HIDE DEF e, v
  <2>3. QED  BY <1>3, <2>1, <2>2, DirectChanged
<1> DEFINE D == [store.docs EXCEPT ![i] = d]
<1> HIDE DEF d
<1>5. s = [store EXCEPT !.docs = D]  OBVIOUS
<1>6. Match(D, store.hashes) /\ DOMAIN D = DOMAIN store.docs
  BY <1>1, <1>4, ReplacedMatches DEF IInv, GoodStore
<1>11. Fresh(D, store.next)  BY <1>6 DEF IInv, Fresh
<1> HIDE DEF D, s
<1>7. GoodStore(s) /\ Fresh(s.docs, s.next) /\ s.next = store.next
  <2>1. s = [store EXCEPT !.docs = D, !.hashes = store.hashes]
    BY <1>5 DEF IInv, GoodStore
  <2>2. QED  BY <1>6, <1>11, <2>1, OthersAreGood
<1>8. store' \in {s, store} /\ GoodStore(store') /\ GoodDb(db')
  BY <1>2, <1>7, FlushKeeps DEF IInv
<1>9. Fresh(store'.docs, store'.next) /\ store'.next >= store.next
  BY <1>7, <1>8 DEF IInv, GoodStore
<1>10. QED  BY <1>1, <1>8, <1>9, SnapshotsStay

(* A file is skipped. *)
LEMMA SkipStep ==
  ASSUME IInv, NEW p, NEW c, Done(p, c), UNCHANGED <<mode, store, db, tx>>,
         p \in job.todo
  PROVE  IInv'
<1>1. mode # "none"  BY DEF IInv, NoJob
<1>2. GoodJob(job') /\ job'.docs = job.docs  BY DEF IInv, GoodJob, Done
<1>3. QED  BY <1>1, <1>2 DEF IInv

(* A file is indexed: the store changes, and the snapshot does not. *)
LEMMA IndexStep ==
  ASSUME IInv, NEW p, NEW c, Done(p, c), UNCHANGED <<mode, tx>>,
         p \in job.todo, GoodStore(store'), Fresh(store'.docs, store'.next),
         store'.next >= store.next, GoodDb(db')
  PROVE  IInv'
<1>1. mode # "none"  BY DEF IInv, NoJob
<1>2. GoodJob(job') /\ job'.docs = job.docs  BY DEF IInv, GoodJob, Done
<1>3. Fresh(tx.docs, store'.next) /\ Fresh(job.docs, store'.next)
  BY DEF IInv, Fresh, GoodStore, GoodJob, Match, IsMap, Ids
<1>4. QED  BY <1>1, <1>2, <1>3 DEF IInv

(* reindex_paths finds another content: document and hash change. *)
LEMMA ChangedStep ==
  ASSUME IInv, NEW p \in Paths, NEW c, IndexChanged(p, c)
  PROVE  IInv'
<1> DEFINE d == Stored(Parsed(p, c))
<1>1. PICK i \in Ids :
        /\ IsByPath(p, i)
        /\ store' = [store EXCEPT !.docs[i] = d, !.hashes = With(@, i, c)]
        /\ db' = [db EXCEPT !.pages = PagesWith(d)]
  BY DEF IndexChanged
<1>2. i \in DOMAIN store.docs  BY <1>1 DEF IsByPath, IsMax
<1>3. IsDoc(d) /\ d.sum = c  BY ParsedIsDoc
<1> HIDE DEF d
<1> DEFINE D == [store.docs EXCEPT ![i] = d]
           H == With(store.hashes, i, c)
<1>4. Match(D, H) /\ DOMAIN D = DOMAIN store.docs
  <2>1. Match(store.docs, store.hashes)  BY DEF IInv, GoodStore
  <2>2. D = With(store.docs, i, d)
    BY <1>2, <2>1, ReplaceIsWith DEF Match, IsMap
  <2>3. Match(With(store.docs, i, d), With(store.hashes, i, d.sum))
    BY <1>3, <2>1, HashedMatches
  <2>4. QED  BY <1>3, <2>2, <2>3
<1>5. store' = [store EXCEPT !.docs = D, !.hashes = H]  BY <1>1
<1>6. Fresh(D, store.next)  BY <1>4 DEF IInv, Fresh
<1> HIDE DEF D, H
<1>7. GoodStore(store') /\ Fresh(store'.docs, store'.next)
      /\ store'.next = store.next
  BY <1>4, <1>5, <1>6, OthersAreGood
<1>8. GoodDb(db') /\ store'.next >= store.next
  BY <1>1, <1>7 DEF IInv, GoodDb, GoodStore
<1>9. p \in job.todo /\ Done(p, c) /\ UNCHANGED <<mode, tx>>
  BY DEF IndexChanged
<1>10. QED  BY <1>7, <1>8, <1>9, IndexStep

(* reindex_paths finds a new file: it gets the next id, and a hash. *)
LEMMA NewStep ==
  ASSUME IInv, NEW p \in Paths, NEW c, IndexNew(p, c)
  PROVE  IInv'
<1> DEFINE d == Stored(Parsed(p, c))
           s == Added(store, d)
<1>1. p \in job.todo /\ store.next \in Ids /\ UNCHANGED <<mode, tx>>
  BY DEF IndexNew
<1>2. CASE /\ store' = [s EXCEPT !.hashes = With(@, store.next, c)]
           /\ db' = [db EXCEPT !.pages = PagesWith(d)]
           /\ Done(p, c)
  <2>1. IsDoc(d) /\ d.sum = c  BY ParsedIsDoc
  <2> HIDE DEF d
  <2> DEFINE H == With(store.hashes, store.next, c)
  <2>2. /\ GoodStore(s) /\ Fresh(s.docs, s.next)
        /\ s.next = store.next + 1 /\ s.hashes = store.hashes
        /\ Match(s.docs, H)
    BY <1>1, <2>1, AddedIsGood
  <2> HIDE DEF s
  <2>3. store' = [s EXCEPT !.hashes = H]  BY <1>2, <2>2
  <2> HIDE DEF H
  <2>4. store' = [docs |-> s.docs, hashes |-> H, next |-> s.next]
    BY <2>2, <2>3 DEF GoodStore
  <2>5. GoodStore(store') /\ Fresh(store'.docs, store'.next)
        /\ store'.next >= store.next
    BY <2>2, <2>4 DEF GoodStore, IInv
  <2>6. GoodDb(db')  BY <1>2 DEF IInv, GoodDb
  <2>7. QED  BY <1>1, <1>2, <2>5, <2>6, IndexStep
<1>3. CASE store' = Burnt(store) /\ Done(p, Missing) /\ UNCHANGED db
  <2>1. GoodStore(store') /\ Fresh(store'.docs, store'.next)
        /\ store'.next >= store.next
    BY <1>3, BurntIsGood DEF IInv, GoodStore
  <2>2. GoodDb(db')  BY <1>3 DEF IInv
  <2>3. QED  BY <1>1, <1>3, <2>1, <2>2, IndexStep
<1>4. QED  BY <1>2, <1>3 DEF IndexNew

(* Documents and hashes go back to those of a snapshot, without indexes. *)
LEMMA RestoredIsGood ==
  ASSUME IInv, NEW D, NEW H, Match(D, H), Fresh(D, store.next)
  PROVE  LET s == [store EXCEPT !.docs = NoIndexes(D), !.hashes = H]
         IN  GoodStore(s) /\ Fresh(s.docs, s.next) /\ s.next = store.next
<1> DEFINE N == NoIndexes(D)
<1>1. Match(N, H) /\ DOMAIN N = DOMAIN D  BY NoIndexesMatches
<1> HIDE DEF N
<1>2. Fresh(N, store.next)  BY <1>1 DEF Fresh
<1>3. LET s == [store EXCEPT !.docs = N, !.hashes = H]
      IN  GoodStore(s) /\ Fresh(s.docs, s.next) /\ s.next = store.next
  BY <1>1, <1>2, OthersAreGood
<1>4. QED  BY <1>3 DEF N

(* reindex_paths ends: documents go with their hashes, or all come back. *)
LEMMA EndStep ==
  ASSUME IInv, EndReindex
  PROVE  IInv'
<1> DEFINE D == Without(store.docs, Gone)
           H == Without(store.hashes, Gone)
           s == [store EXCEPT !.docs = D, !.hashes = H]
           u == [store EXCEPT !.docs = NoIndexes(job.docs),
                              !.hashes = job.hashes]
<1>1. Flush(s, u, db.pages) /\ job' = NoJob /\ UNCHANGED <<mode, tx>>
  BY DEF EndReindex
<1>2. GoodStore(s) /\ Fresh(s.docs, s.next) /\ s.next = store.next
  <2>1. Match(D, H)  BY PrunedMatches DEF IInv, GoodStore
  <2>2. Fresh(D, store.next)  BY DEF IInv, Fresh, Without
  <2> HIDE DEF D, H
  <2>3. QED  BY <2>1, <2>2, OthersAreGood
<1>3. GoodStore(u) /\ Fresh(u.docs, u.next) /\ u.next = store.next
  <2>1. Match(job.docs, job.hashes) /\ Fresh(job.docs, store.next)
    BY DEF IInv, GoodJob
  <2>2. QED  BY <2>1, RestoredIsGood
<1> HIDE DEF s, u
<1>4. store' \in {s, u} /\ GoodStore(store') /\ GoodDb(db')
  BY <1>1, <1>2, <1>3, FlushKeeps DEF IInv
<1>5. Fresh(store'.docs, store'.next) /\ store'.next = store.next
  BY <1>2, <1>3, <1>4
<1>6. GoodJob(NoJob) /\ Fresh(NoJob.docs, store.next)
  BY NoneMatches DEF GoodJob, NoJob, Fresh, None
<1>7. QED  BY <1>1, <1>4, <1>5, <1>6 DEF IInv

(* A snapshot of the store is as good as the store. *)
LEMMA SnapshotSteps ==
  ASSUME IInv, NEW P, NEW prune, StartReindex(P, prune) \/ Begin \/ Commit
  PROVE  IInv'
<1>1. CASE StartReindex(P, prune)
  BY <1>1 DEF IInv, GoodJob, GoodStore, StartReindex, Ready
<1>2. CASE Begin
  BY <1>2 DEF IInv, GoodStore, Begin, Ready
<1>3. CASE Commit
  BY <1>3, NoneMatches DEF IInv, Commit, NoTx, Fresh, None, Ready
<1>4. QED  BY <1>1, <1>2, <1>3

(* rollback_transaction. *)
LEMMA RollbackStep ==
  ASSUME IInv, Rollback
  PROVE  IInv'
<1> DEFINE s == [store EXCEPT !.docs = NoIndexes(tx.docs), !.hashes = tx.hashes]
<1>1. /\ Flush(s, s, db.pages) /\ tx' = NoTx /\ UNCHANGED <<mode, job>>
      /\ mode # "none"
  BY DEF Rollback, Ready
<1>2. GoodStore(s) /\ Fresh(s.docs, s.next) /\ s.next = store.next
  BY RestoredIsGood DEF IInv
<1> HIDE DEF s
<1>3. store' = s /\ GoodStore(store') /\ GoodDb(db')
  BY <1>1, <1>2, FlushKeeps DEF IInv
<1>4. Match(NoTx.docs, NoTx.hashes) /\ Fresh(NoTx.docs, store.next)
  BY NoneMatches DEF NoTx, Fresh, None
<1>5. QED  BY <1>1, <1>2, <1>3, <1>4 DEF IInv

(* save and vacuum. *)
LEMMA FileSteps ==
  ASSUME IInv, Save \/ Vacuum
  PROVE  IInv'
<1>1. GoodDb(db')  BY RewrittenIsGood DEF IInv, Save, Vacuum
<1>2. UNCHANGED <<store, tx, job>> /\ mode' # "none"
  BY DEF Save, Vacuum, Ready
<1>3. QED  BY <1>1, <1>2 DEF IInv
-----------------------------------------------------------------------------
(* Every step keeps the invariant. *)
LEMMA NextIInv == IInv /\ [Next]_vars => IInv'
<1> SUFFICES ASSUME IInv, [Next]_vars PROVE IInv'  OBVIOUS
<1>1. CASE NewStore \/ Open \/ Load \/ ProcessEnds  BY <1>1, ProcessSteps
<1>2. CASE LoadAllBlocks \/ LoadAllIndexes  BY <1>2, LoadSteps
<1>3. ASSUME NEW p \in Paths, SkipUnreadable(p) PROVE IInv'
  BY <1>3, SkipStep DEF SkipUnreadable
<1>4. ASSUME NEW p \in Paths, NEW c \in Texts, SkipUnchanged(p, c) PROVE IInv'
  BY <1>4, SkipStep DEF SkipUnchanged
<1>5. ASSUME NEW p \in Paths, NEW c \in Texts, IndexChanged(p, c) PROVE IInv'
  BY <1>5, ChangedStep
<1>6. ASSUME NEW p \in Paths, NEW c \in Texts, IndexNew(p, c) PROVE IInv'
  BY <1>6, NewStep
<1>7. ASSUME NEW p \in Paths \cup {NoPath}, NEW c \in Texts,
             AppendDocument(p, c)
      PROVE  IInv'
  BY <1>7, AppendStep
<1>8. ASSUME NEW i \in Ids, NEW c \in Texts, ReplaceDocument(i, c) PROVE IInv'
  BY <1>8, ReplaceStep
<1>9. ASSUME NEW P \in SUBSET Paths, NEW prune \in BOOLEAN,
             StartReindex(P, prune)
      PROVE  IInv'
  BY <1>9, SnapshotSteps
<1>10. CASE EndReindex  BY <1>10, EndStep
<1>11. CASE Save \/ Vacuum  BY <1>11, FileSteps
<1>12. CASE Begin \/ Commit  BY <1>12, SnapshotSteps
<1>13. CASE Rollback  BY <1>13, RollbackStep
<1>14. CASE UNCHANGED vars  BY <1>14 DEF vars, IInv
<1>15. QED
  BY <1>1, <1>2, <1>3, <1>4, <1>5, <1>6, <1>7, <1>8, <1>9, <1>10, <1>11,
     <1>12, <1>13, <1>14 DEF Next

(* IInv is an invariant of every behaviour. *)
THEOREM Invariant == Spec => []IInv
BY InitIInv, NextIInv, PTL DEF Spec

(* No document gets the id of another that is in the store, or that a      *)
(* rollback or a failed reindex_paths brings back: do_append counts on from *)
(* next_doc_id, which open computes from the catalog.                      *)
THEOREM IdsStayFresh == Spec => []IdsAreFresh
<1>1. IInv => IdsAreFresh  BY DEF IInv, Fresh, IdsAreFresh
<1>2. QED  BY <1>1, Invariant, PTL

(* No hash outlives the content it is of, replace_document aside: what     *)
(* reindex_paths skips as unchanged is unchanged, in memory, in the file   *)
(* and after a rollback.                                                   *)
THEOREM HashesStayMatched == Spec => []HashesMatch
<1>1. IInv => HashesMatch  BY DEF IInv, GoodStore, GoodDb, Match, HashesMatch
<1>2. QED  BY <1>1, Invariant, PTL

-----------------------------------------------------------------------------
(* Pages and caches.                                                       *)
(*                                                                         *)
(* As long as vacuum is called with all blocks in memory, and nothing is   *)
(* written after it, every document that is in memory or may come back is  *)
(* on the pages of the file it was opened from, which are only added to.   *)
(* So the command line calls it: open_store_for_sql loads all blocks, and  *)
(* the process ends after vacuum.  Without it CatalogReadable does not     *)
(* hold, which the run with VacuumUnloaded = TRUE shows.                   *)

Protocol == ~VacuumUnloaded /\ ~WritesAfterVacuum

(* The pages that document d names are its own. *)
Paged(P, d) ==
  /\ d.sum # NoBlocks => HoldsBlocks(P, d.bpage) /\ P[d.bpage].of = d.sum
  /\ d.ipage \in DOMAIN P /\ P[d.ipage] = [kind |-> "index", of |-> d.sum]

(* What of d is in memory is of one content, and the rest is in the file;  *)
(* without a file everything is in memory.                                 *)
Sound(m, P, d) ==
  /\ d \in Doc
  /\ d.blocks \in {NoBlocks, d.sum} /\ d.idx \in {NoIndex, d.sum}
  /\ m = "file" => Paged(P, d)
  /\ m = "memory" => d.blocks = d.sum

Whole(m, P, D) == IsMap(D) /\ \A i \in DOMAIN D : Sound(m, P, D[i])

GoodPages(P) == P \in Seq(Page) /\ Len(P) <= MaxPages

GoodFile(b) ==
  /\ GoodPages(b.pages) /\ Whole("file", b.pages, b.docs) /\ IsHashes(b.hashes)
  /\ LazyDocs(b.docs) = b.docs

(* The inductive invariant of pages and caches. *)
PInv ==
  /\ IInv
  /\ mode \in {"none", "memory", "file", "vacuumed"}
  /\ job.on => mode \in {"memory", "file"}
  /\ job.on \/ job = NoJob
  /\ GoodFile(db)
  /\ Whole(mode, db.pages, store.docs) /\ IsHashes(store.hashes)
  /\ Whole(mode, db.pages, tx.docs) /\ IsHashes(tx.hashes)
  /\ Whole(mode, db.pages, job.docs) /\ IsHashes(job.hashes)
  /\ ReopensAsIs

Extends(P, Q) == \A k \in DOMAIN P : k \in DOMAIN Q /\ Q[k] = P[k]

(* A page that is added changes no other. *)
LEMMA PagedStays ==
  ASSUME NEW P, NEW Q, Extends(P, Q), NEW m, NEW D, Whole(m, P, D)
  PROVE  Whole(m, Q, D)
BY DEF Extends, Whole, Sound, Paged, HoldsBlocks

LEMMA PagesAppended ==
  ASSUME NEW P \in Seq(Page), NEW x \in Page
  PROVE  /\ Append(P, x) \in Seq(Page) /\ Len(Append(P, x)) = Len(P) + 1
         /\ Extends(P, Append(P, x))
BY DEF Extends

(* A document that is not in a file needs no pages. *)
LEMMA NoFileNeeded ==
  ASSUME NEW m, m # "file", NEW P, NEW Q, NEW D, Whole(m, P, D)
  PROVE  Whole(m, Q, D)
BY DEF Whole, Sound

(* The updates of documents. *)
LEMMA LazySound ==
  ASSUME NEW P, NEW d, Sound("file", P, d)
  PROVE  Sound("file", P, Lazy(d)) /\ Lazy(Lazy(d)) = Lazy(d)
<1> DEFINE e == Lazy(d)
<1>1. /\ e \in Doc /\ e.blocks = NoBlocks /\ e.idx = NoIndex
      /\ e.sum = d.sum /\ e.bpage = d.bpage /\ e.ipage = d.ipage
  BY DEF Sound, Lazy, Doc, Texts, NoIndex
<1>2. Lazy(e) = e
  BY DEF Sound, Lazy, Doc
<1> HIDE DEF e
<1>3. Sound("file", P, e)  BY <1>1 DEF Sound, Paged
<1>4. QED  BY <1>2, <1>3 DEF e

LEMMA LazyWhole ==
  ASSUME NEW P, NEW D, Whole("file", P, D)
  PROVE  Whole("file", P, LazyDocs(D)) /\ LazyDocs(LazyDocs(D)) = LazyDocs(D)
BY LazySound DEF Whole, LazyDocs, IsMap

LEMMA CacheSound ==
  ASSUME NEW m, NEW P, NEW d, Sound(m, P, d), NEW x
  PROVE  /\ x = d.sum => Sound(m, P, [d EXCEPT !.blocks = x])
                         /\ [d EXCEPT !.blocks = x].blocks = d.sum
         /\ x = d.sum => Sound(m, P, [d EXCEPT !.idx = x])
         /\ Sound(m, P, [d EXCEPT !.idx = NoIndex])
<1>1. /\ d \in Doc /\ d.sum \in Texts
      /\ d.blocks \in {NoBlocks, d.sum} /\ d.idx \in {NoIndex, d.sum}
  BY DEF Sound, Doc
<1>2. ASSUME x = d.sum
      PROVE  Sound(m, P, [d EXCEPT !.blocks = x]) /\ [d EXCEPT !.blocks = x].blocks = x
  <2> DEFINE e == [d EXCEPT !.blocks = x]
  <2>1. /\ e \in Doc /\ e.blocks = x /\ e.idx = d.idx
        /\ e.sum = d.sum /\ e.bpage = d.bpage /\ e.ipage = d.ipage
    BY <1>1, <1>2 DEF Doc
  <2> HIDE DEF e
  <2>2. Sound(m, P, e)  BY <1>1, <1>2, <2>1 DEF Sound, Paged
  <2>3. QED  BY <2>1, <2>2 DEF e
<1>3. ASSUME NEW y \in {NoIndex, d.sum}
      PROVE  Sound(m, P, [d EXCEPT !.idx = y])
  <2> DEFINE e == [d EXCEPT !.idx = y]
  <2>1. /\ e \in Doc /\ e.blocks = d.blocks /\ e.idx = y
        /\ e.sum = d.sum /\ e.bpage = d.bpage /\ e.ipage = d.ipage
    BY <1>1 DEF Doc
  <2> HIDE DEF e
  <2>2. Sound(m, P, e)  BY <1>1, <2>1 DEF Sound, Paged
  <2>3. QED  BY <2>2 DEF e
<1>4. QED  BY <1>2, <1>3

LEMMA NoIndexesWhole ==
  ASSUME NEW m, NEW P, NEW D, Whole(m, P, D)
  PROVE  Whole(m, P, NoIndexes(D))
BY CacheSound DEF Whole, NoIndexes, IsMap

LEMMA WithWhole ==
  ASSUME NEW m, NEW P, NEW D, Whole(m, P, D), NEW i \in Ids, NEW d, Sound(m, P, d)
  PROVE  Whole(m, P, With(D, i, d))
BY DEF Whole, With, IsMap

LEMMA WithoutWhole ==
  ASSUME NEW m, NEW P, NEW D, Whole(m, P, D), NEW I
  PROVE  Whole(m, P, Without(D, I))
BY DEF Whole, Without, IsMap

(* A document of add_str has the pages it is written to. *)
LEMMA PagesWithGrow ==
  ASSUME db.pages \in Seq(Page), NEW d, d.blocks \in Texts
  PROVE  /\ PagesWith(d) \in Seq(Page) /\ Extends(db.pages, PagesWith(d))
         /\ InFile => LET n == Len(db.pages) IN
              /\ Len(PagesWith(d)) = n + 2
              /\ n + 1 \in DOMAIN PagesWith(d) /\ n + 2 \in DOMAIN PagesWith(d)
              /\ PagesWith(d)[n + 1] = [kind |-> "blocks", of |-> d.blocks]
              /\ PagesWith(d)[n + 2] = [kind |-> "index", of |-> d.blocks]
         /\ ~InFile => PagesWith(d) = db.pages
<1>1. CASE ~InFile
  BY <1>1 DEF PagesWith, Extends
<1>2. CASE InFile
  <2> DEFINE x == [kind |-> "blocks", of |-> d.blocks]
             y == [kind |-> "index", of |-> d.blocks]
             n == Len(db.pages)
  <2>1. x \in Page /\ y \in Page  BY DEF Page
  <2>2. PagesWith(d) = db.pages \o <<x, y>>  BY <1>2 DEF PagesWith
  <2> HIDE DEF x, y
  <2>3. /\ <<x, y>> \in Seq(Page) /\ Len(<<x, y>>) = 2
        /\ <<x, y>>[1] = x /\ <<x, y>>[2] = y
    BY <2>1
  <2>4. /\ PagesWith(d) \in Seq(Page) /\ Len(PagesWith(d)) = n + 2 /\ n \in Nat
        /\ DOMAIN PagesWith(d) = 1 .. n + 2 /\ DOMAIN db.pages = 1 .. n
    BY <2>2, <2>3
  <2>5. \A k \in 1 .. n : PagesWith(d)[k] = db.pages[k]
    BY <2>2, <2>3
  <2>6. PagesWith(d)[n + 1] = x /\ PagesWith(d)[n + 2] = y
    BY <2>2, <2>3
  <2>7. QED  BY <1>2, <2>4, <2>5, <2>6 DEF Extends, x, y
<1>3. QED  BY <1>1, <1>2

LEMMA StoredIsSound ==
  ASSUME GoodPages(db.pages), mode \in {"memory", "file"},
         NEW p \in Paths \cup {NoPath}, NEW c \in Texts,
         NEW d, d = Stored(Parsed(p, c)), Len(PagesWith(d)) <= MaxPages
  PROVE  Sound(mode, PagesWith(d), d) /\ d.path = p /\ d.sum = c /\ d.blocks = c
<1> DEFINE q == Parsed(p, c)
           n == Len(db.pages)
<1>1. /\ q \in Doc /\ q.path = p /\ q.blocks = c /\ q.sum = c /\ q.idx = NoIndex
      /\ q.bpage = 0 /\ q.ipage = 0
  BY BoundsAssumption DEF Parsed, Doc
<1>2. CASE mode = "memory"
  <2>1. d = q  BY <1>2 DEF Stored, InFile
  <2>2. QED  BY <1>1, <1>2, <2>1 DEF Sound
<1>3. CASE mode = "file"
  <2>1. d = [q EXCEPT !.idx = q.blocks, !.bpage = n + 1, !.ipage = n + 2]
    BY <1>3 DEF Stored, InFile
  <2> HIDE DEF q
  <2>2. /\ DOMAIN d = DOMAIN q /\ d.blocks = q.blocks
    BY <1>1, <2>1 DEF Doc
  <2>3. /\ n + 1 \in 0 .. MaxPages /\ n + 2 \in 0 .. MaxPages
        /\ n + 1 \in DOMAIN PagesWith(d) /\ n + 2 \in DOMAIN PagesWith(d)
        /\ PagesWith(d)[n + 1] = [kind |-> "blocks", of |-> c]
        /\ PagesWith(d)[n + 2] = [kind |-> "index", of |-> c]
    BY <1>1, <1>3, <2>2, PagesWithGrow, BoundsAssumption DEF InFile, GoodPages
  <2>4. /\ d \in Doc /\ d.path = p /\ d.blocks = c /\ d.sum = c /\ d.idx = c
        /\ d.bpage = n + 1 /\ d.ipage = n + 2
    BY <1>1, <2>1, <2>3 DEF Doc, Texts
  <2> HIDE DEF n
  <2>5. QED  BY <1>3, <2>3, <2>4 DEF Sound, Paged, HoldsBlocks
<1>4. QED  BY <1>2, <1>3

(* What a flush publishes can be read, and shows the store it publishes.   *)
LEMMA PublishedIsSound ==
  ASSUME NEW s, NEW pages, GoodPages(pages), Len(pages) < MaxPages,
         Whole("file", pages, s.docs), IsHashes(s.hashes)
  PROVE  LET b == Published(s, pages) IN
         /\ GoodFile(b) /\ Extends(pages, b.pages)
         /\ b.docs = LazyDocs(s.docs) /\ b.hashes = s.hashes
<1> DEFINE b == Published(s, pages)
<1>1. /\ b.pages = Append(pages, CatalogPage) /\ b.docs = LazyDocs(s.docs)
      /\ b.hashes = s.hashes
  BY DEF Published
<1> HIDE DEF b
<1>2. CatalogPage \in Page  BY DEF CatalogPage, Page, Texts
<1>3. /\ Append(pages, CatalogPage) \in Seq(Page)
      /\ Len(Append(pages, CatalogPage)) <= MaxPages
      /\ Extends(pages, Append(pages, CatalogPage))
  BY <1>2, PagesAppended, BoundsAssumption DEF GoodPages
<1>4. Whole("file", b.pages, b.docs) /\ LazyDocs(b.docs) = b.docs
  BY <1>1, <1>3, PagedStays, LazyWhole
<1>5. QED  BY <1>1, <1>3, <1>4 DEF GoodFile, GoodPages, b

(* A flush, whether it succeeds, fails or nobody knows, leaves a file that *)
(* can be read, and on it the store it ends with.                          *)
LEMMA FlushIsSound ==
  ASSUME GoodFile(db), mode \in {"memory", "file"},
         db = [pages |-> db.pages, docs |-> db.docs, hashes |-> db.hashes],
         NEW s, NEW u, NEW pages, GoodPages(pages), Extends(db.pages, pages),
         Whole(mode, pages, s.docs), Whole(mode, pages, u.docs),
         IsHashes(s.hashes), IsHashes(u.hashes), Flush(s, u, pages)
  PROVE  /\ GoodFile(db') /\ Extends(db.pages, db'.pages)
         /\ Whole(mode, db'.pages, store'.docs) /\ IsHashes(store'.hashes)
         /\ mode = "file" /\ ~doubt' =>
              db'.docs = LazyDocs(store'.docs) /\ db'.hashes = store'.hashes
         /\ store' \in {s, u}
<1>1. CASE mode = "memory"
  <2>1. store' = s /\ db' = db  BY <1>1 DEF Flush, InFile
  <2>2. Extends(db.pages, db.pages)  BY DEF Extends
  <2>3. QED  BY <1>1, <2>1, <2>2, NoFileNeeded
<1>2. CASE mode = "file"
  <2> DEFINE b == Published(s, pages)
             a == [db EXCEPT !.pages = pages]
  <2>1. /\ Len(pages) < MaxPages
        /\ \/ store' = s /\ db' = b /\ doubt' = FALSE
           \/ store' = u /\ doubt' = TRUE /\ db' \in {a, b}
    BY <1>2 DEF Flush, InFile
  <2>2. /\ GoodFile(b) /\ Extends(pages, b.pages)
        /\ b.docs = LazyDocs(s.docs) /\ b.hashes = s.hashes
    BY <1>2, <2>1, PublishedIsSound
  <2>3. a.pages = pages /\ a.docs = db.docs /\ a.hashes = db.hashes
    OBVIOUS
  <2>4. GoodFile(a)
    BY <2>3, PagedStays DEF GoodFile
  <2> HIDE DEF a, b
  <2>5. /\ GoodFile(db') /\ Extends(pages, db'.pages)
    <3>1. Extends(pages, pages)  BY DEF Extends
    <3>2. QED  BY <2>1, <2>2, <2>3, <2>4, <3>1
  <2>6. Extends(db.pages, db'.pages)  BY <2>5 DEF Extends
  <2>7. store' \in {s, u} /\ Whole(mode, db'.pages, store'.docs)
    BY <2>1, <2>5, PagedStays
  <2>8. ~doubt' => store' = s /\ db' = b  BY <2>1
  <2>9. IsHashes(store'.hashes)  BY <2>7
  <2>10. QED  BY <2>2, <2>5, <2>6, <2>7, <2>8, <2>9
<1>3. QED  BY <1>1, <1>2

(* What every step that stays in one store has to show.                    *)
LEMMA PStay ==
  ASSUME PInv, [Next]_vars, mode \in {"memory", "file"}, mode' = mode, GoodFile(db'),
         mode # "file" \/ Extends(db.pages, db'.pages),
         Whole(mode, db'.pages, store'.docs), IsHashes(store'.hashes),
         \/ tx' = tx \/ tx' = NoTx
         \/ tx'.docs = store.docs /\ tx'.hashes = store.hashes,
         \/ job'.docs = job.docs /\ job'.hashes = job.hashes
         \/ job' = NoJob
         \/ job'.docs = store.docs /\ job'.hashes = store.hashes,
         job'.on \/ job' = NoJob,
         mode = "file" /\ ~job'.on /\ ~doubt' =>
           db'.docs = LazyDocs(store'.docs) /\ db'.hashes = store'.hashes
  PROVE  PInv'
<1>1. IInv'  BY NextIInv DEF PInv
<1>2. \A D : Whole(mode, db.pages, D) => Whole(mode, db'.pages, D)
  BY PagedStays, NoFileNeeded
<1>3. /\ Whole(mode, db'.pages, None) /\ IsHashes(None)
  BY DEF Whole, None, IsMap, IsHashes
<1>4. Whole(mode, db'.pages, tx'.docs) /\ IsHashes(tx'.hashes)
  BY <1>2, <1>3 DEF PInv, NoTx
<1>5. Whole(mode, db'.pages, job'.docs) /\ IsHashes(job'.hashes)
  BY <1>2, <1>3 DEF PInv, NoJob
<1>6. ReopensAsIs'  BY DEF ReopensAsIs
<1>7. QED  BY <1>1, <1>4, <1>5, <1>6 DEF PInv

(* The positions of save_inner: one for each id. *)
LEMMA RanksPlace ==
  ASSUME NEW I, I \subseteq Ids
  PROVE  /\ Cardinality(I) \in Nat
         /\ \A i \in I : /\ Rank(I, i) \in 1 .. Cardinality(I)
                         /\ Nth(I, Rank(I, i)) = i
<1> DEFINE U(i) == {j \in I : j <= i}
<1>1. IsFiniteSet(I) /\ Cardinality(I) \in Nat
  <2>1. IsFiniteSet(0 .. MaxId)  BY FS_Interval, BoundsAssumption
  <2>2. QED  BY <2>1, FS_Subset, FS_CardinalityType DEF Ids
<1>2. ASSUME NEW i \in I
      PROVE  /\ IsFiniteSet(U(i)) /\ Cardinality(U(i)) \in 1 .. Cardinality(I)
             /\ Rank(I, i) = Cardinality(U(i))
  <2>1. U(i) \in SUBSET I /\ i \in U(i)  BY BoundsAssumption DEF Ids
  <2>2. /\ IsFiniteSet(U(i)) /\ Cardinality(U(i)) <= Cardinality(I)
    BY <1>1, <2>1, FS_Subset
  <2>3. Cardinality(U(i)) \in Nat /\ Cardinality(U(i)) # 0
    BY <2>1, <2>2, FS_CardinalityType, FS_EmptySet
  <2>4. QED  BY <1>1, <2>2, <2>3 DEF Rank
<1>3. ASSUME NEW i \in I, NEW j \in I, Cardinality(U(i)) = Cardinality(U(j)), i < j
      PROVE  FALSE
  <2>3. \A k \in I : k \in Int  BY BoundsAssumption DEF Ids
  <2>4. j <= j /\ ~(j <= i) /\ \A k \in I : k <= i => k <= j  BY <1>3, <2>3
  <2>1. U(i) \in SUBSET U(j) /\ j \in U(j) /\ j \notin U(i)  BY <2>4
  <2>2. U(j) = U(i)  BY <1>2, <1>3, <2>1, FS_Subset
  <2>5. QED  BY <2>1, <2>2
<1>4. ASSUME NEW i \in I, NEW j \in I, Rank(I, i) = Rank(I, j)
      PROVE  i = j
  <2>1. i \in Int /\ j \in Int  BY BoundsAssumption DEF Ids
  <2>2. Cardinality(U(i)) = Cardinality(U(j))  BY <1>2, <1>4
  <2> HIDE DEF U
  <2>3. i = j \/ i < j \/ j < i  BY <2>1
  <2>4. QED  BY <1>3, <2>2, <2>3
<1>5. ASSUME NEW i \in I
      PROVE  Nth(I, Rank(I, i)) = i
  BY <1>4 DEF Nth
<1>6. QED  BY <1>1, <1>2, <1>5

(* What save_inner writes can be read, when all blocks are in memory.      *)
LEMMA RewrittenIsSound ==
  ASSUME PInv, Fits, \A i \in DOMAIN store.docs : store.docs[i].blocks = store.docs[i].sum
  PROVE  GoodFile(Rewritten(store))
<1> DEFINE I == DOMAIN store.docs
           n == Cardinality(I)
           M(i) == [store.docs[i] EXCEPT !.bpage = Rank(I, i), !.ipage = n + Rank(I, i)]
           E == [i \in I |-> M(i)]
           s == [store EXCEPT !.docs = E]
           P == [k \in 1 .. 2 * n |->
                   IF k <= n
                   THEN [kind |-> "blocks", of |-> store.docs[Nth(I, k)].blocks]
                   ELSE [kind |-> "index", of |-> IndexToSave(store.docs[Nth(I, k - n)])]]
<1>1. Rewritten(store) = Published(s, P)  BY DEF Rewritten
<1>2. /\ I \subseteq Ids /\ n \in Nat /\ 2 * n < MaxPages
      /\ \A i \in I : Rank(I, i) \in 1 .. n /\ Nth(I, Rank(I, i)) = i
  BY RanksPlace DEF PInv, Whole, IsMap, Fits
<1>3. \A k \in 1 .. n : Nth(I, k) \in I
  <2>1. ASSUME NEW k \in 1 .. n
        PROVE  \E i \in I : Rank(I, i) = k
    <3> DEFINE R == {Rank(I, i) : i \in I}
    <3>1. R \in SUBSET (1 .. n)  BY <1>2
    <3>2. IsFiniteSet(1 .. n) /\ Cardinality(1 .. n) = n
      BY <1>2, FS_Interval
    <3>3. IsFiniteSet(I)
      <4>1. IsFiniteSet(0 .. MaxId)  BY FS_Interval, BoundsAssumption
      <4>2. QED  BY <1>2, <4>1, FS_Subset DEF Ids
    <3>4. Cardinality(R) = n
      <4>1. [i \in I |-> Rank(I, i)] \in Bijection(I, R)
        <5>1. \A i, j \in I : Rank(I, i) = Rank(I, j) => i = j
          BY <1>2
        <5>2. QED  BY <5>1, Fun_IsBij
      <4>2. QED  BY <3>3, <4>1, FS_Bijection DEF ExistsBijection
    <3>5. R = 1 .. n  BY <3>1, <3>2, <3>4, FS_Subset
    <3>6. QED  BY <3>5
  <2>2. QED  BY <2>1 DEF Nth
<1>4. \A i \in I : /\ store.docs[i] \in Doc
                   /\ store.docs[i].sum \in Texts
                   /\ store.docs[i].blocks = store.docs[i].sum
                   /\ IndexToSave(store.docs[i]) = store.docs[i].sum
  BY DEF PInv, Whole, Sound, IndexToSave, Doc
<1>5. GoodPages(P) /\ Len(P) < MaxPages
  <2>1. \A k \in 1 .. 2 * n : P[k] \in Page
    <3> SUFFICES ASSUME NEW k \in 1 .. 2 * n PROVE P[k] \in Page  OBVIOUS
    <3>1. k <= n => store.docs[Nth(I, k)].blocks \in Texts
      BY <1>2, <1>3, <1>4
    <3>2. ~(k <= n) => IndexToSave(store.docs[Nth(I, k - n)]) \in Texts
      BY <1>2, <1>3, <1>4
    <3>3. QED  BY <3>1, <3>2 DEF Page
  <2>2. P \in Seq(Page) /\ Len(P) = 2 * n
    <3> DEFINE m == 2 * n
    <3>1. P = [k \in 1 .. m |-> P[k]] /\ m \in Nat  BY <1>2
    <3> HIDE DEF P
    <3>2. P \in [1 .. m -> Page]  BY <2>1, <3>1
    <3> HIDE DEF m
    <3>3. P \in Seq(Page) /\ Len(P) = m
      <4>1. P \in Seq(Page)  BY <3>1, <3>2, SeqDef, Zenon
      <4>2. Len(P) \in Nat /\ DOMAIN P = 1 .. Len(P)  BY <4>1, LenProperties
      <4>3. DOMAIN P = 1 .. m  BY <3>2
      <4>4. \A k \in Int : (1 <= k /\ k <= m) <=> (1 <= k /\ k <= Len(P))
        BY <3>1, <4>2, <4>3
      <4>5. Len(P) = m  BY <3>1, <4>2, <4>4
      <4>6. QED  BY <4>1, <4>5
    <3>4. m = 2 * n  BY DEF m
    <3>5. QED  BY <3>3, <3>4
  <2> HIDE DEF P, n
  <2>3. QED  BY <1>2, <2>2, BoundsAssumption DEF GoodPages
<1>6. ASSUME NEW i \in I
      PROVE  Sound("file", P, M(i))
  <2> DEFINE d == store.docs[i]
             r == Rank(I, i)
  <2>1. /\ r \in 1 .. n /\ n + r \in 1 .. 2 * n /\ ~(n + r <= n)
        /\ r \in 1 .. 2 * n /\ r <= n /\ (n + r) - n = r
        /\ Nth(I, r) = i
    BY <1>2
  <2>2. /\ d \in Doc /\ d.sum \in Texts /\ d.blocks = d.sum /\ IndexToSave(d) = d.sum
        /\ d.idx \in {NoIndex, d.sum}
    BY <1>4 DEF PInv, Whole, Sound
  <2> HIDE DEF r, d
  <2>3. /\ P[r] = [kind |-> "blocks", of |-> d.sum]
        /\ P[n + r] = [kind |-> "index", of |-> d.sum]
        /\ DOMAIN P = 1 .. 2 * n
    BY <2>1, <2>2 DEF d
  <2> DEFINE e == M(i)
  <2>4. e = [d EXCEPT !.bpage = r, !.ipage = n + r]  BY DEF d, r
  <2>5. r \in 0 .. MaxPages /\ n + r \in 0 .. MaxPages
    BY <1>2, <2>1, BoundsAssumption
  <2> HIDE DEF P, e
  <2>6. /\ e \in Doc /\ e.sum = d.sum /\ e.blocks = d.blocks /\ e.idx = d.idx
        /\ e.bpage = r /\ e.ipage = n + r
    <3> HIDE DEF n
    <3>1. QED  BY <2>2, <2>4, <2>5 DEF Doc
  <2>7. QED  BY <2>1, <2>2, <2>3, <2>6 DEF Sound, Paged, HoldsBlocks, e
<1>7. /\ s.docs = E /\ s.hashes = store.hashes
  <2> HIDE DEF E
  <2>1. QED  BY DEF PInv, IInv, GoodStore
<1>8. Whole("file", P, E)
  <2>1. DOMAIN E = I /\ \A i \in I : E[i] = M(i)  OBVIOUS
  <2>2. E = [i \in I |-> E[i]]  OBVIOUS
  <2> HIDE DEF E, P
  <2>3. QED  BY <1>2, <1>6, <2>1, <2>2 DEF Whole, IsMap
<1> HIDE DEF s, P, E
<1>9. QED  BY <1>1, <1>5, <1>7, <1>8, PublishedIsSound DEF PInv

-----------------------------------------------------------------------------
(* Every step keeps pages and caches.                                      *)

(* A store that is ready has documents in memory or in its own file.       *)
LEMMA ReadyModes ==
  ASSUME Protocol, PInv, Ready
  PROVE  mode \in {"memory", "file"} /\ ~job.on /\ job = NoJob
BY DEF Protocol, PInv, Ready

LEMMA StoreFields ==
  ASSUME PInv, NEW D, NEW H
  PROVE  /\ [store EXCEPT !.docs = D].docs = D
         /\ [store EXCEPT !.docs = D].hashes = store.hashes
         /\ [store EXCEPT !.docs = D, !.hashes = H].docs = D
         /\ [store EXCEPT !.docs = D, !.hashes = H].hashes = H
         /\ db = [pages |-> db.pages, docs |-> db.docs, hashes |-> db.hashes]
<1>1. store = [docs |-> store.docs, hashes |-> store.hashes, next |-> store.next]
  BY DEF PInv, IInv, GoodStore
<1>2. [store EXCEPT !.docs = D, !.hashes = H]
      = [docs |-> D, hashes |-> H, next |-> store.next]
  BY <1>1, OtherFields
<1>3. db = [pages |-> db.pages, docs |-> db.docs, hashes |-> db.hashes]
  BY DEF PInv, IInv, GoodDb
<1>4. QED  BY <1>1, <1>2, <1>3

(* Processes begin and end. *)
LEMMA PProcesses ==
  ASSUME PInv, [Next]_vars, NewStore \/ Open \/ Load \/ ProcessEnds
  PROVE  PInv'
<1>1. IInv'  BY NextIInv DEF PInv
<1>2. \A m, P : Whole(m, P, None) /\ IsHashes(None)
  BY DEF Whole, None, IsMap, IsHashes
<1>3. mode = "none" => tx = NoTx /\ job = NoJob  BY DEF PInv, IInv
<1>4. CASE NewStore
  BY <1>1, <1>2, <1>3, <1>4 DEF NewStore, PInv, New, NoTx, NoJob, ReopensAsIs
<1>5. CASE Open
  <2>1. /\ mode' = "file" /\ db' = db /\ tx' = NoTx /\ job' = NoJob
        /\ store'.docs = db.docs /\ store'.hashes = db.hashes
    BY <1>3, <1>5 DEF Open
  <2>2. GoodFile(db)  BY DEF PInv
  <2>3. ReopensAsIs'  BY <2>1, <2>2 DEF ReopensAsIs, GoodFile
  <2>4. QED  BY <1>1, <1>2, <2>1, <2>2, <2>3 DEF PInv, GoodFile, NoTx, NoJob
<1>6. CASE Load
  <2> DEFINE D == [i \in DOMAIN db.docs |->
                    [db.docs[i] EXCEPT !.blocks = BlocksOf(db.docs[i]), !.bpage = 0]]
  <2>1. /\ mode' = "memory" /\ db' = db /\ tx' = NoTx /\ job' = NoJob
        /\ store'.docs = D /\ store'.hashes = db.hashes
    BY <1>3, <1>6 DEF Load
  <2>2. ASSUME NEW i \in DOMAIN db.docs
        PROVE  Sound("memory", db.pages, D[i])
    <3> DEFINE d == db.docs[i]
               e == [d EXCEPT !.blocks = BlocksOf(d), !.bpage = 0]
    <3>1. /\ d \in Doc /\ d.idx \in {NoIndex, d.sum} /\ d.sum \in Texts
          /\ BlocksOf(d) = d.sum
      BY DEF PInv, GoodFile, Whole, Sound, Paged, BlocksOf, Doc
    <3>2. D[i] = e  OBVIOUS
    <3> HIDE DEF d, D
    <3>3. /\ e \in Doc /\ e.blocks = d.sum /\ e.sum = d.sum /\ e.idx = d.idx
      <4> DEFINE f == [d EXCEPT !.blocks = d.sum]
      <4>1. f \in Doc /\ f.blocks = d.sum /\ f.sum = d.sum /\ f.idx = d.idx
        BY <3>1 DEF Doc
      <4>2. e = [f EXCEPT !.bpage = 0]  BY <3>1
      <4> HIDE DEF e, f
      <4>3. QED  BY <4>1, <4>2, BoundsAssumption DEF Doc
    <3> HIDE DEF e
    <3>4. QED  BY <3>1, <3>2, <3>3 DEF Sound
  <2>3. D = [i \in DOMAIN D |-> D[i]] /\ DOMAIN D = DOMAIN db.docs  OBVIOUS
  <2> HIDE DEF D
  <2>4. Whole("memory", db.pages, D)
    BY <2>2, <2>3 DEF Whole, IsMap, PInv, GoodFile
  <2>5. ReopensAsIs'  BY <2>1 DEF ReopensAsIs
  <2>6. QED  BY <1>1, <1>2, <2>1, <2>4, <2>5 DEF PInv, GoodFile, NoTx, NoJob
<1>7. CASE ProcessEnds
  BY <1>1, <1>2, <1>7 DEF ProcessEnds, PInv, New, NoTx, NoJob, ReopensAsIs
<1>8. QED  BY <1>4, <1>5, <1>6, <1>7

(* load_all_blocks and load_all_indexes read what belongs to a document.   *)
LEMMA PLoads ==
  ASSUME Protocol, PInv, [Next]_vars, LoadAllBlocks \/ LoadAllIndexes
  PROVE  PInv'
<1> DEFINE s(i) == store.docs[i]
           b(i) == IF i \in UnloadedIds
                   THEN [s(i) EXCEPT !.blocks = BlocksOf(s(i))] ELSE s(i)
           x(i) == IF s(i).idx # NoIndex THEN s(i)
                   ELSE [s(i) EXCEPT !.idx = IndexOf(s(i))]
           B == [i \in DOMAIN store.docs |-> b(i)]
           X == [i \in DOMAIN store.docs |-> x(i)]
<1>1. /\ UNCHANGED <<mode, db, tx, job, doubt>> /\ Ready
      /\ mode \in {"memory", "file"} /\ ~job.on
  BY ReadyModes DEF LoadAllBlocks, LoadAllIndexes
<1>2. \A i \in DOMAIN store.docs : Sound(mode, db.pages, s(i))
  BY DEF PInv, Whole
<1>3. ASSUME LoadAllBlocks, NEW i \in DOMAIN store.docs
      PROVE  Sound(mode, db.pages, b(i)) /\ Lazy(b(i)) = Lazy(s(i))
  <2>1. mode = "file"  BY <1>1, <1>3 DEF LoadAllBlocks, InFile
  <2>2. Sound(mode, db.pages, s(i)) /\ BlocksOf(s(i)) = s(i).sum
    BY <1>2, <2>1 DEF Sound, Paged, BlocksOf
  <2>3. Lazy([s(i) EXCEPT !.blocks = BlocksOf(s(i))]) = Lazy(s(i))
    BY <2>2 DEF Sound, Lazy, Doc
  <2>4. QED  BY <2>2, <2>3, CacheSound
<1>4. ASSUME LoadAllIndexes, NEW i \in DOMAIN store.docs
      PROVE  Sound(mode, db.pages, x(i)) /\ Lazy(x(i)) = Lazy(s(i))
  <2>1. s(i).blocks = s(i).sum
    BY <1>2, <1>4 DEF LoadAllIndexes, UnloadedIds, Unloaded, Sound
  <2>2. Sound(mode, db.pages, s(i)) /\ IndexOf(s(i)) = s(i).sum
    BY <1>1, <1>2, <2>1 DEF Sound, Paged, IndexOf, InFile
  <2>3. Lazy([s(i) EXCEPT !.idx = IndexOf(s(i))]) = Lazy(s(i))
    BY <2>2 DEF Sound, Lazy, Doc
  <2>4. QED  BY <2>2, <2>3, CacheSound
<1>5. ASSUME NEW D, D = [i \in DOMAIN store.docs |-> D[i]],
             \A i \in DOMAIN store.docs :
               Sound(mode, db.pages, D[i]) /\ Lazy(D[i]) = Lazy(s(i)),
             store' = [store EXCEPT !.docs = D]
      PROVE  PInv'
  <2>1. store'.docs = D /\ store'.hashes = store.hashes
    BY <1>5, StoreFields
  <2>2. DOMAIN D = DOMAIN store.docs  BY <1>5
  <2>3. Whole(mode, db.pages, D)
    BY <1>5, <2>2 DEF PInv, Whole, IsMap
  <2>4. LazyDocs(D) = LazyDocs(store.docs)
    BY <1>5, <2>2 DEF LazyDocs
  <2>5. mode = "file" /\ ~job'.on /\ ~doubt' =>
          db'.docs = LazyDocs(store'.docs) /\ db'.hashes = store'.hashes
    BY <1>1, <2>1, <2>4 DEF PInv, ReopensAsIs
  <2>6. Extends(db.pages, db'.pages) /\ GoodFile(db')
    BY <1>1 DEF Extends, PInv
  <2>7. QED  BY <1>1, <2>1, <2>3, <2>5, <2>6, PStay DEF PInv
<1>6. CASE LoadAllBlocks
  <2>1. store' = [store EXCEPT !.docs = B]
    BY <1>6 DEF LoadAllBlocks, PInv, IInv, GoodStore
  <2>2. B = [i \in DOMAIN store.docs |-> B[i]]
        /\ \A i \in DOMAIN store.docs : B[i] = b(i)
    OBVIOUS
  <2> HIDE DEF B
  <2>3. QED  BY <1>3, <1>5, <1>6, <2>1, <2>2
<1>7. CASE LoadAllIndexes
  <2>1. store' = [store EXCEPT !.docs = X]
    BY <1>7 DEF LoadAllIndexes, PInv, IInv, GoodStore
  <2>2. X = [i \in DOMAIN store.docs |-> X[i]]
        /\ \A i \in DOMAIN store.docs : X[i] = x(i)
    OBVIOUS
  <2> HIDE DEF X
  <2>3. QED  BY <1>4, <1>5, <1>7, <2>1, <2>2
<1>8. QED  BY <1>6, <1>7

LEMMA AddedFields ==
  ASSUME PInv, NEW d
  PROVE  /\ Added(store, d).docs = With(store.docs, store.next, d)
         /\ Added(store, d).hashes = store.hashes
         /\ Burnt(store).docs = store.docs /\ Burnt(store).hashes = store.hashes
<1> DEFINE D == With(store.docs, store.next, d)
<1>1. store = [docs |-> store.docs, hashes |-> store.hashes, next |-> store.next]
  BY DEF PInv, IInv, GoodStore
<1>2. Added(store, d) = [store EXCEPT !.docs = D, !.next = store.next + 1]
  BY DEF Added
<1> HIDE DEF D
<1>3. Added(store, d).docs = D /\ Added(store, d).hashes = store.hashes
  BY <1>1, <1>2
<1>4. Burnt(store).docs = store.docs /\ Burnt(store).hashes = store.hashes
  BY <1>1 DEF Burnt
<1>5. QED  BY <1>3, <1>4 DEF D

(* A step that ends with a flush keeps pages and caches, if what it        *)
(* publishes and what it goes back to are on the pages.                    *)
LEMMA PFlushes ==
  ASSUME Protocol, PInv, [Next]_vars, mode \in {"memory", "file"},
         NEW s, NEW u, NEW pages, Flush(s, u, pages),
         GoodPages(pages), Extends(db.pages, pages),
         Whole(mode, pages, s.docs), Whole(mode, pages, u.docs),
         IsHashes(s.hashes), IsHashes(u.hashes),
         UNCHANGED mode, tx' = tx \/ tx' = NoTx,
         job' = job \/ job' = NoJob
  PROVE  PInv'
<1>1. db = [pages |-> db.pages, docs |-> db.docs, hashes |-> db.hashes]
  BY StoreFields
<1>2. /\ GoodFile(db') /\ Extends(db.pages, db'.pages)
      /\ Whole(mode, db'.pages, store'.docs) /\ IsHashes(store'.hashes)
      /\ mode = "file" /\ ~doubt' =>
           db'.docs = LazyDocs(store'.docs) /\ db'.hashes = store'.hashes
  BY <1>1, FlushIsSound DEF PInv
<1>3. job'.on \/ job' = NoJob  BY DEF PInv
<1>4. QED  BY <1>2, <1>3, PStay

(* A document that is parsed and written is on its pages.                  *)
LEMMA WrittenIsSound ==
  ASSUME PInv, mode \in {"memory", "file"},
         NEW p \in Paths \cup {NoPath}, NEW c \in Texts,
         NEW d, d = Stored(Parsed(p, c)), InFile => Len(PagesWith(d)) <= MaxPages
  PROVE  /\ Sound(mode, PagesWith(d), d) /\ d.path = p /\ d.sum = c /\ d.blocks = c
         /\ GoodPages(PagesWith(d)) /\ Extends(db.pages, PagesWith(d))
<1>1. d.blocks = c
  BY DEF Stored, Parsed
<1>2. GoodPages(db.pages)  BY DEF PInv, GoodFile
<1>3. /\ PagesWith(d) \in Seq(Page) /\ Extends(db.pages, PagesWith(d))
      /\ ~InFile => PagesWith(d) = db.pages
  BY <1>1, <1>2, PagesWithGrow DEF GoodPages
<1>4. GoodPages(PagesWith(d))  BY <1>2, <1>3 DEF GoodPages
<1>5. QED  BY <1>2, <1>3, <1>4, StoredIsSound DEF GoodPages

(* append_file, append_str. *)
LEMMA PAppend ==
  ASSUME Protocol, PInv, [Next]_vars, NEW p \in Paths \cup {NoPath}, NEW c \in Texts,
         AppendDocument(p, c)
  PROVE  PInv'
<1> DEFINE d == Stored(Parsed(p, c))
<1>1. /\ UNCHANGED <<mode, tx, job>> /\ store.next \in Ids
      /\ mode \in {"memory", "file"} /\ ~job.on
  BY ReadyModes DEF AppendDocument
<1>2. CASE Flush(Added(store, d), store, PagesWith(d))
  <2>1. InFile => Len(PagesWith(d)) < MaxPages  BY <1>2 DEF Flush
  <2>2. /\ Sound(mode, PagesWith(d), d)
        /\ GoodPages(PagesWith(d)) /\ Extends(db.pages, PagesWith(d))
    <3>1. InFile => Len(PagesWith(d)) <= MaxPages
      <4>1. d.blocks \in Texts  BY DEF Stored, Parsed
      <4>2. PagesWith(d) \in Seq(Page)
        BY <4>1, PagesWithGrow DEF PInv, GoodFile, GoodPages
      <4> HIDE DEF d
      <4>3. Len(PagesWith(d)) \in Nat  BY <4>2
      <4>4. QED  BY <2>1, <4>3, BoundsAssumption
    <3>2. QED  BY <1>1, <3>1, WrittenIsSound
  <2> HIDE DEF d
  <2>3. Whole(mode, PagesWith(d), store.docs)
    BY <2>2, PagedStays DEF PInv
  <2>4. Whole(mode, PagesWith(d), Added(store, d).docs)
    BY <1>1, <2>2, <2>3, WithWhole, AddedFields
  <2>5. IsHashes(store.hashes) /\ IsHashes(Added(store, d).hashes)
    BY AddedFields DEF PInv
  <2>6. QED  BY <1>1, <1>2, <2>2, <2>3, <2>4, <2>5, PFlushes
<1>3. CASE store' = Burnt(store) /\ UNCHANGED <<db, doubt>>
  <2>1. /\ store'.docs = store.docs /\ store'.hashes = store.hashes
    BY <1>3, AddedFields
  <2>2. Extends(db.pages, db'.pages) /\ GoodFile(db')
    BY <1>3 DEF Extends, PInv
  <2>3. QED  BY <1>1, <1>3, <2>1, <2>2, PStay DEF PInv, ReopensAsIs
<1>4. QED  BY <1>2, <1>3 DEF AppendDocument

(* replace_document. *)
LEMMA PReplace ==
  ASSUME Protocol, PInv, [Next]_vars, NEW i \in Ids, NEW c \in Texts,
         ReplaceDocument(i, c)
  PROVE  PInv'
<1> DEFINE e == Stored(Parsed(store.docs[i].path, c))
           v == i \in DOMAIN store.hashes
           d == [e EXCEPT !.direct = v]
           D == [store.docs EXCEPT ![i] = d]
<1>1. /\ UNCHANGED <<mode, tx, job>> /\ i \in DOMAIN store.docs
      /\ mode \in {"memory", "file"} /\ ~job.on
      /\ Flush([store EXCEPT !.docs = D], store, PagesWith(d))
  BY ReadyModes DEF ReplaceDocument
<1>2. PagesWith(d) = PagesWith(e)
  BY DEF PagesWith, Stored, Parsed
<1>3. store.docs[i].path \in Paths \cup {NoPath}
  BY <1>1 DEF PInv, Whole, Sound, Doc
<1>4. /\ Sound(mode, PagesWith(e), e)
      /\ GoodPages(PagesWith(e)) /\ Extends(db.pages, PagesWith(e))
  <2>1. InFile => Len(PagesWith(e)) < MaxPages  BY <1>1, <1>2 DEF Flush
  <2>2. InFile => Len(PagesWith(e)) <= MaxPages
    <3>1. e.blocks \in Texts  BY DEF Stored, Parsed
    <3>2. PagesWith(e) \in Seq(Page)
      BY <3>1, PagesWithGrow DEF PInv, GoodFile, GoodPages
    <3> HIDE DEF e
    <3>3. Len(PagesWith(e)) \in Nat  BY <3>2
    <3>4. QED  BY <2>1, <3>3, BoundsAssumption
  <2>3. QED  BY <1>1, <1>3, <2>2, WrittenIsSound
<1>5. Sound(mode, PagesWith(e), d)
  <2>1. v \in BOOLEAN  OBVIOUS
  <2>2. e \in Doc  BY <1>4 DEF Sound
  <2> HIDE DEF e, v
  <2>3. /\ d \in Doc /\ d.blocks = e.blocks /\ d.sum = e.sum /\ d.idx = e.idx
        /\ d.bpage = e.bpage /\ d.ipage = e.ipage
    BY <2>1, <2>2 DEF Doc
  <2> HIDE DEF d
  <2>4. QED  BY <1>4, <2>3 DEF Sound, Paged
<1>6. Whole(mode, PagesWith(e), store.docs)
  BY <1>4, PagedStays DEF PInv
<1> HIDE DEF e, d
<1>7. Whole(mode, PagesWith(e), D)
  BY <1>1, <1>5, <1>6 DEF Whole, IsMap
<1> HIDE DEF D
<1>8. /\ [store EXCEPT !.docs = D].docs = D
      /\ [store EXCEPT !.docs = D].hashes = store.hashes
  BY StoreFields
<1>9. QED  BY <1>1, <1>2, <1>4, <1>6, <1>7, <1>8, PFlushes DEF PInv

(* reindex_paths is done with a file: its snapshot stays. *)
LEMMA JobFields ==
  ASSUME IInv, NEW p, NEW c, Done(p, c)
  PROVE  /\ job'.on = job.on /\ job'.docs = job.docs /\ job'.hashes = job.hashes
         /\ job'.read = With(job.read, p, c) /\ job'.todo = job.todo \ {p}
         /\ job'.prune = job.prune
<1> DEFINE R == With(job.read, p, c)
<1>1. /\ job' = [job EXCEPT !.todo = job.todo \ {p}, !.read = R]
      /\ job = [on |-> job.on, todo |-> job.todo, read |-> job.read,
                prune |-> job.prune, docs |-> job.docs, hashes |-> job.hashes]
  BY DEF Done, IInv, GoodJob
<1> HIDE DEF R
<1>2. job' = [on |-> job.on, todo |-> job.todo \ {p}, read |-> R,
              prune |-> job.prune, docs |-> job.docs, hashes |-> job.hashes]
  <2> DEFINE j == [job EXCEPT !.todo = job.todo \ {p}]
  <2>1. j = [on |-> job.on, todo |-> job.todo \ {p}, read |-> job.read,
             prune |-> job.prune, docs |-> job.docs, hashes |-> job.hashes]
    BY <1>1
  <2>2. job' = [j EXCEPT !.read = R]  BY <1>1
  <2> HIDE DEF j
  <2>3. QED  BY <2>1, <2>2
<1>3. QED  BY <1>2 DEF R

LEMMA DoneFields ==
  ASSUME PInv, NEW p, NEW c, p \in job.todo, Done(p, c)
  PROVE  /\ job.on /\ job'.on /\ job'.docs = job.docs /\ job'.hashes = job.hashes
         /\ mode \in {"memory", "file"}
<1>1. job.on /\ mode \in {"memory", "file"}  BY DEF PInv, NoJob
<1>2. QED  BY <1>1, JobFields DEF PInv

LEMMA PSkips ==
  ASSUME PInv, [Next]_vars, NEW p, NEW c, p \in job.todo, Done(p, c),
         UNCHANGED <<mode, store, db, tx, doubt>>
  PROVE  PInv'
<1>1. Extends(db.pages, db'.pages) /\ GoodFile(db')
  BY DEF Extends, PInv
<1>2. QED  BY <1>1, DoneFields, PStay DEF PInv

(* A document is indexed, changed or new: its pages are added to the file, *)
(* whose catalog is still the one before.                                  *)
LEMMA PIndexes ==
  ASSUME PInv, [Next]_vars, NEW p \in Paths, NEW c \in Texts, NEW i \in Ids,
         p \in job.todo, Done(p, c), UNCHANGED <<mode, tx>>,
         NEW d, d = Stored(Parsed(p, c)), Len(PagesWith(d)) < MaxPages,
         store'.docs = With(store.docs, i, d),
         store'.hashes = With(store.hashes, i, c),
         db' = [db EXCEPT !.pages = PagesWith(d)]
  PROVE  PInv'
<1>1. /\ mode \in {"memory", "file"} /\ job'.on
      /\ job'.docs = job.docs /\ job'.hashes = job.hashes
  BY DoneFields
<1>2. Len(PagesWith(d)) <= MaxPages
  <2>1. d.blocks \in Texts  BY DEF Stored, Parsed
  <2>2. PagesWith(d) \in Seq(Page)
    BY <2>1, PagesWithGrow DEF PInv, GoodFile, GoodPages
  <2>3. Len(PagesWith(d)) \in Nat  BY <2>2
  <2>4. QED  BY <2>3, BoundsAssumption
<1>3. /\ Sound(mode, PagesWith(d), d) /\ GoodPages(PagesWith(d))
      /\ Extends(db.pages, PagesWith(d))
  BY <1>1, <1>2, WrittenIsSound
<1>4. db'.pages = PagesWith(d) /\ db'.docs = db.docs /\ db'.hashes = db.hashes
  BY StoreFields
<1>5. GoodFile(db')
  BY <1>3, <1>4, PagedStays DEF PInv, GoodFile
<1>6. Whole(mode, db'.pages, store'.docs)
  BY <1>3, <1>4, PagedStays, WithWhole DEF PInv
<1>7. IsHashes(store'.hashes)
  BY DEF PInv, IsHashes, With
<1>8. Extends(db.pages, db'.pages)  BY <1>3, <1>4
<1>9. QED  BY <1>1, <1>5, <1>6, <1>7, <1>8, PStay

LEMMA PChanged ==
  ASSUME PInv, [Next]_vars, NEW p \in Paths, NEW c \in Texts, IndexChanged(p, c)
  PROVE  PInv'
<1> DEFINE d == Stored(Parsed(p, c))
<1>1. /\ p \in job.todo /\ Done(p, c) /\ UNCHANGED <<mode, tx>>
  BY DEF IndexChanged
<1>2. PICK i \in Ids :
        /\ IsByPath(p, i) /\ Len(PagesWith(d)) < MaxPages
        /\ store' = [store EXCEPT !.docs[i] = d, !.hashes = With(@, i, c)]
        /\ db' = [db EXCEPT !.pages = PagesWith(d)]
  BY DEF IndexChanged
<1>3. i \in DOMAIN store.docs  BY <1>2 DEF IsByPath, IsMax
<1> HIDE DEF d
<1> DEFINE D == [store.docs EXCEPT ![i] = d]
           H == With(store.hashes, i, c)
<1>4. D = With(store.docs, i, d)
  BY <1>3, ReplaceIsWith DEF PInv, Whole, IsMap
<1>5. store' = [store EXCEPT !.docs = D, !.hashes = H]  BY <1>2
<1> HIDE DEF D, H
<1>6. store'.docs = D /\ store'.hashes = H  BY <1>5, StoreFields
<1>7. /\ store'.docs = With(store.docs, i, d)
      /\ store'.hashes = With(store.hashes, i, c)
  BY <1>4, <1>6 DEF H
<1>8. d = Stored(Parsed(p, c))  BY DEF d
<1>9. QED  BY <1>1, <1>2, <1>7, <1>8, PIndexes

LEMMA PNew ==
  ASSUME PInv, [Next]_vars, NEW p \in Paths, NEW c \in Texts, IndexNew(p, c)
  PROVE  PInv'
<1> DEFINE d == Stored(Parsed(p, c))
<1>1. p \in job.todo /\ store.next \in Ids /\ UNCHANGED <<mode, tx, doubt>>
  BY DEF IndexNew
<1>2. CASE /\ Len(PagesWith(d)) < MaxPages
           /\ store' = [Added(store, d) EXCEPT !.hashes = With(@, store.next, c)]
           /\ db' = [db EXCEPT !.pages = PagesWith(d)]
           /\ Done(p, c)
  <2>0. d = Stored(Parsed(p, c))  OBVIOUS
  <2> HIDE DEF d
  <2> DEFINE D == With(store.docs, store.next, d)
             H == With(store.hashes, store.next, c)
  <2>1. Added(store, d).docs = D /\ Added(store, d).hashes = store.hashes
    BY AddedFields
  <2>2. DOMAIN Added(store, d) = DOMAIN store
        /\ "hashes" \in DOMAIN store /\ "docs" \in DOMAIN store
    BY DEF Added, PInv, IInv, GoodStore
  <2>3. store'.docs = D /\ store'.hashes = H
    <3>1. store' = [Added(store, d) EXCEPT !.hashes = H]  BY <1>2, <2>1
    <3> HIDE DEF D, H
    <3>2. QED  BY <2>1, <2>2, <3>1
  <2>4. QED  BY <1>1, <1>2, <2>0, <2>3, PIndexes
<1>3. CASE store' = Burnt(store) /\ Done(p, Missing) /\ UNCHANGED db
  <2>1. /\ store'.docs = store.docs /\ store'.hashes = store.hashes
    BY <1>3, AddedFields
  <2>2. Extends(db.pages, db'.pages) /\ GoodFile(db')
    BY <1>3 DEF Extends, PInv
  <2>3. QED  BY <1>1, <1>3, <2>1, <2>2, DoneFields, PStay DEF PInv
<1>4. QED  BY <1>2, <1>3 DEF IndexNew

(* The end of reindex_paths, and rollback_transaction.                     *)
LEMMA PEnds ==
  ASSUME Protocol, PInv, [Next]_vars, EndReindex \/ Rollback
  PROVE  PInv'
<1>1. /\ GoodPages(db.pages) /\ Extends(db.pages, db.pages)
  BY DEF PInv, GoodFile, Extends
<1>2. ASSUME NEW D, NEW H, Whole(mode, db.pages, D), IsHashes(H)
      PROVE  LET s == [store EXCEPT !.docs = D, !.hashes = H] IN
             Whole(mode, db.pages, s.docs) /\ IsHashes(s.hashes)
  BY <1>2, StoreFields
<1>3. CASE EndReindex
  <2> DEFINE D == Without(store.docs, Gone)
             H == Without(store.hashes, Gone)
             N == NoIndexes(job.docs)
             s == [store EXCEPT !.docs = D, !.hashes = H]
             u == [store EXCEPT !.docs = N, !.hashes = job.hashes]
  <2>1. /\ Flush(s, u, db.pages) /\ job' = NoJob /\ UNCHANGED <<mode, tx>>
        /\ mode \in {"memory", "file"}
    BY <1>3 DEF EndReindex, PInv
  <2>2. Whole(mode, db.pages, D) /\ Whole(mode, db.pages, N)
    BY WithoutWhole, NoIndexesWhole DEF PInv
  <2>3. IsHashes(H) /\ IsHashes(job.hashes)
    BY DEF PInv, IsHashes, Without
  <2> HIDE DEF D, H, N
  <2>4. /\ Whole(mode, db.pages, s.docs) /\ IsHashes(s.hashes)
        /\ Whole(mode, db.pages, u.docs) /\ IsHashes(u.hashes)
    BY <1>2, <2>2, <2>3
  <2> HIDE DEF s, u
  <2>5. QED  BY <1>1, <2>1, <2>4, PFlushes
<1>4. CASE Rollback
  <2> DEFINE N == NoIndexes(tx.docs)
             s == [store EXCEPT !.docs = N, !.hashes = tx.hashes]
  <2>1. /\ Flush(s, s, db.pages) /\ tx' = NoTx /\ UNCHANGED <<mode, job>>
        /\ mode \in {"memory", "file"}
    BY <1>4, ReadyModes DEF Rollback
  <2>2. Whole(mode, db.pages, N) /\ IsHashes(tx.hashes)
    BY NoIndexesWhole DEF PInv
  <2> HIDE DEF N
  <2>3. Whole(mode, db.pages, s.docs) /\ IsHashes(s.hashes)
    BY <1>2, <2>2
  <2> HIDE DEF s
  <2>4. QED  BY <1>1, <2>1, <2>3, PFlushes
<1>5. QED  BY <1>3, <1>4

LEMMA PSnapshots ==
  ASSUME Protocol, PInv, [Next]_vars, NEW P, NEW prune,
         StartReindex(P, prune) \/ Begin \/ Commit
  PROVE  PInv'
<1>1. /\ UNCHANGED <<mode, store, db, doubt>> /\ mode \in {"memory", "file"} /\ ~job.on
      /\ job = NoJob
  BY ReadyModes DEF StartReindex, Begin, Commit
<1>2. \/ tx' = tx \/ tx' = NoTx
      \/ tx'.docs = store.docs /\ tx'.hashes = store.hashes
  BY DEF StartReindex, Begin, Commit
<1>3. \/ job' = job
      \/ job'.on /\ job'.docs = store.docs /\ job'.hashes = store.hashes
  BY DEF StartReindex, Begin, Commit
<1>4. Extends(db.pages, db'.pages) /\ GoodFile(db')
  BY <1>1 DEF Extends, PInv
<1>5. QED  BY <1>1, <1>2, <1>3, <1>4, PStay DEF PInv, ReopensAsIs

(* save and vacuum write what is in memory, and all of it is.              *)
LEMMA PRewrites ==
  ASSUME Protocol, PInv, [Next]_vars, Save \/ Vacuum
  PROVE  PInv'
<1>1. /\ UNCHANGED <<store, tx, job>> /\ Fits /\ db' = Rewritten(store)
      /\ ~job.on /\ mode \in {"memory", "file"} /\ mode' \in {"memory", "vacuumed"}
      /\ mode' = "memory" => mode = "memory"
  BY ReadyModes DEF Save, Vacuum
<1>2. \A i \in DOMAIN store.docs : store.docs[i].blocks = store.docs[i].sum
  <2>1. mode = "memory" \/ UnloadedIds = {}
    BY <1>1 DEF Save, Vacuum, Protocol
  <2>2. QED  BY <1>1, <2>1 DEF PInv, Whole, Sound, UnloadedIds, Unloaded
<1>3. GoodFile(db')  BY <1>1, <1>2, RewrittenIsSound
<1>4. IInv'  BY NextIInv DEF PInv
<1>5. \A D : Whole(mode, db.pages, D) => Whole(mode', db'.pages, D)
  BY <1>1 DEF Whole, Sound
<1>6. ReopensAsIs'  BY <1>1 DEF ReopensAsIs
<1>7. QED  BY <1>1, <1>3, <1>4, <1>5, <1>6 DEF PInv

LEMMA PStutters ==
  ASSUME PInv, UNCHANGED vars
  PROVE  PInv'
<1>1. IInv'  BY NextIInv DEF PInv
<1>2. QED  BY <1>1 DEF PInv, vars, ReopensAsIs

(* Every step keeps pages and caches. *)
LEMMA PNext == Protocol /\ PInv /\ [Next]_vars => PInv'
<1> SUFFICES ASSUME Protocol, PInv, [Next]_vars PROVE PInv'  OBVIOUS
<1>1. CASE NewStore \/ Open \/ Load \/ ProcessEnds  BY <1>1, PProcesses
<1>2. CASE LoadAllBlocks \/ LoadAllIndexes  BY <1>2, PLoads
<1>3. ASSUME NEW p \in Paths, SkipUnreadable(p) PROVE PInv'
  BY <1>3, PSkips DEF SkipUnreadable
<1>4. ASSUME NEW p \in Paths, NEW c \in Texts, SkipUnchanged(p, c) PROVE PInv'
  BY <1>4, PSkips DEF SkipUnchanged
<1>5. ASSUME NEW p \in Paths, NEW c \in Texts, IndexChanged(p, c) PROVE PInv'
  BY <1>5, PChanged
<1>6. ASSUME NEW p \in Paths, NEW c \in Texts, IndexNew(p, c) PROVE PInv'
  BY <1>6, PNew
<1>7. ASSUME NEW p \in Paths \cup {NoPath}, NEW c \in Texts, AppendDocument(p, c)
      PROVE  PInv'
  BY <1>7, PAppend
<1>8. ASSUME NEW i \in Ids, NEW c \in Texts, ReplaceDocument(i, c) PROVE PInv'
  BY <1>8, PReplace
<1>9. ASSUME NEW P \in SUBSET Paths, NEW prune \in BOOLEAN, StartReindex(P, prune)
      PROVE  PInv'
  BY <1>9, PSnapshots
<1>10. CASE EndReindex \/ Rollback  BY <1>10, PEnds
<1>11. CASE Save \/ Vacuum  BY <1>11, PRewrites
<1>12. CASE Begin \/ Commit  BY <1>12, PSnapshots
<1>13. CASE UNCHANGED vars  BY <1>13, PStutters
<1>14. QED
  BY <1>1, <1>2, <1>3, <1>4, <1>5, <1>6, <1>7, <1>8, <1>9, <1>10, <1>11,
     <1>12, <1>13 DEF Next

(* There is no store and no file. *)
LEMMA PInit == Init => PInv
<1> SUFFICES ASSUME Init PROVE PInv  OBVIOUS
<1>1. IInv  BY InitIInv
<1>2. \A m, P : Whole(m, P, None) /\ IsHashes(None)
  BY DEF Whole, None, IsMap, IsHashes
<1>3. GoodFile(NoDb)
  <2>1. <<>> \in Seq(Page) /\ Len(<<>>) = 0  OBVIOUS
  <2>2. LazyDocs(None) = None  BY DEF LazyDocs, None
  <2>3. QED  BY <1>2, <2>1, <2>2, BoundsAssumption DEF GoodFile, GoodPages, NoDb
<1>4. QED
  BY <1>1, <1>2, <1>3 DEF PInv, Init, New, NoTx, NoJob, ReopensAsIs

(* Pages and caches are kept, where vacuum is called as the command does.  *)
THEOREM PagesInvariance ==
  ASSUME Protocol
  PROVE  Spec => []PInv
<1>1. PInv /\ [Next]_vars => PInv'  BY PNext
<1>2. QED  BY <1>1, PInit, PTL DEF Spec

(* Every document of the catalog that the page file shows can be read from *)
(* it: its blocks and its index are on the pages that the catalog names,   *)
(* whichever flushes failed, and however the processes ended.              *)
THEOREM CatalogStaysReadable ==
  ASSUME Protocol
  PROVE  Spec => []CatalogReadable
<1>1. PInv => CatalogReadable
  BY DEF PInv, GoodFile, Whole, Sound, Paged, CatalogReadable
<1>2. QED  BY <1>1, PagesInvariance, PTL

(* A process that ends between two operations, its last flush having       *)
(* succeeded, is followed by one that finds its documents and hashes: no   *)
(* operation of a store that has a file changes them without a flush.      *)
THEOREM StoreIsReopened ==
  ASSUME Protocol
  PROVE  Spec => []ReopensAsIs
<1>1. PInv => ReopensAsIs  BY DEF PInv
<1>2. QED  BY <1>1, PagesInvariance, PTL

(* Blocks, zone maps and index of a document are of one content, each      *)
(* unless it is not in memory: what is read from the file later, after     *)
(* replacements, restored snapshots and failed flushes, is the document's. *)
THEOREM CachesStayOfOneContent ==
  ASSUME Protocol
  PROVE  Spec => []CachesAgree
<1>1. PInv => CachesAgree  BY DEF PInv, Whole, Sound, CachesAgree
<1>2. QED  BY <1>1, PagesInvariance, PTL
-----------------------------------------------------------------------------
(* reindex_paths                                                           *)

(* What was read of file p is indexed in the documents D with hashes H, or *)
(* is what the document was before replace_document replaced it.           *)
IsIndexed(D, H, p, c) ==
  \E i \in DOMAIN D :
    /\ D[i].path = p
    /\ \/ D[i].sum = c
       \/ D[i].direct /\ i \in DOMAIN H /\ H[i] = c

(* While reindex_paths runs, what it has read is in the store and what was *)
(* in the store when it began is still there, under the same id.           *)
JInv ==
  /\ IInv
  /\ job.on \/ job = NoJob
  /\ \A p \in DOMAIN job.read :
       job.read[p] # Missing =>
         IsIndexed(store.docs, store.hashes, p, job.read[p])
  /\ \A i \in DOMAIN job.docs :
       i \in DOMAIN store.docs /\ store.docs[i].path = job.docs[i].path

LEMMA JInit == Init => JInv
BY InitIInv DEF Init, JInv, NoJob, None

(* Without a reindex_paths there is nothing to show. *)
LEMMA JIdle ==
  ASSUME JInv, [Next]_vars, job' = NoJob
  PROVE  JInv'
<1>1. IInv'  BY NextIInv DEF JInv
<1>2. QED  BY <1>1 DEF JInv, NoJob, None

(* The store when file p is done with: the others' documents are as they   *)
(* were, and that of p has the content that was read.                      *)
LEMMA JFile ==
  ASSUME JInv, [Next]_vars, NEW p, NEW c, p \in job.todo, Done(p, c),
         \A i \in DOMAIN store.docs :
           /\ i \in DOMAIN store'.docs /\ store'.docs[i].path = store.docs[i].path
           /\ \/ /\ store'.docs[i] = store.docs[i]
                 /\ i \in DOMAIN store.hashes =>
                      /\ i \in DOMAIN store'.hashes
                      /\ store'.hashes[i] = store.hashes[i]
              \/ store.docs[i].path = p,
         c # Missing => IsIndexed(store'.docs, store'.hashes, p, c)
  PROVE  JInv'
<1>1. IInv'  BY NextIInv DEF JInv
<1>2. job.on  BY DEF JInv, NoJob
<1>3. /\ job'.on /\ job'.docs = job.docs /\ job'.read = With(job.read, p, c)
  BY <1>2, JobFields DEF JInv
<1>4. ASSUME NEW q \in DOMAIN job'.read, job'.read[q] # Missing
      PROVE  IsIndexed(store'.docs, store'.hashes, q, job'.read[q])
  <2>1. CASE q = p  BY <1>3, <1>4, <2>1 DEF With
  <2>2. CASE q # p
    <3>1. q \in DOMAIN job.read /\ job'.read[q] = job.read[q]
      BY <1>3, <2>2 DEF With
    <3>2. PICK i \in DOMAIN store.docs :
            /\ store.docs[i].path = q
            /\ \/ store.docs[i].sum = job.read[q]
               \/ /\ store.docs[i].direct
                  /\ i \in DOMAIN store.hashes /\ store.hashes[i] = job.read[q]
      BY <1>4, <3>1 DEF JInv, IsIndexed
    <3>3. /\ i \in DOMAIN store'.docs /\ store'.docs[i] = store.docs[i]
          /\ i \in DOMAIN store.hashes =>
               i \in DOMAIN store'.hashes /\ store'.hashes[i] = store.hashes[i]
      BY <2>2, <3>2
    <3>4. QED  BY <3>1, <3>2, <3>3 DEF IsIndexed
  <2>3. QED  BY <2>1, <2>2
<1>5. QED  BY <1>1, <1>3, <1>4 DEF JInv

LEMMA JSkips ==
  ASSUME JInv, [Next]_vars, NEW p \in Paths,
         SkipUnreadable(p) \/ \E c \in Texts : SkipUnchanged(p, c)
  PROVE  JInv'
<1>1. CASE SkipUnreadable(p)
  <2>1. p \in job.todo /\ Done(p, Missing) /\ UNCHANGED store
    BY <1>1 DEF SkipUnreadable
  <2>2. QED  BY <2>1, JFile
<1>2. ASSUME NEW c \in Texts, SkipUnchanged(p, c)
      PROVE  JInv'
  <2>1. p \in job.todo /\ Done(p, c) /\ UNCHANGED store
    BY <1>2 DEF SkipUnchanged
  <2>2. PICK i \in Ids : IsByPath(p, i) /\ Hashed(i, c)
    BY <1>2 DEF SkipUnchanged
  <2>3. /\ i \in DOMAIN store.docs /\ store.docs[i].path = p
        /\ i \in DOMAIN store.hashes /\ store.hashes[i] = c
    BY <2>2 DEF IsByPath, IsMax, Hashed
  <2>4. store.docs[i].sum = c \/ store.docs[i].direct
    BY <2>3 DEF JInv, IInv, GoodStore, Match
  <2>5. IsIndexed(store'.docs, store'.hashes, p, c)
    BY <2>1, <2>3, <2>4 DEF IsIndexed
  <2>6. QED  BY <2>1, <2>5, JFile
<1>3. QED  BY <1>1, <1>2

LEMMA WithKeeps ==
  ASSUME NEW D, NEW H, NEW i, NEW d, NEW c,
         i \in DOMAIN D => D[i].path = d.path
  PROVE  /\ \A j \in DOMAIN D :
              /\ j \in DOMAIN With(D, i, d) /\ With(D, i, d)[j].path = D[j].path
              /\ \/ /\ With(D, i, d)[j] = D[j]
                    /\ j \in DOMAIN H =>
                         j \in DOMAIN With(H, i, c) /\ With(H, i, c)[j] = H[j]
                 \/ D[j].path = d.path
         /\ IsIndexed(With(D, i, d), With(H, i, c), d.path, d.sum)
BY DEF With, IsIndexed

(* A file is indexed. *)
LEMMA JIndexes ==
  ASSUME JInv, [Next]_vars, NEW p \in Paths, NEW c \in Texts,
         IndexChanged(p, c) \/ IndexNew(p, c)
  PROVE  JInv'
<1> DEFINE d == Stored(Parsed(p, c))
<1>1. p \in job.todo  BY DEF IndexChanged, IndexNew
<1>2. d.path = p /\ d.sum = c  BY DEF Stored, Parsed
<1>3. store = [docs |-> store.docs, hashes |-> store.hashes, next |-> store.next]
      /\ IsMap(store.docs)
  BY DEF JInv, IInv, GoodStore, Match
<1>4. ASSUME NEW i, i \in DOMAIN store.docs => store.docs[i].path = p,
             store'.docs = With(store.docs, i, d),
             store'.hashes = With(store.hashes, i, c), Done(p, c)
      PROVE  JInv'
  <2> HIDE DEF d
  <2>1. QED  BY <1>1, <1>2, <1>4, WithKeeps, JFile
<1>5. CASE IndexChanged(p, c)
  <2>1. PICK i \in Ids :
          /\ IsByPath(p, i)
          /\ store' = [store EXCEPT !.docs[i] = d, !.hashes = With(@, i, c)]
    BY <1>5 DEF IndexChanged
  <2>2. i \in DOMAIN store.docs /\ store.docs[i].path = p
    BY <2>1 DEF IsByPath, IsMax
  <2>3. Done(p, c)  BY <1>5 DEF IndexChanged
  <2> DEFINE D == [store.docs EXCEPT ![i] = d]
             H == With(store.hashes, i, c)
  <2>4. store' = [store EXCEPT !.docs = D, !.hashes = H]  BY <2>1
  <2> HIDE DEF d
  <2>5. D = With(store.docs, i, d)  BY <1>3, <2>2, ReplaceIsWith DEF IsMap
  <2> HIDE DEF D, H
  <2>6. store'.docs = D /\ store'.hashes = H  BY <1>3, <2>4, OtherFields
  <2>7. store'.hashes = With(store.hashes, i, c)  BY <2>6 DEF H
  <2>8. QED  BY <1>4, <2>2, <2>3, <2>5, <2>6, <2>7
<1>6. CASE IndexNew(p, c)
  <2> DEFINE D == With(store.docs, store.next, d)
             H == With(store.hashes, store.next, c)
  <2>1. CASE /\ store' = [Added(store, d) EXCEPT !.hashes = With(@, store.next, c)]
             /\ Done(p, c)
    <3>1. Added(store, d) = [store EXCEPT !.docs = D, !.next = store.next + 1]
      BY DEF Added
    <3>2. store.next \notin DOMAIN store.docs
      BY DEF JInv, IInv, Fresh, GoodStore
    <3> HIDE DEF d
    <3> HIDE DEF D
    <3> DEFINE s == Added(store, d)
    <3>3. /\ s.docs = D /\ s.hashes = store.hashes
          /\ DOMAIN s = {"docs", "hashes", "next"}
      BY <1>3, <3>1
    <3>4. store' = [s EXCEPT !.hashes = H]  BY <2>1, <3>3
    <3> HIDE DEF s, H
    <3>5. store'.docs = D /\ store'.hashes = H  BY <3>3, <3>4
    <3>6. /\ store'.docs = With(store.docs, store.next, d)
          /\ store'.hashes = With(store.hashes, store.next, c)
      BY <3>5 DEF D, H
    <3>7. QED  BY <1>4, <2>1, <3>2, <3>6
  <2>2. CASE store' = Burnt(store) /\ Done(p, Missing)
    <3>1. store'.docs = store.docs /\ store'.hashes = store.hashes
      BY <1>3, <2>2 DEF Burnt
    <3>2. QED  BY <1>1, <2>2, <3>1, JFile
  <2>3. QED  BY <1>6, <2>1, <2>2 DEF IndexNew
<1>7. QED  BY <1>5, <1>6

LEMMA JNext == JInv /\ [Next]_vars => JInv'
<1> SUFFICES ASSUME JInv, [Next]_vars PROVE JInv'  OBVIOUS
<1>1. mode = "none" => job = NoJob  BY DEF JInv, IInv
<1>2. ~job.on => job = NoJob  BY DEF JInv
<1>3. CASE NewStore \/ Open \/ Load \/ ProcessEnds
  BY <1>1, <1>3, JIdle DEF NewStore, Open, Load, ProcessEnds
<1>4. CASE LoadAllBlocks \/ LoadAllIndexes
  BY <1>2, <1>4, JIdle DEF LoadAllBlocks, LoadAllIndexes, Ready
<1>5. ASSUME NEW p \in Paths, SkipUnreadable(p) PROVE JInv'
  BY <1>5, JSkips
<1>6. ASSUME NEW p \in Paths, NEW c \in Texts,
             SkipUnchanged(p, c) \/ IndexChanged(p, c) \/ IndexNew(p, c)
      PROVE  JInv'
  BY <1>6, JSkips, JIndexes
<1>7. ASSUME NEW p \in Paths \cup {NoPath}, NEW c \in Texts, AppendDocument(p, c)
      PROVE  JInv'
  BY <1>2, <1>7, JIdle DEF AppendDocument, Ready
<1>8. ASSUME NEW i \in Ids, NEW c \in Texts, ReplaceDocument(i, c) PROVE JInv'
  BY <1>2, <1>8, JIdle DEF ReplaceDocument, Ready
<1>9. ASSUME NEW P \in SUBSET Paths, NEW prune \in BOOLEAN, StartReindex(P, prune)
      PROVE  JInv'
  <2>1. IInv'  BY NextIInv DEF JInv
  <2>2. QED  BY <1>9, <2>1 DEF JInv, StartReindex
<1>10. CASE EndReindex  BY <1>10, JIdle DEF EndReindex
<1>11. CASE Save \/ Vacuum \/ Begin \/ Commit \/ Rollback
  BY <1>2, <1>11, JIdle DEF Save, Vacuum, Begin, Commit, Rollback, Ready
<1>12. CASE UNCHANGED vars
  <2>1. IInv'  BY NextIInv DEF JInv
  <2>2. QED  BY <1>12, <2>1 DEF JInv, vars
<1>13. QED
  BY <1>3, <1>4, <1>5, <1>6, <1>7, <1>8, <1>9, <1>10, <1>11, <1>12 DEF Next

(* What holds when reindex_paths reports success.                          *)
LEMMA EndIsIndexed ==
  ASSUME JInv, EndReindex, ~doubt'
  PROVE  /\ \A p \in DOMAIN job.read : job.read[p] # Missing =>
              IsIndexed(store'.docs, store'.hashes, p, job.read[p])
         /\ \A i \in DOMAIN job.docs :
              \/ i \in DOMAIN store'.docs /\ store'.docs[i].path = job.docs[i].path
              \/ job.prune /\ job.docs[i].path \in Paths \ DOMAIN job.read
<1> DEFINE D == Without(store.docs, Gone)
           H == Without(store.hashes, Gone)
<1>1. store' = [store EXCEPT !.docs = D, !.hashes = H]
  BY DEF EndReindex, Flush
<1>2. store = [docs |-> store.docs, hashes |-> store.hashes, next |-> store.next]
  BY DEF JInv, IInv, GoodStore
<1> HIDE DEF D, H
<1>3. store'.docs = D /\ store'.hashes = H  BY <1>1, <1>2, OtherFields
<1>4. /\ DOMAIN D = DOMAIN store.docs \ Gone
      /\ \A i \in DOMAIN D : D[i] = store.docs[i]
      /\ DOMAIN H = DOMAIN store.hashes \ Gone
      /\ \A i \in DOMAIN H : H[i] = store.hashes[i]
  BY DEF D, H, Without
<1>5. \A i \in Gone : /\ job.prune
                      /\ store.docs[i].path \notin DOMAIN job.read \cup {NoPath}
  BY DEF Gone
<1>6. ASSUME NEW p \in DOMAIN job.read, job.read[p] # Missing
      PROVE  IsIndexed(D, H, p, job.read[p])
  <2>1. PICK i \in DOMAIN store.docs :
          /\ store.docs[i].path = p
          /\ \/ store.docs[i].sum = job.read[p]
             \/ /\ store.docs[i].direct
                /\ i \in DOMAIN store.hashes /\ store.hashes[i] = job.read[p]
    BY <1>6 DEF JInv, IsIndexed
  <2>2. i \notin Gone  BY <1>5, <2>1
  <2>3. QED  BY <1>4, <2>1, <2>2 DEF IsIndexed
<1>7. ASSUME NEW i \in DOMAIN job.docs
      PROVE  \/ i \in DOMAIN D /\ D[i].path = job.docs[i].path
             \/ job.prune /\ job.docs[i].path \in Paths \ DOMAIN job.read
  <2>1. /\ i \in DOMAIN store.docs /\ store.docs[i].path = job.docs[i].path
        /\ job.docs[i].path \in Paths \cup {NoPath}
    BY DEF JInv, IInv, GoodJob, Match, IsDoc
  <2>2. QED  BY <1>4, <1>5, <2>1
<1>8. QED  BY <1>3, <1>6, <1>7

(* When reindex_paths reports success, every file that it could read is in *)
(* the store as it was read, unless it has again the content that          *)
(* replace_document replaced without a hash, and no document has gone but, *)
(* when asked to, those of paths that were not given: no file spoils what  *)
(* was done for another, whatever fails on the way.                        *)
THEOREM ReindexIsComplete == Spec => ReindexesAll
<1>1. JInv /\ [Next]_vars => [ReportsSuccess => ReindexLeaves]_vars
  <2> SUFFICES ASSUME JInv, Next, ReportsSuccess PROVE ReindexLeaves
    OBVIOUS
  <2>1. EndReindex
    <3>1. mode = "none" => job = NoJob  BY DEF JInv, IInv
    <3>2. QED
      BY <3>1 DEF Next, NewStore, Open, Load, ProcessEnds, LoadAllBlocks,
        LoadAllIndexes, SkipUnreadable, SkipUnchanged, IndexChanged, IndexNew,
        AppendDocument, ReplaceDocument, StartReindex, Save, Vacuum, Begin,
        Commit, Rollback, Ready, NoJob, ReportsSuccess
  <2>2. QED
    BY <2>1, EndIsIndexed DEF IsIndexed, Indexed, ReindexLeaves, ReportsSuccess
<1>2. Spec => [][ReportsSuccess => ReindexLeaves]_vars  BY <1>1, JInit, JNext, PTL DEF Spec
<1>3. QED  BY <1>2 DEF ReindexesAll
=============================================================================
