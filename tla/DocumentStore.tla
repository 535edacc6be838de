--------------------------- MODULE DocumentStore ---------------------------
(***************************************************************************)
(* The documents of a DocumentStore: their ids, content hashes, caches and *)
(* pages, in memory and in the page file, while the Markdown files they    *)
(* come from are edited by others (src/store.rs, src/document.rs).         *)
(*                                                                         *)
(* A document is as good as its blocks, and those are abstracted to the    *)
(* content they were parsed from.  A chain of pages is one page.  The      *)
(* operations take &mut self, so one process runs one at a time; only      *)
(* reindex_paths is split into steps, which can fail one by one.  The      *)
(* Markdown files are edited by anyone at any time, also by write-back     *)
(* before it calls replace_document: an operation reads any content.       *)
(***************************************************************************)
EXTENDS Integers, Sequences, FiniteSets

CONSTANTS
  Paths, NoPath,     \* Markdown files; a document of add_str has none
  Contents,          \* contents that have blocks
  NoBlocks,          \* a content without blocks, and blocks not in memory:
                     \* both are an empty Vec
  Missing,           \* the content of no file
  MaxId,             \* last document id; the code's limit is u32
  MaxPages,          \* pages the page file can grow to
  MaxWrites,         \* documents written and reindex_paths begun, in all
  VacuumUnloaded,    \* vacuum may be called before load_all_blocks
  WritesAfterVacuum  \* the store may be written to after vacuum

ASSUME NamesAssumption ==
  /\ NoPath \notin Paths
  /\ NoBlocks \notin Contents /\ Missing \notin Contents \cup {NoBlocks}

ASSUME BoundsAssumption == {MaxId, MaxPages, MaxWrites} \subseteq Nat

ASSUME ProtocolAssumption ==
  VacuumUnloaded \in BOOLEAN /\ WritesAfterVacuum \in BOOLEAN

Texts == Contents \cup {NoBlocks}
Ids   == 0 .. MaxId

(* The index of a content is abstracted to that content; NoIndex is None.  *)
NoIndex == Missing

Doc ==
  [path : Paths \cup {NoPath},
   blocks : Texts,             \* the blocks in memory
   sum : Texts,                \* what block_count and zone_maps summarise
   idx : Texts \cup {NoIndex}, \* the entry of doc_indexes
   bpage : 0 .. MaxPages,      \* first_block_page
   ipage : 0 .. MaxPages,      \* index_start_page
   direct : BOOLEAN]           \* history: last written by replace_document,
                               \* over a content that was hashed

Page == [kind : {"blocks", "index", "catalog"}, of : Texts]
CatalogPage == [kind |-> "catalog", of |-> NoBlocks]

(* Documents and hashes are functions from some of the ids: position is    *)
(* order of ids, in memory as in the catalog.  A hash is abstracted to the *)
(* content.                                                                *)
IsDocs(D)   == DOMAIN D \subseteq Ids /\ D \in [DOMAIN D -> Doc]
IsHashes(H) == DOMAIN H \subseteq Ids /\ H \in [DOMAIN H -> Texts]
None == [i \in {} |-> NoBlocks]

VARIABLES
  mode,  \* "none": no process has the store; "memory": it has no storage;
         \* "file": it writes through to the page file; "vacuumed": the page
         \* file was rewritten since it was opened
  store, \* documents, content_hashes, next_doc_id
  db,    \* the page file and the catalog it shows, or NoDb
  tx,    \* TxSnapshot: documents and content_hashes, or NoTx
  job,   \* the reindex_paths under way, or NoJob
  doubt, \* history: the last flush failed, so the file shows its catalog or
         \* the one before
  writes \* number of writes begun, up to MaxWrites

vars == <<mode, store, db, tx, job, doubt, writes>>

New  == [docs |-> None, hashes |-> None, next |-> 0]
NoDb == [pages |-> <<>>, docs |-> None, hashes |-> None]
NoTx == [open |-> FALSE, docs |-> None, hashes |-> None]
NoJob == [on |-> FALSE, todo |-> {}, read |-> [p \in {} |-> Missing],
          prune |-> FALSE, docs |-> None, hashes |-> None]
-----------------------------------------------------------------------------
(* Documents, pages and catalogs *)

(* Document::new. *)
Parsed(p, c) ==
  [path |-> p, blocks |-> c, sum |-> c, idx |-> NoIndex,
   bpage |-> 0, ipage |-> 0, direct |-> FALSE]

InFile == mode \in {"file", "vacuumed"}

(* Mutated form: the page of the index is not recorded. *)
StoredNoIndexPage(d) ==
  IF InFile THEN [d EXCEPT !.idx = d.blocks, !.bpage = Len(db.pages) + 1] ELSE d

(* write_document and write_index: the document has pages of its own, and  *)
(* with them its index is built.                                           *)
Stored(d) ==
  IF InFile THEN [d EXCEPT !.idx = d.blocks, !.bpage = Len(db.pages) + 1,
                           !.ipage = Len(db.pages) + 2]
            ELSE d
PagesWith(d) ==
  IF InFile THEN db.pages \o <<[kind |-> "blocks", of |-> d.blocks],
                               [kind |-> "index", of |-> d.blocks]>>
            ELSE db.pages

(* from_catalog_lazy: a document as the catalog has it. *)
Lazy(d) == [d EXCEPT !.blocks = NoBlocks, !.idx = NoIndex]
LazyDocs(D) == [i \in DOMAIN D |-> Lazy(D[i])]

With(D, i, d) == [j \in DOMAIN D \cup {i} |-> IF j = i THEN d ELSE D[j]]
Without(D, I) == [j \in DOMAIN D \ I |-> D[j]]

IsMax(I, i) == i \in I /\ \A j \in I : j <= i
NextId(D) ==
  IF DOMAIN D = {} THEN 0 ELSE 1 + CHOOSE i \in Ids : IsMax(DOMAIN D, i)

Published(s, pages) ==
  [pages |-> Append(pages, CatalogPage), docs |-> LazyDocs(s.docs),
   hashes |-> s.hashes]

(* flush_catalog_to_storage, and what its caller does about a failure: s   *)
(* is the store to publish, undone the one to go back to.                  *)
Flush(s, undone, pages) ==
  IF InFile
  THEN /\ Len(pages) < MaxPages
       /\ \/ store' = s /\ db' = Published(s, pages) /\ doubt' = FALSE
          \/ /\ store' = undone /\ doubt' = TRUE
             /\ db' \in {[db EXCEPT !.pages = pages], Published(s, pages)}
  ELSE store' = s /\ UNCHANGED <<db, doubt>>

(* A page holds n > 0 blocks.  (Of a longer content n would be read: what  *)
(* matters is that they are others.)                                       *)
HoldsBlocks(pages, page) ==
  /\ page \in DOMAIN pages
  /\ pages[page].kind = "blocks" /\ pages[page].of # NoBlocks

(* read_blocks does not fail. *)
Readable(d) == d.sum = NoBlocks \/ HoldsBlocks(db.pages, d.bpage)
BlocksOf(d) == IF d.sum = NoBlocks THEN NoBlocks ELSE db.pages[d.bpage].of

Unloaded(d) == d.blocks = NoBlocks /\ d.sum # NoBlocks
UnloadedIds == {i \in DOMAIN store.docs : Unloaded(store.docs[i])}
-----------------------------------------------------------------------------
(* Processes *)

(* An operation may begin. *)
Ready ==
  /\ mode # "none" /\ ~job.on
  /\ mode = "vacuumed" => WritesAfterVacuum

Write == writes < MaxWrites /\ writes' = writes + 1

(* DocumentStore::new. *)
NewStore ==
  /\ mode = "none"
  /\ mode' = "memory" /\ store' = New
  /\ UNCHANGED <<db, tx, job, doubt, writes>>

(* Mutated form: the first id that is free is given again. *)
OpenFirstFree ==
  /\ mode = "none" /\ db # NoDb
  /\ mode' = "file"
  /\ store' = [docs |-> db.docs, hashes |-> db.hashes,
               next |-> Cardinality(DOMAIN db.docs)]
  /\ UNCHANGED <<db, tx, job, doubt, writes>>

(* DocumentStore::open. *)
Open ==
  /\ mode = "none" /\ db # NoDb
  /\ mode' = "file"
  /\ store' = [docs |-> db.docs, hashes |-> db.hashes, next |-> NextId(db.docs)]
  /\ UNCHANGED <<db, tx, job, doubt, writes>>

(* DocumentStore::load: everything is read, the file is closed. *)
Load ==
  /\ mode = "none" /\ db # NoDb
  /\ \A i \in DOMAIN db.docs : Readable(db.docs[i])
  /\ mode' = "memory"
  /\ store' = [docs |-> [i \in DOMAIN db.docs |->
                           [db.docs[i] EXCEPT !.blocks = BlocksOf(db.docs[i]),
                                              !.bpage = 0]],
               hashes |-> db.hashes, next |-> NextId(db.docs)]
  /\ UNCHANGED <<db, tx, job, doubt, writes>>

(* The process ends or dies. *)
ProcessEnds ==
  /\ mode # "none"
  /\ mode' = "none" /\ store' = New /\ tx' = NoTx /\ job' = NoJob
  /\ doubt' = FALSE
  /\ UNCHANGED <<db, writes>>

(* load_all_blocks, where it does not fail. *)
LoadAllBlocks ==
  /\ Ready /\ InFile
  /\ \A i \in UnloadedIds : Readable(store.docs[i])
  /\ store' = [store EXCEPT !.docs = [i \in DOMAIN @ |->
       IF i \in UnloadedIds
       THEN [store.docs[i] EXCEPT !.blocks = BlocksOf(store.docs[i])]
       ELSE store.docs[i]]]
  /\ UNCHANGED <<mode, db, tx, job, doubt, writes>>

(* The index of document i: read if it has pages, else built. *)
IndexOf(d) == IF InFile /\ d.ipage \in DOMAIN db.pages THEN db.pages[d.ipage].of
                                                     ELSE d.blocks

(* load_all_indexes, to be called after load_all_blocks. *)
LoadAllIndexes ==
  /\ Ready /\ UnloadedIds = {}
  /\ store' = [store EXCEPT !.docs = [i \in DOMAIN @ |->
       IF store.docs[i].idx # NoIndex THEN store.docs[i]
       ELSE [store.docs[i] EXCEPT !.idx = IndexOf(store.docs[i])]]]
  /\ UNCHANGED <<mode, db, tx, job, doubt, writes>>
-----------------------------------------------------------------------------
(* Single documents *)

Added(s, d) == [s EXCEPT !.docs = With(@, s.next, d), !.next = @ + 1]

(* The pages of a new document are not written: its id is used up. *)
Burnt(s) == [s EXCEPT !.next = @ + 1]

(* append_file, append_str, and on a store without storage add_file and    *)
(* add_str.                                                                *)
AppendDocument(p, c) ==
  /\ Ready /\ store.next \in Ids
  /\ LET d == Stored(Parsed(p, c))
     IN \/ Flush(Added(store, d), store, PagesWith(d))
        \/ InFile /\ store' = Burnt(store) /\ UNCHANGED <<db, doubt>>
  /\ Write /\ UNCHANGED <<mode, tx, job>>

(* replace_document; write-back calls it with what it has just written to  *)
(* the document's file.  The hash of the content is not recorded.          *)
ReplaceDocument(i, c) ==
  /\ Ready /\ i \in DOMAIN store.docs
  /\ LET d == [Stored(Parsed(store.docs[i].path, c))
               EXCEPT !.direct = i \in DOMAIN store.hashes]
     IN Flush([store EXCEPT !.docs[i] = d], store, PagesWith(d))
  /\ Write /\ UNCHANGED <<mode, tx, job>>
-----------------------------------------------------------------------------
(* reindex_paths *)

(* The store is snapshot. *)
StartReindex(P, prune) ==
  /\ Ready
  /\ job' = [on |-> TRUE, todo |-> P, read |-> [p \in {} |-> Missing],
             prune |-> prune, docs |-> store.docs, hashes |-> store.hashes]
  /\ Write /\ UNCHANGED <<mode, store, db, tx, doubt>>

(* File p is done with; what is read is recorded as Missing if it was not  *)
(* indexed.                                                                *)
Done(p, c) ==
  job' = [job EXCEPT !.todo = @ \ {p}, !.read = With(@, p, c)]

(* by_path: of several documents of one path the last. *)
IsByPath(p, i) == IsMax({j \in DOMAIN store.docs : store.docs[j].path = p}, i)
(* Mutated form: any hash is taken for that of the content. *)
HashedAny(i, c) == i \in DOMAIN store.hashes

(* The stored hash of document i is that of the content c. *)
Hashed(i, c) == i \in DOMAIN store.hashes /\ store.hashes[i] = c

(* The file cannot be read or parsed. *)
SkipUnreadable(p) ==
  /\ p \in job.todo
  /\ Done(p, Missing)
  /\ UNCHANGED <<mode, store, db, tx, doubt, writes>>

SkipUnchanged(p, c) ==
  /\ p \in job.todo
  /\ \E i \in Ids : IsByPath(p, i) /\ Hashed(i, c)
  /\ Done(p, c)
  /\ UNCHANGED <<mode, store, db, tx, doubt, writes>>

(* do_replace_at, and the hash.  (If the pages cannot be written, the file *)
(* is skipped like an unreadable one.)                                     *)
IndexChanged(p, c) ==
  /\ p \in job.todo
  /\ \E i \in Ids :
       /\ IsByPath(p, i) /\ ~Hashed(i, c)
       /\ LET d == Stored(Parsed(p, c))
          IN /\ Len(PagesWith(d)) < MaxPages
             /\ store' = [store EXCEPT !.docs[i] = d, !.hashes = With(@, i, c)]
             /\ db' = [db EXCEPT !.pages = PagesWith(d)]
  /\ Done(p, c)
  /\ UNCHANGED <<mode, tx, doubt, writes>>

(* do_append or add_str_with_path, and the hash; or the pages cannot be    *)
(* written.                                                                *)
IndexNew(p, c) ==
  /\ p \in job.todo /\ store.next \in Ids
  /\ ~\E i \in Ids : IsByPath(p, i)
  /\ LET d == Stored(Parsed(p, c))
     IN \/ /\ Len(PagesWith(d)) < MaxPages
           /\ store' = [Added(store, d) EXCEPT
                          !.hashes = With(@, store.next, c)]
           /\ db' = [db EXCEPT !.pages = PagesWith(d)]
           /\ Done(p, c)
        \/ InFile /\ store' = Burnt(store) /\ Done(p, Missing) /\ UNCHANGED db
  /\ UNCHANGED <<mode, tx, doubt, writes>>

(* Mutated form: documents without a path are dropped with the others. *)
GoneUnnamed == IF job.prune
               THEN {i \in DOMAIN store.docs :
                       store.docs[i].path \notin DOMAIN job.read}
               ELSE {}

(* Mutated form: doc_indexes stays as it is. *)
NoIndexesKept(D) == [i \in DOMAIN D |->
  [D[i] EXCEPT !.idx =
     IF i \in DOMAIN store.docs THEN store.docs[i].idx ELSE NoIndex]]

(* Documents whose path was not among the files are dropped if asked for,  *)
(* and the catalog is flushed; if that fails documents and hashes are      *)
(* restored, without their indexes, but not next_doc_id.                   *)
Gone == IF job.prune
        THEN {i \in DOMAIN store.docs :
                store.docs[i].path \notin DOMAIN job.read \cup {NoPath}}
        ELSE {}
NoIndexes(D) == [i \in DOMAIN D |-> [D[i] EXCEPT !.idx = NoIndex]]

(* Mutated form: the hash of a pruned document stays. *)
EndReindexKeepsHash ==
  /\ job.on /\ job.todo = {}
  /\ Flush([store EXCEPT !.docs = Without(@, Gone)],
           [store EXCEPT !.docs = NoIndexes(job.docs), !.hashes = job.hashes],
           db.pages)
  /\ job' = NoJob
  /\ UNCHANGED <<mode, tx, writes>>

EndReindex ==
  /\ job.on /\ job.todo = {}
  /\ Flush([store EXCEPT !.docs = Without(@, Gone),
                          !.hashes = Without(@, Gone)],
           [store EXCEPT !.docs = NoIndexes(job.docs), !.hashes = job.hashes],
           db.pages)
  /\ job' = NoJob
  /\ UNCHANGED <<mode, tx, writes>>
-----------------------------------------------------------------------------
(* New page files *)

(* Position among the ids I, counted from 1, and the id at a position. *)
Rank(I, i) == Cardinality({j \in I : j <= i})
Nth(I, k)  == CHOOSE i \in I : Rank(I, i) = k

IndexToSave(d) == IF d.idx # NoIndex THEN d.idx ELSE d.blocks

(* save_inner: first the blocks of all documents, then their indexes, from *)
(* what is in memory.                                                      *)
Rewritten(s) ==
  LET I == DOMAIN s.docs
      n == Cardinality(I)
      Moved(i) == [s.docs[i] EXCEPT !.bpage = Rank(I, i),
                                    !.ipage = n + Rank(I, i)]
  IN Published([s EXCEPT !.docs = [i \in I |-> Moved(i)]],
       [k \in 1 .. 2 * n |->
          IF k <= n
          THEN [kind |-> "blocks", of |-> s.docs[Nth(I, k)].blocks]
          ELSE [kind |-> "index", of |-> IndexToSave(s.docs[Nth(I, k - n)])]])

Fits == 2 * Cardinality(DOMAIN store.docs) < MaxPages

(* save to the path of the page file, where no other process has it open. *)
Save ==
  /\ Ready /\ Fits /\ mode = "memory"
  /\ db' = Rewritten(store)
  /\ UNCHANGED <<mode, store, tx, job, doubt, writes>>

(* vacuum of the store's own page file.  The documents keep their pages.   *)
Vacuum ==
  /\ Ready /\ InFile
  /\ Fits /\ (VacuumUnloaded \/ UnloadedIds = {})
  /\ mode' = "vacuumed" /\ db' = Rewritten(store) /\ doubt' = FALSE
  /\ UNCHANGED <<store, tx, job, writes>>
-----------------------------------------------------------------------------
(* Transactions (of one session: CatalogSessions has several) *)

Begin ==
  /\ Ready /\ ~tx.open
  /\ tx' = [open |-> TRUE, docs |-> store.docs, hashes |-> store.hashes]
  /\ UNCHANGED <<mode, store, db, job, doubt, writes>>

Commit ==
  /\ Ready /\ tx.open
  /\ tx' = NoTx
  /\ UNCHANGED <<mode, store, db, job, doubt, writes>>

(* Mutated form: what is restored is not published. *)
RollbackUnflushed ==
  /\ Ready /\ tx.open
  /\ store' = [store EXCEPT !.docs = NoIndexes(tx.docs), !.hashes = tx.hashes]
  /\ tx' = NoTx
  /\ UNCHANGED <<mode, db, job, doubt, writes>>

(* rollback_transaction: in memory it is done even if the flush fails. *)
Rollback ==
  /\ Ready /\ tx.open
  /\ LET s == [store EXCEPT !.docs = NoIndexes(tx.docs), !.hashes = tx.hashes]
     IN Flush(s, s, db.pages)
  /\ tx' = NoTx
  /\ UNCHANGED <<mode, job, writes>>
-----------------------------------------------------------------------------
Init ==
  /\ mode = "none" /\ store = New
  /\ db = NoDb /\ tx = NoTx /\ job = NoJob
  /\ doubt = FALSE /\ writes = 0

Next ==
  \/ NewStore \/ Open \/ Load \/ ProcessEnds
  \/ LoadAllBlocks \/ LoadAllIndexes
  \/ \E p \in Paths :
       \/ SkipUnreadable(p)
       \/ \E c \in Texts :
            SkipUnchanged(p, c) \/ IndexChanged(p, c) \/ IndexNew(p, c)
  \/ \E p \in Paths \cup {NoPath}, c \in Texts : AppendDocument(p, c)
  \/ \E i \in Ids, c \in Texts : ReplaceDocument(i, c)
  \/ \E P \in SUBSET Paths, prune \in BOOLEAN : StartReindex(P, prune)
  \/ EndReindex
  \/ Save \/ Vacuum
  \/ Begin \/ Commit \/ Rollback

Spec == Init /\ [][Next]_vars
-----------------------------------------------------------------------------
(* Properties *)

(* Every variable holds a value of its declared range. *)
TypeOK ==
  /\ mode \in {"none", "memory", "file", "vacuumed"}
  /\ \A s \in {store, db, tx, job} : IsDocs(s.docs) /\ IsHashes(s.hashes)
  /\ store.next \in 0 .. MaxId + 1
  /\ db.pages \in Seq(Page) /\ Len(db.pages) <= MaxPages
  /\ job.todo \cup DOMAIN job.read \subseteq Paths
  /\ \A p \in DOMAIN job.read : job.read[p] \in Texts \cup {Missing}
  /\ writes \in 0 .. MaxWrites
  /\ {tx.open, job.on, job.prune, doubt} \subseteq BOOLEAN

(* No document gets the id of another, whether that one is in memory, or   *)
(* will be again when a rollback or a failed reindex_paths restores it     *)
(* (next_doc_id is given back in do_append, not in reindex_paths).         *)
IdsAreFresh ==
  \A s \in {store, tx, job} : \A i \in DOMAIN s.docs : i < store.next

(* What the file shows can be read: every entry of the catalog names a     *)
(* page with its blocks and one with its index (write_document,            *)
(* write_index, save_inner).                                               *)
CatalogReadable ==
  \A i \in DOMAIN db.docs :
    LET d == db.docs[i]
    IN /\ d.sum # NoBlocks => /\ HoldsBlocks(db.pages, d.bpage)
                              /\ db.pages[d.bpage].of = d.sum
       /\ d.ipage \in DOMAIN db.pages
       /\ db.pages[d.ipage] = [kind |-> "index", of |-> d.sum]

(* Between operations a process that ended now would find its documents    *)
(* and hashes when it opened the file again, unless it was told that the   *)
(* last flush failed.                                                      *)
ReopensAsIs ==
  mode = "file" /\ ~job.on /\ ~doubt =>
    db.docs = LazyDocs(store.docs) /\ db.hashes = store.hashes

(* The blocks, the zone maps and the index of a document are of the same   *)
(* content, each unless it is not in memory.                               *)
CachesAgree ==
  \A i \in DOMAIN store.docs :
    /\ store.docs[i].blocks \in {NoBlocks, store.docs[i].sum}
    /\ store.docs[i].idx \in {NoIndex, store.docs[i].sum}

(* A stored hash is that of the content the document was parsed from, in   *)
(* memory, in the file and in what a rollback restores; replace_document   *)
(* aside, a file that reindex_paths skips as unchanged is unchanged, even  *)
(* when the id belonged to a document that was pruned.                     *)
HashesMatch ==
  \A s \in {store, tx, db} : \A i \in DOMAIN s.hashes :
    i \in DOMAIN s.docs /\ (s.docs[i].direct \/ s.docs[i].sum = s.hashes[i])

(* The step in which reindex_paths reports success. *)
ReportsSuccess ==
  job.on /\ job.todo = {} /\ ~job'.on /\ mode' # "none" /\ ~doubt'

(* Document i of a store has the content c of its file, or had it before   *)
(* replace_document put in another.                                        *)
Indexed(st, i, c) ==
  \/ st.docs[i].sum = c
  \/ /\ st.docs[i].direct
     /\ i \in DOMAIN st.hashes /\ st.hashes[i] = c

(* What a successful reindex_paths leaves of the files it has read and of  *)
(* the documents it found.                                                 *)
ReindexLeaves ==
  /\ \A p \in DOMAIN job.read : job.read[p] # Missing =>
       \E i \in DOMAIN store'.docs :
       store'.docs[i].path = p /\ Indexed(store', i, job.read[p])
  /\ \A i \in DOMAIN job.docs :
       \/ i \in DOMAIN store'.docs /\ store'.docs[i].path = job.docs[i].path
       \/ job.prune /\ job.docs[i].path \in Paths \ DOMAIN job.read

(* reindex_paths that reports success has indexed every file it could read *)
(* and write, as it read it, and has dropped no document but those of      *)
(* paths it was not given, and these only when asked to.  One case is      *)
(* excepted: replace_document does not record the hash of what it puts in, *)
(* so that a file which has again the content that was hashed before is    *)
(* skipped as unchanged, and the document keeps what replaced it.          *)
ReindexesAll == [][ReportsSuccess => ReindexLeaves]_vars
=============================================================================
