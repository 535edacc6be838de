--------------------------- MODULE CatalogCommit ---------------------------
(***************************************************************************)
(* The v8 page file of one store: one writer that publishes copy-on-write  *)
(* catalogs through two alternating superblocks, the medium below it, and  *)
(* readers that open the same file without a lock (src/storage.rs,         *)
(* src/storage/page.rs, src/storage/catalog.rs).                           *)
(*                                                                         *)
(* A page has a visible content, what read(2) returns.  A power failure    *)
(* may leave another one: for a superblock, overwritten in place, any      *)
(* member of sbOnDisk; for a body page, written once, its content or a     *)
(* torn one while the page is in unsynced.  Pages 1 and 2 are the          *)
(* superblocks, pages from 3 on are the append-only body.  Page 0 is not   *)
(* written again after `create` in format v8 and is left out.              *)
(*                                                                         *)
(* A store is abstracted to one document: the catalog is one page, which   *)
(* names the page of the document.                                         *)
(***************************************************************************)
EXTENDS Integers

CONSTANTS
  Values,     \* document contents
  NoValue,    \* the content of no document
  Readers,    \* processes that call open_read_only
  MaxPage,    \* last page id the file can grow to; the code's limit is u32
  MaxGen      \* last generation; the code's limit is u64

ASSUME BoundsAssumption ==
  /\ MaxPage \in Nat /\ MaxPage >= 3
  /\ MaxGen \in Nat /\ MaxGen >= 1

ASSUME ValuesAssumption == NoValue \notin Values

SlotA == 1
SlotB == 2
Slots == {SlotA, SlotB}
Body  == 3 .. MaxPage
NoDoc == 0

(* A superblock.  One with a bad checksum, magic, page id or generation 0  *)
(* is rejected whatever else it says: all of those are Invalid.            *)
Record  == [gen : 0 .. MaxGen, root : 0 .. MaxPage, pages : 0 .. MaxPage + 1]
Invalid == [gen |-> 0, root |-> 0, pages |-> 0]

(* A document as memory and catalogs hold it: where it is and what it is.  *)
Doc   == [page : Body \cup {NoDoc}, val : Values \cup {NoValue}]
Empty == [page |-> NoDoc, val |-> NoValue]

(* A body page: the data of a document, a catalog, or an incomplete write. *)
Page == [kind : {"torn", "data", "catalog"}, doc : Doc]
TornPage       == [kind |-> "torn", doc |-> Empty]
DataPage(v)    == [kind |-> "data", doc |-> [page |-> NoDoc, val |-> v]]
CatalogPage(d) == [kind |-> "catalog", doc |-> d]

VARIABLES
  sb,        \* sb[s]: visible content of superblock s
  sbOnDisk,  \* sbOnDisk[s]: the contents a power failure may leave there
  body,      \* body[p]: visible content of page p, for p < filePages
  unsynced,  \* body pages a power failure may tear
  filePages, \* physical length of the file in whole pages
  safePages, \* the length it has at least after a power failure
  writer,    \* the Storage handle of the process that holds the write lock
  reader,    \* reader[r]: a Storage handle opened without the lock
  base       \* history: the record the store is committed to: the last one
             \* reported as a success, or since then recovered after a power
             \* failure, or found by a writer and synced with its own pages

fileVars == <<sb, sbOnDisk, body, unsynced, filePages, safePages>>
vars == <<fileVars, writer, reader, base>>

Writer ==
  [pc : {"closed", "idle", "appended", "synced", "writing", "written"},
   gen : 0 .. MaxGen,       \* Storage.generation
   doc : Doc,               \* the document in memory
   undo : Doc,              \* what a failing operation restores
   newRoot : Body \cup {0}] \* the root the flush under way has appended
ClosedWriter == [pc |-> "closed", gen |-> 0, doc |-> Empty, undo |-> Empty,
                 newRoot |-> 0]

Reader ==
  [pc : {"closed", "readA", "readB", "open", "failed"},
   pages : 0 .. MaxPage + 1, \* the file length measured when opening it
   rec : Record,             \* the candidate read so far, then the choice
   since : 0 .. MaxGen]      \* history: the generation of base at that time
ClosedReader == [pc |-> "closed", pages |-> 0, rec |-> Invalid, since |-> 0]

-----------------------------------------------------------------------------
(* Choosing a root *)

SlotOf(g) == IF g % 2 = 0 THEN SlotB ELSE SlotA

(* Mutated forms: the length of the file is not checked; the committed     *)
(* length must be smaller than it.                                         *)
AcceptedAnyLength(x, n) == x.gen # 0 /\ x.root >= 3 /\ x.root < x.pages
AcceptedShorter(x, n) == AcceptedAnyLength(x, n) /\ x.pages < n

(* decode_superblock: what makes x a candidate in a file of n pages. *)
Accepted(x, n) ==
  /\ x.gen # 0
  /\ x.root >= 3
  /\ x.root < x.pages
  /\ x.pages <= n

(* open_with_lock: of the accepted records, the one of later generation. *)
Newest(a, b, n) ==
  IF Accepted(b, n) /\ (Accepted(a, n) => b.gen >= a.gen) THEN b
  ELSE IF Accepted(a, n) THEN a
  ELSE Invalid

(* read_blocks finds document d on the pages below n. *)
StoredIn(pages, d, n) ==
  d.page # NoDoc => d.page < n /\ pages[d.page] = DataPage(d.val)

(* load_catalog and read_blocks succeed on the catalog at page p. *)
Readable(p) ==
  /\ p \in Body /\ p < filePages
  /\ body[p].kind = "catalog"
  /\ StoredIn(body, body[p].doc, filePages)

-----------------------------------------------------------------------------
(* The file *)

(* append_page: the page gets the first id past the physical length. *)
AppendPage(c) ==
  /\ filePages <= MaxPage
  /\ body' = [body EXCEPT ![filePages] = c]
  /\ unsynced' = unsynced \cup {filePages}
  /\ filePages' = filePages + 1
  /\ UNCHANGED <<sb, sbOnDisk, safePages>>

(* sync_all succeeds: every page still dirty reaches the medium. *)
SyncAll ==
  /\ sbOnDisk' = [s \in Slots |-> {sb[s]}]
  /\ unsynced' = {}
  /\ safePages' = filePages
  /\ UNCHANGED <<sb, body, filePages>>

(* sync_all fails: any part of the dirty pages may have been written, and  *)
(* the next sync_all writes those that have not.                           *)
SyncError == UNCHANGED fileVars

-----------------------------------------------------------------------------
(* The writer *)

(* A document's pages are written before the flush (do_append,             *)
(* do_replace_at, persist_unsaved_table_rows).                             *)
WriteDocument(v) ==
  /\ writer.pc = "idle"
  /\ AppendPage(DataPage(v))
  /\ writer' = [writer EXCEPT !.doc = [page |-> filePages, val |-> v]]
  /\ UNCHANGED <<reader, base>>

(* flush_catalog begins: append_catalog. *)
AppendCatalog ==
  /\ writer.pc = "idle"
  /\ AppendPage(CatalogPage(writer.doc))
  /\ writer' = [writer EXCEPT !.pc = "appended", !.newRoot = filePages]
  /\ UNCHANGED <<reader, base>>

(* A step of the operation returned an error.  do_append and do_replace_at *)
(* restore the previous document; the chain of a table stays referenced by *)
(* persist_unsaved_table_rows and append_table_rows_to_storage.            *)
Refuse ==
  /\ \E d \in {writer.doc, writer.undo} :
       writer' = [writer EXCEPT !.pc = "idle", !.doc = d, !.undo = d,
                                !.newRoot = 0]
  /\ UNCHANGED <<reader, base>>

(* An append, or a superblock write before its first byte, fails. *)
WriteFails ==
  /\ \/ writer.pc = "idle" /\ writer.doc # writer.undo
     \/ writer.pc = "synced"
  /\ Refuse
  /\ UNCHANGED fileVars

(* Mutated form: the catalog is not synced before the superblock. *)
SyncCatalogSkipped ==
  /\ writer.pc = "appended"
  /\ writer' = [writer EXCEPT !.pc = "synced"]
  /\ UNCHANGED <<fileVars, reader, base>>

(* The first sync of a flush.  It covers, too, a record found at Open that *)
(* its writer never synced: from here on the store is committed to it.     *)
SyncCatalog ==
  /\ writer.pc = "appended"
  /\ SyncAll
  /\ writer' = [writer EXCEPT !.pc = "synced"]
  /\ base' = sb[SlotOf(writer.gen)]
  /\ UNCHANGED reader

SyncFails ==
  /\ writer.pc \in {"appended", "written"}
  /\ SyncError
  /\ Refuse

(* Mutated forms: the committed length is one page too long; the record    *)
(* goes to the slot of the current one, or always to slot B.               *)
NewRecordTooLong == [gen |-> writer.gen + 1, root |-> writer.newRoot,
                     pages |-> filePages + 1]
TargetCurrent == SlotOf(writer.gen)
TargetFixed == SlotB

(* The superblock that the flush under way writes, and the slot it is for. *)
NewRecord == [gen |-> writer.gen + 1, root |-> writer.newRoot,
              pages |-> filePages]
Target == SlotOf(writer.gen + 1)

(* write_page of the superblock is not atomic for a concurrent read: it    *)
(* has a beginning, which leaves the slot unreadable, and an end.          *)
BeginRecord ==
  /\ writer.pc = "synced"
  /\ writer.gen < MaxGen
  /\ sb' = [sb EXCEPT ![Target] = Invalid]
  /\ sbOnDisk' = [sbOnDisk EXCEPT ![Target] = @ \cup {Invalid, NewRecord}]
  /\ writer' = [writer EXCEPT !.pc = "writing"]
  /\ UNCHANGED <<body, unsynced, filePages, safePages, reader, base>>

EndRecord ==
  /\ writer.pc = "writing"
  /\ sb' = [sb EXCEPT ![Target] = NewRecord]
  /\ writer' = [writer EXCEPT !.pc = "written"]
  /\ UNCHANGED <<sbOnDisk, body, unsynced, filePages, safePages, reader, base>>

RecordWriteFails ==
  /\ writer.pc = "writing"
  /\ Refuse
  /\ UNCHANGED fileVars

(* Mutated form: success is reported without the second sync. *)
SyncRecordSkipped ==
  /\ writer.pc = "written"
  /\ base' = NewRecord
  /\ writer' = [writer EXCEPT !.pc = "idle", !.gen = writer.gen + 1,
                              !.undo = writer.doc, !.newRoot = 0]
  /\ UNCHANGED <<fileVars, reader>>

(* flush_catalog ends: only now does the handle adopt the new generation. *)
SyncRecord ==
  /\ writer.pc = "written"
  /\ SyncAll
  /\ base' = NewRecord
  /\ writer' = [writer EXCEPT !.pc = "idle", !.gen = writer.gen + 1,
                              !.undo = writer.doc, !.newRoot = 0]
  /\ UNCHANGED reader

(* The writing process ends, between or within operations: its memory is   *)
(* gone, what it wrote stays visible.                                      *)
ProcessEnds ==
  /\ writer.pc # "closed"
  /\ writer' = ClosedWriter
  /\ UNCHANGED <<fileVars, reader, base>>

(* Storage::open, then load_catalog in DocumentStore::open. *)
Open ==
  /\ writer.pc = "closed"
  /\ LET x == Newest(sb[SlotA], sb[SlotB], filePages)
     IN /\ Accepted(x, filePages)
        /\ Readable(x.root)
        /\ writer' = [pc |-> "idle", gen |-> x.gen, doc |-> body[x.root].doc,
                      undo |-> body[x.root].doc, newRoot |-> 0]
  /\ UNCHANGED <<fileVars, reader, base>>

-----------------------------------------------------------------------------
(* Readers: open_read_only measures the file, then reads slot A, then B.   *)

OpenFile(r) ==
  /\ reader[r].pc = "closed"
  /\ reader' = [reader EXCEPT ![r] = [pc |-> "readA", pages |-> filePages,
                                      rec |-> Invalid, since |-> base.gen]]
  /\ UNCHANGED <<fileVars, writer, base>>

ReadSlotA(r) ==
  /\ reader[r].pc = "readA"
  /\ reader' = [reader EXCEPT ![r].pc = "readB",
       ![r].rec = Newest(sb[SlotA], Invalid, reader[r].pages)]
  /\ UNCHANGED <<fileVars, writer, base>>

ReadSlotB(r) ==
  /\ reader[r].pc = "readB"
  /\ LET x == Newest(reader[r].rec, sb[SlotB], reader[r].pages)
     IN reader' = [reader EXCEPT ![r].rec = x,
          ![r].pc = IF Accepted(x, reader[r].pages) THEN "open" ELSE "failed"]
  /\ UNCHANGED <<fileVars, writer, base>>

CloseFile(r) ==
  /\ reader[r].pc \in {"open", "failed"}
  /\ reader' = [reader EXCEPT ![r] = ClosedReader]
  /\ UNCHANGED <<fileVars, writer, base>>

-----------------------------------------------------------------------------
(* The machine stops: of the file at least the synced length is left, of   *)
(* a superblock one of its contents, of an unsynced page perhaps a part.   *)
PowerFailure ==
  \E a \in sbOnDisk[SlotA], b \in sbOnDisk[SlotB],
     n \in safePages .. filePages, torn \in SUBSET unsynced :
    /\ sb' = [s \in Slots |-> IF s = SlotA THEN a ELSE b]
    /\ sbOnDisk' = [s \in Slots |-> IF s = SlotA THEN {a} ELSE {b}]
    /\ body' = [p \in Body |-> IF p < n /\ p \notin torn THEN body[p]
                               ELSE TornPage]
    /\ unsynced' = {}
    /\ filePages' = n
    /\ safePages' = n
    /\ writer' = ClosedWriter
    /\ reader' = [r \in Readers |-> ClosedReader]
    /\ base' = Newest(a, b, n)

(* The file as Storage::create leaves it: header, superblock A of          *)
(* generation 1, a blank superblock B and the empty catalog, all synced.   *)
Init ==
  /\ sb = [s \in Slots |-> IF s = SlotA THEN [gen |-> 1, root |-> 3, pages |-> 4]
                           ELSE Invalid]
  /\ sbOnDisk = [s \in Slots |-> {sb[s]}]
  /\ body = [p \in Body |-> IF p = 3 THEN CatalogPage(Empty) ELSE TornPage]
  /\ unsynced = {}
  /\ filePages = 4
  /\ safePages = 4
  /\ writer = [pc |-> "idle", gen |-> 1, doc |-> Empty, undo |-> Empty,
               newRoot |-> 0]
  /\ reader = [r \in Readers |-> ClosedReader]
  /\ base = sb[SlotA]

Next ==
  \/ \E v \in Values : WriteDocument(v)
  \/ AppendCatalog \/ WriteFails
  \/ SyncCatalog \/ SyncFails
  \/ BeginRecord \/ EndRecord \/ RecordWriteFails \/ SyncRecord
  \/ ProcessEnds \/ Open
  \/ \E r \in Readers : OpenFile(r) \/ ReadSlotA(r) \/ ReadSlotB(r) \/ CloseFile(r)
  \/ PowerFailure

Spec == Init /\ [][Next]_vars
-----------------------------------------------------------------------------
(* Properties *)

(* Every variable holds a value of its declared range. *)
TypeOK ==
  /\ sb \in [Slots -> Record]
  /\ sbOnDisk \in [Slots -> SUBSET Record]
  /\ body \in [Body -> Page]
  /\ unsynced \subseteq Body
  /\ filePages \in 4 .. MaxPage + 1
  /\ safePages \in 4 .. MaxPage + 1
  /\ writer \in Writer
  /\ reader \in [Readers -> Reader]
  /\ base \in Record

(* What opening the store chooses after a power failure here, one record   *)
(* for every state the failure may leave the superblocks and length in.    *)
Outcomes == {Newest(a, b, n) : a \in sbOnDisk[SlotA], b \in sbOnDisk[SlotB],
                               n \in safePages .. filePages}

(* The pages that record x names survive a power failure with the content  *)
(* they were written with.                                                 *)
Intact(x) ==
  /\ Readable(x.root)
  /\ x.root \notin unsynced
  /\ body[x.root].doc.page \notin unsynced

(* Whatever the writer was doing, a power failure leaves a store that      *)
(* opens, with every page of its catalog whole, and never with an older    *)
(* catalog than the last one reported as committed (flush_catalog,         *)
(* open_with_lock).                                                        *)
Durable == \A x \in Outcomes :
  /\ Accepted(x, safePages)
  /\ Intact(x)
  /\ x = base \/ x.gen > base.gen

(* A process crash, too, leaves a store that opens at the last reported    *)
(* commit or a later one: what is visible is also recoverable.             *)
VisibleCommitted ==
  LET x == Newest(sb[SlotA], sb[SlotB], filePages)
  IN Readable(x.root) /\ (x = base \/ x.gen > base.gen)

(* No superblock that may be on the medium names a catalog that may not be *)
(* there: "an on-disk commit record never points at catalog pages which    *)
(* have not reached stable media" (flush_catalog).                         *)
RecordsNameStablePages ==
  \A s \in Slots : \A x \in sbOnDisk[s] \cup {sb[s]} :
    x.gen # 0 => /\ x.pages <= safePages
                 /\ x.root \notin unsynced
                 /\ body[x.root].kind = "catalog"

(* A reader that holds no lock keeps a whole catalog: no page of the root  *)
(* it chose is ever written again, however far the writer gets             *)
(* (open_read_only, append_catalog).                                       *)
SnapshotIntact ==
  \A r \in Readers : reader[r].pc = "open" =>
    /\ Readable(reader[r].rec.root)
    /\ reader[r].rec.root < reader[r].pages

(* The catalog a reader gets is at most one commit older than the last one *)
(* reported before it opened the file, and it gets none only when the      *)
(* writer published another commit meanwhile.                              *)
BoundedStaleness ==
  \A r \in Readers :
    /\ reader[r].pc = "open" => reader[r].rec.gen + 1 >= reader[r].since
    /\ reader[r].pc = "failed" =>
         Newest(sb[SlotA], sb[SlotB], filePages).gen > reader[r].since

(* The promise of the protocol as an atomic register.                      *)
Register == INSTANCE DurableCatalog WITH
  Catalogs <- Record, base <- base, possible <- Outcomes

(* The page file implements the register: commits are all or nothing, and  *)
(* only a failed or unfinished one is ever in doubt.                       *)
ImplementsRegister == Register!Spec
=============================================================================
