------------------------ MODULE CatalogCommitProofs ------------------------
(***************************************************************************)
(* What CatalogCommit guarantees for every number of pages, generations,   *)
(* document contents and readers, when a failed fsync keeps its pages      *)
(* dirty: commits survive, what is on the medium is whole, and a reader's  *)
(* catalog is never touched again.                                         *)
(*                                                                         *)
(* The argument: the slot of base holds base alone (BaseHeld); everything  *)
(* a superblock may hold names synced pages below the synced length        *)
(* (RecordsSound); so whatever a power failure picks from the other slot,  *)
(* base or something newer is chosen.  A writer past its first sync holds  *)
(* base itself, and so aims at the other slot (WriterSound).               *)
(*                                                                         *)
(* A second layer (NInv) adds that the other slot never holds anything but *)
(* the predecessor or the successor of base: from that follow the          *)
(* refinement of DurableCatalog and how stale a reader can be.             *)
(***************************************************************************)
EXTENDS CatalogCommit, TLAPS

(* The record x names a catalog whose pages no power failure can take. *)
Sound(x) ==
  /\ x.root \in Body
  /\ x.root < x.pages
  /\ x.pages <= safePages
  /\ x.root \notin unsynced
  /\ body[x.root].kind = "catalog"
  /\ StoredIn(body, body[x.root].doc, x.root)
  /\ body[x.root].doc.page \notin unsynced

(* Nothing but sound records of the right parity, or an unreadable one, is *)
(* visible in a slot or may be left there.                                 *)
RecordsSound ==
  \A s \in Slots :
    /\ sb[s] \in sbOnDisk[s]
    /\ \A x \in sbOnDisk[s] :
         x = Invalid \/ (x.gen # 0 /\ SlotOf(x.gen) = s /\ Sound(x))

(* The slot of base holds base, whatever happens. *)
BaseHeld ==
  /\ base.gen # 0
  /\ sbOnDisk[SlotOf(base.gen)] = {base}

FileSound ==
  /\ safePages <= filePages
  /\ \A p \in unsynced : p < filePages

WriterSound ==
  /\ writer.pc # "closed" =>
       /\ writer.gen # 0
       /\ sb[SlotOf(writer.gen)].gen = writer.gen
       /\ StoredIn(body, writer.doc, filePages)
       /\ StoredIn(body, writer.undo, filePages)
  /\ writer.pc \in {"appended", "synced", "writing", "written"} =>
       /\ writer.newRoot \in Body
       /\ writer.newRoot < filePages
       /\ body[writer.newRoot] = CatalogPage(writer.doc)
       /\ StoredIn(body, writer.doc, writer.newRoot)
  /\ writer.pc \in {"synced", "writing", "written"} =>
       /\ unsynced = {}
       /\ safePages = filePages
       /\ base = sb[SlotOf(writer.gen)]
  /\ writer.pc \in {"writing", "written"} => writer.gen < MaxGen
  /\ writer.pc = "writing" => NewRecord \in sbOnDisk[Target]
  /\ writer.pc = "written" => sb[Target] = NewRecord

(* A candidate or chosen root of a reader is a whole catalog below the     *)
(* length the reader measured.                                             *)
ReadersSound ==
  \A r \in Readers :
    /\ reader[r].pages <= filePages
    /\ reader[r].pc \in {"readB", "open"} =>
         \/ reader[r].rec = Invalid /\ reader[r].pc = "readB"
         \/ /\ reader[r].rec.root \in Body
            /\ reader[r].rec.root < reader[r].pages
            /\ Readable(reader[r].rec.root)

IInv == TypeOK /\ RecordsSound /\ BaseHeld /\ FileSound /\ WriterSound /\ ReadersSound
-----------------------------------------------------------------------------
(* Records and slots *)

(* Consecutive generations go to different slots. *)
LEMMA SlotsAlternate ==
  ASSUME NEW g \in Nat
  PROVE  SlotOf(g) \in Slots /\ SlotOf(g + 1) \in Slots /\ SlotOf(g + 1) # SlotOf(g)
  BY DEF SlotOf, Slots, SlotA, SlotB

(* Where one of two slots holds an acceptable x, the choice is acceptable   *)
(* and not older than x.                                                    *)
LEMMA NewestIsSound ==
  ASSUME NEW a \in Record, NEW b \in Record, NEW n \in Nat,
         NEW x \in {a, b}, Accepted(x, n)
  PROVE  /\ Newest(a, b, n) \in {a, b}
         /\ Accepted(Newest(a, b, n), n)
         /\ Newest(a, b, n).gen >= x.gen
  BY DEF Newest, Accepted, Record

(* The invariant holds of the file that create leaves. *)
LEMMA InitIInv == Init => IInv
  <1> SUFFICES ASSUME Init PROVE IInv
    OBVIOUS
  <1> USE BoundsAssumption
  <1>1. TypeOK
    BY ValuesAssumption DEF Init, TypeOK, Record, Invalid, Page, Doc, Empty, TornPage,
       CatalogPage, Body, NoDoc, Slots, SlotA, SlotB, Writer, Reader, ClosedReader
  <1>2. RecordsSound
    BY DEF Init, RecordsSound, Sound, StoredIn, Invalid, SlotOf, Slots, SlotA, SlotB,
       Body, CatalogPage, Empty, NoDoc
  <1>3. BaseHeld
    BY DEF Init, BaseHeld, SlotOf, Slots, SlotA, SlotB
  <1>4. FileSound
    BY DEF Init, FileSound
  <1>5. WriterSound
    BY DEF Init, WriterSound, SlotOf, Slots, SlotA, SlotB, StoredIn, Empty, NoDoc
  <1>6. ReadersSound
    BY DEF Init, ReadersSound, ClosedReader
  <1> QED
    BY <1>1, <1>2, <1>3, <1>4, <1>5, <1>6 DEF IInv
-----------------------------------------------------------------------------
(* Steps of the writer *)

(* The parts of the invariant that a step leaves alone when it changes no  *)
(* page below the end of the file and takes no page off the medium.        *)
FileGrows ==
  /\ filePages <= filePages'
  /\ \A p \in Body : p < filePages => body'[p] = body[p]

LEMMA StoredStays ==
  ASSUME TypeOK, FileGrows, NEW d \in Doc, NEW n \in Nat, n <= filePages,
         StoredIn(body, d, n), NEW m \in Nat, n <= m
  PROVE  StoredIn(body', d, m)
  BY BoundsAssumption DEF TypeOK, FileGrows, StoredIn, Doc, NoDoc, Body

LEMMA ReadableStays ==
  ASSUME TypeOK, FileGrows, filePages' \in Nat, NEW p \in Body, Readable(p)
  PROVE  Readable(p)'
  <1>1. p < filePages /\ body'[p] = body[p] /\ p < filePages'
    BY BoundsAssumption DEF TypeOK, FileGrows, Readable, Body
  <1>2. body[p].doc \in Doc /\ filePages \in Nat
    BY DEF TypeOK, Page
  <1>3. StoredIn(body', body[p].doc, filePages')
    BY <1>2, StoredStays DEF Readable, FileGrows
  <1> QED
    BY <1>1, <1>3 DEF Readable

LEMMA SoundStays ==
  ASSUME TypeOK, FileSound, FileGrows, safePages <= safePages', safePages' \in Nat,
         \A p \in unsynced' : p \in unsynced \/ p >= filePages,
         NEW x \in Record, Sound(x)
  PROVE  Sound(x)'
  <1>1. /\ x.root \in Body /\ x.root \in Nat /\ x.root < filePages
        /\ body'[x.root] = body[x.root] /\ filePages \in Nat
    BY BoundsAssumption DEF TypeOK, FileSound, FileGrows, Sound, Record, Body
  <1>2. body[x.root].doc \in Doc /\ body[x.root].kind = "catalog"
    BY <1>1 DEF TypeOK, Page, Sound
  <1>3. StoredIn(body', body[x.root].doc, x.root)
    BY <1>1, <1>2, StoredStays DEF Sound
  <1>4. x.root \notin unsynced' /\ body[x.root].doc.page \notin unsynced'
    <2>1. body[x.root].doc.page # NoDoc => body[x.root].doc.page < filePages
      BY <1>1, <1>2, BoundsAssumption DEF Sound, StoredIn, Doc, NoDoc, Body
    <2>2. body[x.root].doc.page = NoDoc => body[x.root].doc.page < filePages
      BY DEF NoDoc, TypeOK
    <2>3. body[x.root].doc.page \in Nat
      BY <1>2, BoundsAssumption DEF Doc, NoDoc, Body
    <2> QED
      BY <1>1, <2>1, <2>2, <2>3 DEF Sound
  <1>5. x.pages <= safePages'
    BY DEF Sound, TypeOK, Record
  <1> QED
    BY <1>1, <1>2, <1>3, <1>4, <1>5 DEF Sound

(* A sound record has a whole catalog. *)
LEMMA SoundIsReadable ==
  ASSUME TypeOK, FileSound, NEW x \in Record, Sound(x)
  PROVE  Readable(x.root) /\ Intact(x)
  <1>1. x.root \in Nat /\ x.root < filePages /\ filePages \in Nat
    BY BoundsAssumption DEF TypeOK, FileSound, Sound, Record, Body
  <1>2. body[x.root].doc \in Doc
    BY DEF TypeOK, Page, Sound
  <1>3. StoredIn(body, body[x.root].doc, filePages)
    BY <1>1, <1>2, BoundsAssumption DEF Sound, StoredIn, Doc, NoDoc, Body
  <1> QED
    BY <1>1, <1>3 DEF Sound, Readable, Intact

(* A file that only grows keeps what readers have chosen. *)
LEMMA ReadersStay ==
  ASSUME TypeOK, ReadersSound, FileGrows, filePages' \in Nat, reader' = reader
  PROVE  ReadersSound'
  <1> SUFFICES ASSUME NEW r \in Readers
               PROVE  /\ reader[r].pages <= filePages'
                      /\ reader[r].pc \in {"readB", "open"} =>
                           \/ reader[r].rec = Invalid /\ reader[r].pc = "readB"
                           \/ /\ reader[r].rec.root \in Body
                              /\ reader[r].rec.root < reader[r].pages
                              /\ Readable(reader[r].rec.root)'
    BY DEF ReadersSound
  <1>1. reader[r].pages <= filePages'
    BY DEF ReadersSound, FileGrows, TypeOK, Reader
  <1> QED
    BY <1>1, ReadableStays DEF ReadersSound
-----------------------------------------------------------------------------
(* Type correctness of every step *)

LEMMA RecordTypes ==
  /\ Invalid \in Record
  /\ \A a, b \in Record : \A n \in Nat : Newest(a, b, n) \in Record
  BY BoundsAssumption DEF Invalid, Record, Newest

LEMMA NewRecordType ==
  ASSUME TypeOK, writer.gen < MaxGen
  PROVE  NewRecord \in Record /\ Target \in Slots
  <1>1. writer.gen \in Nat /\ writer.newRoot \in 0 .. MaxPage
    BY BoundsAssumption DEF TypeOK, Writer, Body
  <1>2. writer.gen + 1 \in 0 .. MaxGen /\ filePages \in 0 .. MaxPage + 1
    BY <1>1, BoundsAssumption DEF TypeOK
  <1> QED
    BY <1>1, <1>2, SlotsAlternate DEF NewRecord, Target, Record

LEMMA PageTypes ==
  /\ TornPage \in Page
  /\ \A v \in Values : DataPage(v) \in Page
  /\ \A d \in Doc : CatalogPage(d) \in Page
  /\ Empty \in Doc
  BY BoundsAssumption DEF TornPage, Page, DataPage, CatalogPage, Doc, Empty, NoDoc, Body

LEMMA AppendPageType ==
  ASSUME TypeOK, NEW c \in Page, AppendPage(c)
  PROVE  /\ sb' \in [Slots -> Record] /\ sbOnDisk' \in [Slots -> SUBSET Record]
         /\ body' \in [Body -> Page] /\ unsynced' \subseteq Body
         /\ filePages' \in 4 .. MaxPage + 1 /\ safePages' \in 4 .. MaxPage + 1
         /\ filePages \in Body
  BY BoundsAssumption DEF TypeOK, AppendPage, Body

LEMMA SyncAllType ==
  ASSUME TypeOK, SyncAll
  PROVE  /\ sb' \in [Slots -> Record] /\ sbOnDisk' \in [Slots -> SUBSET Record]
         /\ body' \in [Body -> Page] /\ unsynced' \subseteq Body
         /\ filePages' \in 4 .. MaxPage + 1 /\ safePages' \in 4 .. MaxPage + 1
  BY DEF TypeOK, SyncAll

LEMMA RefuseType ==
  ASSUME TypeOK, Refuse
  PROVE  writer' \in Writer /\ reader' = reader /\ base' = base
  BY DEF TypeOK, Refuse, Writer

(* No step leaves the declared ranges. *)
LEMMA NextTypeOK == IInv /\ [Next]_vars => TypeOK'
  <1> SUFFICES ASSUME TypeOK, RecordsSound, BaseHeld, FileSound, WriterSound,
                      ReadersSound, [Next]_vars
               PROVE  TypeOK'
    BY DEF IInv
  <1> USE DEF vars, fileVars
  <1>1. ASSUME NEW v \in Values, WriteDocument(v) PROVE TypeOK'
    <2>1. AppendPage(DataPage(v)) /\ DataPage(v) \in Page
      BY <1>1, PageTypes DEF WriteDocument
    <2>2. writer' \in Writer
      BY <1>1, <2>1, AppendPageType DEF WriteDocument, TypeOK, Writer, Doc
    <2> QED
      BY <1>1, <2>1, <2>2, AppendPageType DEF WriteDocument, TypeOK
  <1>2. CASE AppendCatalog
    <2>1. AppendPage(CatalogPage(writer.doc)) /\ CatalogPage(writer.doc) \in Page
      BY <1>2, PageTypes DEF AppendCatalog, TypeOK, Writer
    <2>2. writer' \in Writer
      BY <1>2, <2>1, AppendPageType DEF AppendCatalog, TypeOK, Writer
    <2> QED
      BY <1>2, <2>1, <2>2, AppendPageType DEF AppendCatalog, TypeOK
  <1>3. CASE WriteFails
    BY <1>3, RefuseType DEF WriteFails, TypeOK
  <1>4. CASE SyncCatalog
    <2>1. writer' \in Writer
      BY <1>4 DEF SyncCatalog, TypeOK, Writer
    <2>2. SlotOf(writer.gen) \in Slots
      BY SlotsAlternate, BoundsAssumption DEF TypeOK, Writer
    <2>3. base' \in Record
      BY <1>4, <2>2 DEF SyncCatalog, TypeOK
    <2> QED
      BY <1>4, <2>1, <2>3, SyncAllType DEF SyncCatalog, TypeOK
  <1>5. CASE SyncFails
    BY <1>5, RefuseType DEF SyncFails, SyncError, TypeOK
  <1>6. CASE BeginRecord
    <2>1. NewRecord \in Record /\ Target \in Slots /\ Invalid \in Record
      BY <1>6, NewRecordType, RecordTypes DEF BeginRecord
    <2>2. writer' \in Writer
      BY <1>6 DEF BeginRecord, TypeOK, Writer
    <2> QED
      BY <1>6, <2>1, <2>2 DEF BeginRecord, TypeOK
  <1>7. CASE EndRecord
    <2>1. NewRecord \in Record /\ Target \in Slots
      BY <1>7, NewRecordType DEF EndRecord, WriterSound
    <2>2. writer' \in Writer
      BY <1>7 DEF EndRecord, TypeOK, Writer
    <2> QED
      BY <1>7, <2>1, <2>2 DEF EndRecord, TypeOK
  <1>8. CASE RecordWriteFails
    BY <1>8, RefuseType DEF RecordWriteFails, TypeOK
  <1>9. CASE SyncRecord
    <2>1. NewRecord \in Record /\ writer.gen + 1 \in 0 .. MaxGen
      BY <1>9, NewRecordType, BoundsAssumption DEF SyncRecord, WriterSound, TypeOK, Writer
    <2>2. writer' \in Writer
      BY <1>9, <2>1 DEF SyncRecord, TypeOK, Writer
    <2> QED
      BY <1>9, <2>1, <2>2, SyncAllType DEF SyncRecord, TypeOK
  <1>10. CASE ProcessEnds
    <2>1. ClosedWriter \in Writer
      BY PageTypes, BoundsAssumption DEF ClosedWriter, Writer
    <2> QED
      BY <1>10, <2>1 DEF ProcessEnds, TypeOK
  <1>11. CASE Open
    <2> DEFINE x == Newest(sb[SlotA], sb[SlotB], filePages)
    <2>1. x \in Record
      BY RecordTypes, BoundsAssumption DEF TypeOK, Slots
    <2>2. x.root \in Body /\ body[x.root].doc \in Doc
      BY <1>11 DEF Open, Readable, TypeOK, Page
    <2>3. writer' \in Writer
      BY <1>11, <2>1, <2>2, BoundsAssumption DEF Open, Writer, Record
    <2> QED
      BY <1>11, <2>3 DEF Open, TypeOK
  <1>12. ASSUME NEW r \in Readers, OpenFile(r) PROVE TypeOK'
    <2>1. [pc |-> "readA", pages |-> filePages, rec |-> Invalid,
           since |-> base.gen] \in Reader
      BY RecordTypes, BoundsAssumption DEF TypeOK, Reader, Record
    <2> QED
      BY <1>12, <2>1 DEF OpenFile, TypeOK
  <1>13. ASSUME NEW r \in Readers, ReadSlotA(r) PROVE TypeOK'
    <2>1. reader[r] \in Reader /\ reader[r].pages \in Nat
      BY BoundsAssumption DEF TypeOK, Reader
    <2>2. Newest(sb[SlotA], Invalid, reader[r].pages) \in Record
      BY <2>1, RecordTypes DEF TypeOK, Slots
    <2> QED
      BY <1>13, <2>1, <2>2 DEF ReadSlotA, TypeOK, Reader
  <1>14. ASSUME NEW r \in Readers, ReadSlotB(r) PROVE TypeOK'
    <2>1. reader[r] \in Reader /\ reader[r].pages \in Nat
      BY BoundsAssumption DEF TypeOK, Reader
    <2>2. Newest(reader[r].rec, sb[SlotB], reader[r].pages) \in Record
      BY <2>1, RecordTypes DEF TypeOK, Slots, Reader
    <2> QED
      BY <1>14, <2>1, <2>2 DEF ReadSlotB, TypeOK, Reader
  <1>15. ASSUME NEW r \in Readers, CloseFile(r) PROVE TypeOK'
    <2>1. ClosedReader \in Reader
      BY RecordTypes, BoundsAssumption DEF ClosedReader, Reader
    <2> QED
      BY <1>15, <2>1 DEF CloseFile, TypeOK
  <1>16. CASE PowerFailure
    <2>1. PICK a \in sbOnDisk[SlotA], b \in sbOnDisk[SlotB],
               n \in safePages .. filePages, torn \in SUBSET unsynced :
            /\ sb' = [s \in Slots |-> IF s = SlotA THEN a ELSE b]
            /\ sbOnDisk' = [s \in Slots |-> IF s = SlotA THEN {a} ELSE {b}]
            /\ body' = [p \in Body |-> IF p < n /\ p \notin torn THEN body[p]
                                       ELSE TornPage]
            /\ unsynced' = {} /\ filePages' = n /\ safePages' = n
            /\ writer' = ClosedWriter
            /\ reader' = [r \in Readers |-> ClosedReader]
            /\ base' = Newest(a, b, n)
      BY <1>16 DEF PowerFailure
    <2>2. a \in Record /\ b \in Record /\ n \in 4 .. MaxPage + 1
      BY <2>1, BoundsAssumption DEF TypeOK, Slots
    <2>3. base' \in Record
      BY <2>1, <2>2, RecordTypes, BoundsAssumption
    <2>4. ClosedReader \in Reader /\ ClosedWriter \in Writer
      BY RecordTypes, PageTypes, BoundsAssumption DEF ClosedReader, Reader,
         ClosedWriter, Writer
    <2>5. body' \in [Body -> Page]
      BY <2>1, PageTypes DEF TypeOK
    <2> QED
      BY <2>1, <2>2, <2>3, <2>4, <2>5 DEF TypeOK
  <1>17. CASE UNCHANGED vars
    BY <1>17 DEF TypeOK
  <1> QED
    BY <1>1, <1>2, <1>3, <1>4, <1>5, <1>6, <1>7, <1>8, <1>9, <1>10, <1>11,
       <1>12, <1>13, <1>14, <1>15, <1>16, <1>17 DEF Next
-----------------------------------------------------------------------------
(* What each kind of step preserves *)

(* A step that touches neither the file nor base. *)
LEMMA FileUntouched ==
  ASSUME RecordsSound, BaseHeld, FileSound, UNCHANGED <<fileVars, base>>
  PROVE  RecordsSound' /\ BaseHeld' /\ FileSound'
  BY DEF RecordsSound, BaseHeld, FileSound, Sound, StoredIn, fileVars

LEMMA ReadersUntouched ==
  ASSUME ReadersSound, UNCHANGED <<fileVars, reader>>
  PROVE  ReadersSound'
  BY DEF ReadersSound, Readable, StoredIn, fileVars

(* An append changes no page that was there. *)
LEMMA AppendGrows ==
  ASSUME TypeOK, FileSound, NEW c \in Page, AppendPage(c)
  PROVE  /\ FileGrows
         /\ filePages \in Body /\ filePages \in Nat /\ filePages' = filePages + 1
         /\ filePages' \in Nat /\ safePages' = safePages /\ sb' = sb
         /\ body'[filePages] = c
         /\ \A p \in unsynced' : p \in unsynced \/ p >= filePages
  BY BoundsAssumption DEF TypeOK, AppendPage, Body, FileGrows

(* An appended page lies past everything a record names. *)
LEMMA AppendKeeps ==
  ASSUME TypeOK, RecordsSound, BaseHeld, FileSound, ReadersSound,
         NEW c \in Page, AppendPage(c), UNCHANGED <<reader, base>>
  PROVE  RecordsSound' /\ BaseHeld' /\ FileSound' /\ ReadersSound'
  <1>1. /\ FileGrows /\ filePages' = filePages + 1 /\ filePages' \in Nat
        /\ filePages \in Nat /\ safePages' = safePages /\ safePages \in Nat
        /\ \A p \in unsynced' : p \in unsynced \/ p >= filePages
    BY AppendGrows, BoundsAssumption DEF TypeOK
  <1>2. sb' = sb /\ sbOnDisk' = sbOnDisk
    BY DEF AppendPage
  <1>3. RecordsSound'
    <2>1. \A s \in Slots : \A x \in sbOnDisk[s] : x \in Record
      BY DEF TypeOK
    <2> QED
      BY <1>1, <1>2, <2>1, SoundStays DEF RecordsSound
  <1>4. BaseHeld'
    BY <1>2 DEF BaseHeld
  <1>5. FileSound'
    BY BoundsAssumption DEF FileSound, AppendPage, TypeOK, Body
  <1> QED
    BY <1>1, <1>3, <1>4, <1>5, ReadersStay

(* A sync settles every slot on its visible content. *)
LEMMA SyncKeeps ==
  ASSUME TypeOK, RecordsSound, FileSound, ReadersSound, SyncAll, reader' = reader
  PROVE  /\ RecordsSound' /\ FileSound' /\ ReadersSound'
         /\ \A s \in Slots : sbOnDisk'[s] = {sb[s]}
         /\ unsynced' = {} /\ safePages' = filePages'
  <1>1. /\ sb' = sb /\ body' = body /\ filePages' = filePages
        /\ unsynced' = {} /\ safePages' = filePages
        /\ \A s \in Slots : sbOnDisk'[s] = {sb[s]}
    BY DEF SyncAll, FileSound
  <1>2. /\ FileGrows /\ filePages' \in Nat /\ safePages <= safePages'
        /\ safePages' \in Nat
    BY <1>1, BoundsAssumption DEF FileGrows, FileSound, TypeOK
  <1>3. RecordsSound'
    <2>1. \A s \in Slots : sb[s] \in Record /\ sb[s] \in sbOnDisk[s]
      BY DEF TypeOK, RecordsSound
    <2>2. \A x \in Record : Sound(x) => Sound(x)'
      BY <1>1, <1>2, SoundStays
    <2> QED
      BY <1>1, <2>1, <2>2 DEF RecordsSound
  <1>4. FileSound'
    BY <1>1, <1>2 DEF FileSound, TypeOK
  <1> QED
    BY <1>1, <1>2, <1>3, <1>4, ReadersStay

(* What the writer holds stays on its pages while the file grows. *)
LEMMA WriterStays ==
  ASSUME TypeOK, WriterSound, FileGrows, filePages' \in Nat, writer.pc # "closed"
  PROVE  /\ StoredIn(body', writer.doc, filePages')
         /\ StoredIn(body', writer.undo, filePages')
         /\ StoredIn(body', writer.doc, filePages)
  <1>1. writer.doc \in Doc /\ writer.undo \in Doc /\ filePages \in Nat
    BY BoundsAssumption DEF TypeOK, Writer
  <1>2. filePages <= filePages' /\ filePages <= filePages
    BY <1>1 DEF FileGrows
  <1> QED
    BY <1>1, <1>2, StoredStays DEF WriterSound

(* A refused statement restores the writer. *)
LEMMA RefuseKeeps ==
  ASSUME TypeOK, WriterSound, Refuse, writer.pc # "closed",
         UNCHANGED <<sb, body, filePages>>
  PROVE  WriterSound'
  <1>1. PICK d \in {writer.doc, writer.undo} :
          writer' = [writer EXCEPT !.pc = "idle", !.doc = d, !.undo = d, !.newRoot = 0]
    BY DEF Refuse
  <1>2. /\ writer'.pc = "idle" /\ writer'.gen = writer.gen
        /\ writer'.doc = d /\ writer'.undo = d
    BY <1>1 DEF TypeOK, Writer
  <1>3. StoredIn(body', d, filePages')
    BY DEF WriterSound
  <1> QED
    BY <1>2, <1>3 DEF WriterSound

(* Past its first sync the writer aims at the slot base is not in, and the *)
(* record it is about to write is sound.                                   *)
LEMMA TargetIsFree ==
  ASSUME TypeOK, WriterSound, writer.pc \in {"synced", "writing", "written"}
  PROVE  /\ SlotOf(writer.gen) \in Slots /\ Target \in Slots
         /\ Target # SlotOf(writer.gen)
         /\ base.gen = writer.gen /\ writer.gen # 0 /\ writer.gen \in Nat
         /\ base = sb[SlotOf(writer.gen)]
         /\ NewRecord.gen = writer.gen + 1 /\ NewRecord.gen # 0
         /\ SlotOf(NewRecord.gen) = Target
  <1>1. writer.gen \in Nat
    BY BoundsAssumption DEF TypeOK, Writer
  <1> QED
    BY <1>1, SlotsAlternate DEF Target, NewRecord, WriterSound

LEMMA NewRecordIsSound ==
  ASSUME TypeOK, FileSound, WriterSound, writer.pc \in {"synced", "writing", "written"}
  PROVE  Sound(NewRecord)
  <1>1. body[writer.newRoot].kind = "catalog" /\ body[writer.newRoot].doc = writer.doc
    BY DEF WriterSound, CatalogPage
  <1>2. safePages = filePages /\ unsynced = {} /\ filePages \in Nat
    BY BoundsAssumption DEF WriterSound, TypeOK
  <1> QED
    BY <1>1, <1>2 DEF NewRecord, Sound, WriterSound
-----------------------------------------------------------------------------
(* The steps of the writer *)

LEMMA WriteDocumentKeeps ==
  ASSUME IInv, NEW v \in Values, WriteDocument(v)
  PROVE  RecordsSound' /\ BaseHeld' /\ FileSound' /\ WriterSound' /\ ReadersSound'
  <1>1. /\ TypeOK /\ FileSound /\ WriterSound /\ AppendPage(DataPage(v))
        /\ DataPage(v) \in Page /\ writer.pc = "idle"
    BY PageTypes DEF IInv, WriteDocument
  <1>2. RecordsSound' /\ BaseHeld' /\ FileSound' /\ ReadersSound'
    BY <1>1, AppendKeeps DEF IInv, WriteDocument
  <1>3. /\ FileGrows /\ filePages' = filePages + 1 /\ filePages' \in Nat
        /\ filePages \in Body /\ filePages \in Nat
        /\ body'[filePages] = DataPage(v) /\ sb' = sb
    BY <1>1, AppendGrows
  <1>4. /\ writer'.pc = "idle" /\ writer'.gen = writer.gen
        /\ writer'.doc = [page |-> filePages, val |-> v]
        /\ writer'.undo = writer.undo
    BY <1>1 DEF WriteDocument, TypeOK, Writer
  <1>5. StoredIn(body', writer'.doc, filePages')
    BY <1>3, <1>4 DEF StoredIn
  <1>6. StoredIn(body', writer'.undo, filePages')
    BY <1>1, <1>3, <1>4, WriterStays
  <1>7. WriterSound'
    BY <1>1, <1>3, <1>4, <1>5, <1>6 DEF WriterSound
  <1> QED
    BY <1>2, <1>7

LEMMA AppendCatalogKeeps ==
  ASSUME IInv, AppendCatalog
  PROVE  RecordsSound' /\ BaseHeld' /\ FileSound' /\ WriterSound' /\ ReadersSound'
  <1>1. /\ TypeOK /\ FileSound /\ WriterSound
        /\ AppendPage(CatalogPage(writer.doc))
        /\ CatalogPage(writer.doc) \in Page /\ writer.pc = "idle"
    BY PageTypes DEF IInv, AppendCatalog, TypeOK, Writer
  <1>2. RecordsSound' /\ BaseHeld' /\ FileSound' /\ ReadersSound'
    BY <1>1, AppendKeeps DEF IInv, AppendCatalog
  <1>3. /\ FileGrows /\ filePages' = filePages + 1 /\ filePages' \in Nat
        /\ filePages \in Body /\ filePages \in Nat
        /\ body'[filePages] = CatalogPage(writer.doc) /\ sb' = sb
    BY <1>1, AppendGrows
  <1>4. /\ writer'.pc = "appended" /\ writer'.gen = writer.gen
        /\ writer'.doc = writer.doc /\ writer'.undo = writer.undo
        /\ writer'.newRoot = filePages
    BY <1>1 DEF AppendCatalog, TypeOK, Writer
  <1>5. /\ StoredIn(body', writer'.doc, filePages')
        /\ StoredIn(body', writer'.undo, filePages')
        /\ StoredIn(body', writer'.doc, writer'.newRoot)
    BY <1>1, <1>3, <1>4, WriterStays
  <1>6. filePages < filePages'
    BY <1>3
  <1>7. WriterSound'
    BY <1>1, <1>3, <1>4, <1>5, <1>6 DEF WriterSound
  <1> QED
    BY <1>2, <1>7

(* The first sync commits the store to what its writer found. *)
LEMMA SyncCatalogKeeps ==
  ASSUME IInv, SyncCatalog
  PROVE  RecordsSound' /\ BaseHeld' /\ FileSound' /\ WriterSound' /\ ReadersSound'
  <1>1. /\ TypeOK /\ RecordsSound /\ FileSound /\ WriterSound /\ ReadersSound
        /\ SyncAll /\ writer.pc = "appended"
        /\ sb' = sb /\ body' = body /\ filePages' = filePages
    BY DEF IInv, FileSound, SyncCatalog, SyncAll
  <1>2. /\ RecordsSound' /\ FileSound' /\ ReadersSound'
        /\ \A s \in Slots : sbOnDisk'[s] = {sb[s]}
        /\ unsynced' = {} /\ safePages' = filePages'
    BY <1>1, SyncKeeps DEF SyncCatalog
  <1>3. /\ SlotOf(writer.gen) \in Slots /\ base' = sb[SlotOf(writer.gen)]
        /\ base'.gen = writer.gen /\ writer.gen # 0
    BY <1>1, SlotsAlternate, BoundsAssumption
    DEF SyncCatalog, WriterSound, TypeOK, Writer
  <1>4. BaseHeld'
    BY <1>2, <1>3 DEF BaseHeld
  <1>5. /\ writer'.pc = "synced" /\ writer'.gen = writer.gen
        /\ writer'.doc = writer.doc /\ writer'.undo = writer.undo
        /\ writer'.newRoot = writer.newRoot
    BY DEF SyncCatalog, IInv, TypeOK, Writer
  <1>6. WriterSound'
    BY <1>1, <1>2, <1>3, <1>5 DEF WriterSound
  <1> QED
    BY <1>2, <1>4, <1>6

LEMMA FailuresKeep ==
  ASSUME IInv, WriteFails \/ SyncFails \/ RecordWriteFails
  PROVE  RecordsSound' /\ BaseHeld' /\ FileSound' /\ WriterSound' /\ ReadersSound'
  <1>1. Refuse /\ UNCHANGED <<fileVars, reader, base>> /\ writer.pc # "closed"
    BY DEF WriteFails, SyncFails, RecordWriteFails, SyncError, Refuse, fileVars
  <1>2. RecordsSound' /\ BaseHeld' /\ FileSound' /\ ReadersSound'
    BY <1>1, FileUntouched, ReadersUntouched DEF IInv
  <1>3. WriterSound'
    BY <1>1, RefuseKeeps DEF IInv, fileVars
  <1> QED
    BY <1>2, <1>3

LEMMA BeginRecordKeeps ==
  ASSUME IInv, BeginRecord
  PROVE  RecordsSound' /\ BaseHeld' /\ FileSound' /\ WriterSound' /\ ReadersSound'
  <1>1. /\ TypeOK /\ RecordsSound /\ BaseHeld /\ FileSound /\ WriterSound
        /\ ReadersSound /\ writer.pc = "synced" /\ writer.gen < MaxGen
        /\ sb' = [sb EXCEPT ![Target] = Invalid]
        /\ sbOnDisk' = [sbOnDisk EXCEPT ![Target] = @ \cup {Invalid, NewRecord}]
        /\ UNCHANGED <<body, unsynced, filePages, safePages, reader, base>>
    BY DEF IInv, BeginRecord
  <1>2. /\ SlotOf(writer.gen) \in Slots /\ Target \in Slots
        /\ Target # SlotOf(writer.gen) /\ base.gen = writer.gen
        /\ NewRecord.gen # 0 /\ SlotOf(NewRecord.gen) = Target
        /\ Sound(NewRecord)
    BY <1>1, TargetIsFree, NewRecordIsSound
  <1>3. /\ sb'[Target] = Invalid
        /\ sbOnDisk'[Target] = sbOnDisk[Target] \cup {Invalid, NewRecord}
        /\ \A s \in Slots : s # Target => sb'[s] = sb[s] /\ sbOnDisk'[s] = sbOnDisk[s]
    BY <1>1, <1>2 DEF TypeOK
  <1>4. \A x : Sound(x)' <=> Sound(x)
    BY <1>1 DEF Sound, StoredIn
  <1>5. RecordsSound'
    BY <1>1, <1>2, <1>3, <1>4 DEF RecordsSound
  <1>6. BaseHeld'
    BY <1>1, <1>2, <1>3 DEF BaseHeld
  <1>7. FileSound'
    BY <1>1 DEF FileSound
  <1>8. /\ writer'.pc = "writing" /\ writer'.gen = writer.gen
        /\ writer'.doc = writer.doc /\ writer'.undo = writer.undo
        /\ writer'.newRoot = writer.newRoot
    BY <1>1 DEF BeginRecord, TypeOK, Writer
  <1>9. NewRecord' = NewRecord /\ Target' = Target
    BY <1>1, <1>8 DEF NewRecord, Target
  <1>10. WriterSound'
    BY <1>1, <1>2, <1>3, <1>8, <1>9 DEF WriterSound
  <1>11. ReadersSound'
    BY <1>1 DEF ReadersSound, Readable, StoredIn
  <1> QED
    BY <1>5, <1>6, <1>7, <1>10, <1>11

LEMMA EndRecordKeeps ==
  ASSUME IInv, EndRecord
  PROVE  RecordsSound' /\ BaseHeld' /\ FileSound' /\ WriterSound' /\ ReadersSound'
  <1>1. /\ TypeOK /\ RecordsSound /\ BaseHeld /\ FileSound /\ WriterSound
        /\ ReadersSound /\ writer.pc = "writing"
        /\ sb' = [sb EXCEPT ![Target] = NewRecord]
        /\ UNCHANGED <<sbOnDisk, body, unsynced, filePages, safePages, reader, base>>
    BY DEF IInv, EndRecord
  <1>2. /\ SlotOf(writer.gen) \in Slots /\ Target \in Slots
        /\ Target # SlotOf(writer.gen) /\ NewRecord \in sbOnDisk[Target]
    BY <1>1, TargetIsFree DEF WriterSound
  <1>3. /\ sb'[Target] = NewRecord
        /\ \A s \in Slots : s # Target => sb'[s] = sb[s]
    BY <1>1, <1>2 DEF TypeOK
  <1>4. \A x : Sound(x)' <=> Sound(x)
    BY <1>1 DEF Sound, StoredIn
  <1>5. RecordsSound'
    BY <1>1, <1>2, <1>3, <1>4 DEF RecordsSound
  <1>6. BaseHeld' /\ FileSound'
    BY <1>1 DEF BaseHeld, FileSound
  <1>7. /\ writer'.pc = "written" /\ writer'.gen = writer.gen
        /\ writer'.doc = writer.doc /\ writer'.undo = writer.undo
        /\ writer'.newRoot = writer.newRoot
    BY <1>1 DEF EndRecord, TypeOK, Writer
  <1>8. NewRecord' = NewRecord /\ Target' = Target
    BY <1>1, <1>7 DEF NewRecord, Target
  <1>9. WriterSound'
    BY <1>1, <1>2, <1>3, <1>7, <1>8 DEF WriterSound
  <1>10. ReadersSound'
    BY <1>1 DEF ReadersSound, Readable, StoredIn
  <1> QED
    BY <1>5, <1>6, <1>9, <1>10

LEMMA SyncRecordKeeps ==
  ASSUME IInv, SyncRecord
  PROVE  RecordsSound' /\ BaseHeld' /\ FileSound' /\ WriterSound' /\ ReadersSound'
  <1>1. /\ TypeOK /\ RecordsSound /\ FileSound /\ WriterSound /\ ReadersSound
        /\ SyncAll /\ writer.pc = "written" /\ base' = NewRecord
        /\ sb' = sb /\ body' = body /\ filePages' = filePages
    BY DEF IInv, SyncRecord, SyncAll
  <1>2. /\ RecordsSound' /\ FileSound' /\ ReadersSound'
        /\ \A s \in Slots : sbOnDisk'[s] = {sb[s]}
    BY <1>1, SyncKeeps DEF SyncRecord
  <1>3. /\ Target \in Slots /\ sb[Target] = NewRecord
        /\ NewRecord.gen = writer.gen + 1 /\ NewRecord.gen # 0
        /\ SlotOf(NewRecord.gen) = Target
    BY <1>1, TargetIsFree DEF WriterSound
  <1>4. BaseHeld'
    BY <1>1, <1>2, <1>3 DEF BaseHeld
  <1>5. /\ writer'.pc = "idle" /\ writer'.gen = writer.gen + 1
        /\ writer'.doc = writer.doc /\ writer'.undo = writer.doc
    BY DEF SyncRecord, IInv, TypeOK, Writer
  <1>6. WriterSound'
    BY <1>1, <1>3, <1>5 DEF WriterSound
  <1> QED
    BY <1>2, <1>4, <1>6
-----------------------------------------------------------------------------
(* The steps that open, close and crash *)

LEMMA ProcessEndsKeeps ==
  ASSUME IInv, ProcessEnds
  PROVE  RecordsSound' /\ BaseHeld' /\ FileSound' /\ WriterSound' /\ ReadersSound'
  <1>1. UNCHANGED <<fileVars, reader, base>> /\ writer'.pc = "closed"
    BY DEF ProcessEnds, ClosedWriter
  <1>2. RecordsSound' /\ BaseHeld' /\ FileSound' /\ ReadersSound'
    BY <1>1, FileUntouched, ReadersUntouched DEF IInv
  <1>3. WriterSound'
    BY <1>1 DEF WriterSound
  <1> QED
    BY <1>2, <1>3

(* An accepted record that is visible in a slot is readable there. *)
LEMMA VisibleIsSound ==
  ASSUME TypeOK, RecordsSound, FileSound, NEW s \in Slots, sb[s].gen # 0
  PROVE  /\ sb[s] \in Record /\ SlotOf(sb[s].gen) = s /\ Sound(sb[s])
         /\ Readable(sb[s].root)
  <1>1. sb[s] \in Record /\ sb[s] \in sbOnDisk[s] /\ sb[s] # Invalid
    BY DEF TypeOK, RecordsSound, Invalid
  <1>2. SlotOf(sb[s].gen) = s /\ Sound(sb[s])
    BY <1>1 DEF RecordsSound
  <1> QED
    BY <1>1, <1>2, SoundIsReadable

LEMMA OpenKeeps ==
  ASSUME IInv, Open
  PROVE  RecordsSound' /\ BaseHeld' /\ FileSound' /\ WriterSound' /\ ReadersSound'
  <1> DEFINE x == Newest(sb[SlotA], sb[SlotB], filePages)
  <1>1. UNCHANGED <<fileVars, reader, base>>
    BY DEF Open
  <1>2. RecordsSound' /\ BaseHeld' /\ FileSound' /\ ReadersSound'
    BY <1>1, FileUntouched, ReadersUntouched DEF IInv
  <1>3. /\ Accepted(x, filePages) /\ Readable(x.root)
        /\ writer' = [pc |-> "idle", gen |-> x.gen, doc |-> body[x.root].doc,
                      undo |-> body[x.root].doc, newRoot |-> 0]
    BY DEF Open
  <1>4. \E s \in Slots : x = sb[s] /\ x.gen # 0
    BY <1>3 DEF Newest, Accepted, Invalid, Slots
  <1>5. x.gen # 0 /\ sb[SlotOf(x.gen)].gen = x.gen
    BY <1>4, VisibleIsSound DEF IInv
  <1>6. StoredIn(body, body[x.root].doc, filePages)
    BY <1>3 DEF Readable
  <1> HIDE DEF x
  <1>7. /\ writer'.pc = "idle" /\ writer'.gen = x.gen
        /\ writer'.doc = body[x.root].doc /\ writer'.undo = body[x.root].doc
    BY <1>3
  <1>8. WriterSound'
    BY <1>1, <1>5, <1>6, <1>7 DEF WriterSound, fileVars
  <1> QED
    BY <1>2, <1>8

(* What the two reads of superblocks find is a catalog below the length    *)
(* that the reader measured.                                               *)
LEMMA CandidateIsWhole ==
  ASSUME IInv, NEW s \in Slots, NEW n \in Nat, Accepted(sb[s], n)
  PROVE  /\ sb[s].root \in Body /\ sb[s].root < n /\ Readable(sb[s].root)
  <1>1. sb[s].gen # 0 /\ sb[s].root < sb[s].pages /\ sb[s].pages <= n
    BY DEF Accepted
  <1>2. sb[s] \in Record /\ Sound(sb[s]) /\ Readable(sb[s].root)
    BY <1>1, VisibleIsSound DEF IInv
  <1> QED
    BY <1>1, <1>2, BoundsAssumption DEF Sound, Record

LEMMA ReaderStepKeeps ==
  ASSUME IInv, NEW r \in Readers,
         OpenFile(r) \/ ReadSlotA(r) \/ ReadSlotB(r) \/ CloseFile(r)
  PROVE  RecordsSound' /\ BaseHeld' /\ FileSound' /\ WriterSound' /\ ReadersSound'
  <1>1. UNCHANGED <<fileVars, writer, base>>
    BY DEF OpenFile, ReadSlotA, ReadSlotB, CloseFile
  <1>2. RecordsSound' /\ BaseHeld' /\ FileSound'
    BY <1>1, FileUntouched DEF IInv
  <1>3. WriterSound'
    BY <1>1 DEF IInv, WriterSound, StoredIn, NewRecord, Target, fileVars
  <1> DEFINE Whole(y, n) == y.root \in Body /\ y.root < n /\ Readable(y.root)
  <1>4. /\ \A q \in Readers \ {r} : reader'[q] = reader[q]
        /\ reader[r] \in Reader /\ reader[r].pages \in Nat
        /\ filePages \in Nat /\ reader[r].pages <= filePages
    BY BoundsAssumption
    DEF IInv, TypeOK, Reader, ReadersSound, OpenFile, ReadSlotA, ReadSlotB, CloseFile
  <1>5. /\ reader'[r].pages <= filePages
        /\ reader'[r].pc \in {"readB", "open"} =>
             \/ reader'[r].rec = Invalid /\ reader'[r].pc = "readB"
             \/ Whole(reader'[r].rec, reader'[r].pages)
    <2>1. CASE OpenFile(r)
      <3>1. reader'[r].pc = "readA" /\ reader'[r].pages = filePages
        BY <2>1 DEF OpenFile, IInv, TypeOK
      <3> QED
        BY <3>1, <1>4
    <2>2. CASE ReadSlotA(r)
      <3>1. /\ reader'[r].pc = "readB" /\ reader'[r].pages = reader[r].pages
            /\ reader'[r].rec = Newest(sb[SlotA], Invalid, reader[r].pages)
        BY <2>2 DEF ReadSlotA, IInv, TypeOK, Reader
      <3>2. \/ reader'[r].rec = Invalid
            \/ reader'[r].rec = sb[SlotA] /\ Accepted(sb[SlotA], reader[r].pages)
        BY <3>1 DEF Newest, Accepted, Invalid
      <3> QED
        BY <3>1, <3>2, <1>4, CandidateIsWhole DEF Slots
    <2>3. CASE ReadSlotB(r)
      <3> DEFINE x == Newest(reader[r].rec, sb[SlotB], reader[r].pages)
      <3>1. /\ reader'[r].pages = reader[r].pages /\ reader'[r].rec = x
            /\ reader'[r].pc = "open" => Accepted(x, reader[r].pages)
            /\ reader'[r].pc \in {"open", "failed"} /\ reader[r].pc = "readB"
        BY <2>3 DEF ReadSlotB, IInv, TypeOK, Reader
      <3>2. Accepted(x, reader[r].pages) =>
              \/ x = sb[SlotB] /\ Accepted(sb[SlotB], reader[r].pages)
              \/ x = reader[r].rec /\ reader[r].rec # Invalid
        BY DEF Newest, Accepted, Invalid
      <3>3. reader[r].rec # Invalid => Whole(reader[r].rec, reader[r].pages)
        BY <3>1 DEF IInv, ReadersSound
      <3> HIDE DEF x
      <3> QED
        BY <3>1, <3>2, <3>3, <1>4, CandidateIsWhole DEF Slots
    <2>4. CASE CloseFile(r)
      <3>1. reader'[r] = ClosedReader
        BY <2>4 DEF CloseFile, IInv, TypeOK
      <3> QED
        BY <3>1, <1>4 DEF ClosedReader
    <2> QED
      BY <2>1, <2>2, <2>3, <2>4
  <1>6. \A p \in Body : Readable(p) => Readable(p)'
    BY <1>1 DEF Readable, StoredIn, fileVars
  <1>7. filePages' = filePages
    BY <1>1 DEF fileVars
  <1>8. ASSUME NEW q \in Readers
        PROVE  /\ reader'[q].pages <= filePages
               /\ reader'[q].pc \in {"readB", "open"} =>
                    \/ reader'[q].rec = Invalid /\ reader'[q].pc = "readB"
                    \/ Whole(reader'[q].rec, reader'[q].pages)
    BY <1>4, <1>5 DEF IInv, ReadersSound
  <1>9. ReadersSound'
    BY <1>6, <1>7, <1>8 DEF ReadersSound
  <1> QED
    BY <1>2, <1>3, <1>9
-----------------------------------------------------------------------------
(* Power failure *)

(* base is acceptable in the shortest file a power failure may leave. *)
LEMMA BaseIsAccepted ==
  ASSUME TypeOK, RecordsSound, BaseHeld, NEW n \in Nat, safePages <= n
  PROVE  /\ SlotOf(base.gen) \in Slots /\ base \in Record /\ Sound(base)
         /\ Accepted(base, n)
  <1>1. SlotOf(base.gen) \in Slots /\ base \in Record /\ base # Invalid
    BY SlotsAlternate, BoundsAssumption DEF TypeOK, Record, BaseHeld, Invalid
  <1>2. Sound(base) /\ base.gen # 0
    BY <1>1 DEF RecordsSound, BaseHeld
  <1>3. Accepted(base, n)
    BY <1>1, <1>2, BoundsAssumption DEF Sound, Accepted, TypeOK, Record, Body
  <1> QED
    BY <1>1, <1>2, <1>3

(* Whatever the slots and the length are after a power failure, the store  *)
(* opens on base or on something newer.                                    *)
LEMMA RecoveredIsSound ==
  ASSUME TypeOK, RecordsSound, BaseHeld,
         NEW a \in sbOnDisk[SlotA], NEW b \in sbOnDisk[SlotB],
         NEW n \in safePages .. filePages
  PROVE  LET x == Newest(a, b, n)
         IN /\ x \in Record /\ x \in {a, b} /\ x.gen # 0 /\ Sound(x)
            /\ x = a => SlotOf(x.gen) = SlotA
            /\ x = b => SlotOf(x.gen) = SlotB
            /\ x = base \/ x.gen > base.gen
  <1> DEFINE x == Newest(a, b, n)
  <1>1. /\ a \in Record /\ b \in Record /\ n \in Nat /\ safePages <= n
        /\ SlotA \in Slots /\ SlotB \in Slots /\ SlotA # SlotB
        /\ Slots = {SlotA, SlotB}
    BY BoundsAssumption DEF TypeOK, Slots, SlotA, SlotB
  <1>2. SlotOf(base.gen) \in Slots /\ base \in Record /\ Accepted(base, n)
    BY <1>1, BaseIsAccepted
  <1>3. base \in {a, b}
    BY <1>1, <1>2 DEF BaseHeld
  <1>4. x \in {a, b} /\ Accepted(x, n) /\ x.gen >= base.gen
    BY <1>1, <1>2, <1>3, NewestIsSound
  <1> HIDE DEF x
  <1>5. x.gen # 0 /\ x # Invalid /\ x \in Record
    BY <1>1, <1>4 DEF Accepted, Invalid
  <1>6. x = a => SlotOf(x.gen) = SlotA /\ Sound(x)
    BY <1>1, <1>5 DEF RecordsSound
  <1>7. x = b => SlotOf(x.gen) = SlotB /\ Sound(x)
    BY <1>1, <1>5 DEF RecordsSound
  <1>8. x.gen \in Nat /\ base.gen \in Nat
    BY <1>2, <1>5, BoundsAssumption DEF Record
  <1>9. x.gen = base.gen => x = base
    BY <1>1, <1>2, <1>3, <1>4, <1>6, <1>7 DEF BaseHeld
  <1> QED
    BY <1>4, <1>5, <1>6, <1>7, <1>8, <1>9 DEF x

(* Whatever is left of the file, a sound record is found in it. *)
LEMMA PowerFailureKeeps ==
  ASSUME IInv, PowerFailure
  PROVE  RecordsSound' /\ BaseHeld' /\ FileSound' /\ WriterSound' /\ ReadersSound'
  <1>1. PICK a \in sbOnDisk[SlotA], b \in sbOnDisk[SlotB],
             n \in safePages .. filePages, torn \in SUBSET unsynced :
          /\ sb' = [s \in Slots |-> IF s = SlotA THEN a ELSE b]
          /\ sbOnDisk' = [s \in Slots |-> IF s = SlotA THEN {a} ELSE {b}]
          /\ body' = [p \in Body |-> IF p < n /\ p \notin torn THEN body[p]
                                     ELSE TornPage]
          /\ unsynced' = {} /\ filePages' = n /\ safePages' = n
          /\ writer' = ClosedWriter
          /\ reader' = [r \in Readers |-> ClosedReader]
          /\ base' = Newest(a, b, n)
    BY DEF PowerFailure
  <1>2. /\ TypeOK /\ RecordsSound /\ BaseHeld /\ n \in Nat /\ safePages \in Nat
        /\ safePages <= n /\ a \in Record /\ b \in Record
        /\ SlotA \in Slots /\ SlotB \in Slots /\ SlotA # SlotB
        /\ Slots = {SlotA, SlotB}
    BY BoundsAssumption DEF IInv, TypeOK, Slots, SlotA, SlotB
  <1>3. /\ base' \in {a, b} /\ base'.gen # 0
        /\ base' = a => SlotOf(base'.gen) = SlotA
        /\ base' = b => SlotOf(base'.gen) = SlotB
    BY <1>1, <1>2, RecoveredIsSound
  <1>4. /\ sb'[SlotA] = a /\ sb'[SlotB] = b
        /\ sbOnDisk'[SlotA] = {a} /\ sbOnDisk'[SlotB] = {b}
    BY <1>1, <1>2
  <1>5. BaseHeld'
    BY <1>3, <1>4 DEF BaseHeld
  <1>6. ASSUME NEW x \in Record, Sound(x) PROVE Sound(x)'
    <2>1. /\ x.root \in Body /\ x.root \in Nat /\ x.root < n /\ x.pages <= n
          /\ x.root \notin torn
      BY <1>2, <1>6, BoundsAssumption DEF Sound, Record, Body
    <2>2. body'[x.root] = body[x.root] /\ body[x.root].doc \in Doc
      BY <1>1, <1>2, <2>1 DEF TypeOK, Page
    <2>3. ASSUME body[x.root].doc.page # NoDoc
          PROVE  /\ body[x.root].doc.page < x.root
                 /\ body'[body[x.root].doc.page] = DataPage(body[x.root].doc.val)
      <3> DEFINE p == body[x.root].doc.page
      <3>1. /\ p \in Body /\ p < x.root /\ p \notin torn
            /\ body[p] = DataPage(body[x.root].doc.val)
        BY <2>2, <2>3, <1>6 DEF Doc, Sound, StoredIn
      <3>2. p < n
        BY <2>1, <3>1, <1>2, BoundsAssumption DEF Body
      <3> QED
        BY <1>1, <3>1, <3>2
    <2>4. StoredIn(body', body[x.root].doc, x.root)
      BY <2>3 DEF StoredIn
    <2> QED
      BY <1>1, <2>1, <2>2, <2>4, <1>6 DEF Sound
  <1>7. RecordsSound'
    BY <1>2, <1>4, <1>6 DEF RecordsSound
  <1>8. FileSound' /\ WriterSound' /\ ReadersSound'
    BY <1>1, <1>2 DEF FileSound, WriterSound, ReadersSound, ClosedWriter, ClosedReader
  <1> QED
    BY <1>5, <1>7, <1>8
-----------------------------------------------------------------------------
(* The theorems *)

(* Every step, of the writer, of a reader or of a failing machine, keeps   *)
(* the invariant.                                                          *)
LEMMA NextIInv == IInv /\ [Next]_vars => IInv'
  <1> SUFFICES ASSUME IInv, [Next]_vars
               PROVE  RecordsSound' /\ BaseHeld' /\ FileSound' /\ WriterSound'
                      /\ ReadersSound'
    BY NextTypeOK DEF IInv
  <1>1. CASE \E v \in Values : WriteDocument(v)
    BY <1>1, WriteDocumentKeeps
  <1>2. CASE AppendCatalog
    BY <1>2, AppendCatalogKeeps
  <1>3. CASE WriteFails \/ SyncFails \/ RecordWriteFails
    BY <1>3, FailuresKeep
  <1>4. CASE SyncCatalog
    BY <1>4, SyncCatalogKeeps
  <1>5. CASE BeginRecord
    BY <1>5, BeginRecordKeeps
  <1>6. CASE EndRecord
    BY <1>6, EndRecordKeeps
  <1>7. CASE SyncRecord
    BY <1>7, SyncRecordKeeps
  <1>8. CASE ProcessEnds
    BY <1>8, ProcessEndsKeeps
  <1>9. CASE Open
    BY <1>9, OpenKeeps
  <1>10. CASE \E r \in Readers :
                OpenFile(r) \/ ReadSlotA(r) \/ ReadSlotB(r) \/ CloseFile(r)
    BY <1>10, ReaderStepKeeps
  <1>11. CASE PowerFailure
    BY <1>11, PowerFailureKeeps
  <1>12. CASE UNCHANGED vars
    <2>1. RecordsSound' /\ BaseHeld' /\ FileSound' /\ ReadersSound'
      BY <1>12, FileUntouched, ReadersUntouched DEF IInv, vars
    <2>2. WriterSound'
      BY <1>12 DEF IInv, WriterSound, StoredIn, NewRecord, Target, vars, fileVars
    <2> QED
      BY <2>1, <2>2
  <1> QED
    BY <1>1, <1>2, <1>3, <1>4, <1>5, <1>6, <1>7, <1>8, <1>9, <1>10, <1>11,
       <1>12 DEF Next

(* The inductive invariant of the page file holds in every execution,      *)
(* whatever the sizes and however the steps, crashes and readers interleave.*)
THEOREM Invariance == Spec => []IInv
  <1>1. Init => IInv
    BY InitIInv
  <1>2. IInv /\ [Next]_vars => IInv'
    BY NextIInv
  <1> QED
    BY <1>1, <1>2, PTL DEF Spec

(* Every variable keeps to its range: no page id, generation or length     *)
(* passes its limit, because append_page and the flush check it.           *)
THEOREM TypeCorrect == Spec => []TypeOK
  <1>1. IInv => TypeOK
    BY DEF IInv
  <1> QED
    BY <1>1, Invariance, PTL

(* A power failure at any moment leaves a store that opens with all pages  *)
(* of its catalog, at the last reported commit or a later one.             *)
THEOREM CommitsAreDurable == Spec => []Durable
  <1>1. IInv => Durable
    <2> SUFFICES ASSUME IInv, NEW a \in sbOnDisk[SlotA], NEW b \in sbOnDisk[SlotB],
                        NEW n \in safePages .. filePages
                 PROVE  /\ Accepted(Newest(a, b, n), safePages)
                        /\ Intact(Newest(a, b, n))
                        /\ \/ Newest(a, b, n) = base
                           \/ Newest(a, b, n).gen > base.gen
      BY DEF Durable, Outcomes
    <2> DEFINE x == Newest(a, b, n)
    <2>1. /\ x \in Record /\ x.gen # 0 /\ Sound(x)
          /\ x = base \/ x.gen > base.gen
      BY RecoveredIsSound DEF IInv
    <2> HIDE DEF x
    <2>2. Intact(x)
      BY <2>1, SoundIsReadable DEF IInv
    <2>3. Accepted(x, safePages)
      BY <2>1, BoundsAssumption DEF Sound, Accepted, Record, Body
    <2> QED
      BY <2>1, <2>2, <2>3 DEF x
  <1> QED
    BY <1>1, Invariance, PTL

(* So does the end of the writing process alone. *)
THEOREM CommitsAreVisible == Spec => []VisibleCommitted
  <1>1. IInv => VisibleCommitted
    <2> SUFFICES ASSUME IInv PROVE VisibleCommitted
      OBVIOUS
    <2> DEFINE x == Newest(sb[SlotA], sb[SlotB], filePages)
    <2>1. /\ sb[SlotA] \in sbOnDisk[SlotA] /\ sb[SlotB] \in sbOnDisk[SlotB]
          /\ filePages \in safePages .. filePages
      BY BoundsAssumption DEF IInv, RecordsSound, Slots, FileSound, TypeOK
    <2>2. x \in Record /\ Sound(x) /\ (x = base \/ x.gen > base.gen)
      BY <2>1, RecoveredIsSound DEF IInv
    <2>3. Readable(x.root)
      BY <2>2, SoundIsReadable DEF IInv
    <2> QED
      BY <2>2, <2>3 DEF VisibleCommitted
  <1> QED
    BY <1>1, Invariance, PTL

(* "An on-disk commit record never points at catalog pages which have not  *)
(* reached stable media" (flush_catalog).                                  *)
THEOREM RecordsAreStable == Spec => []RecordsNameStablePages
  <1>1. IInv => RecordsNameStablePages
    <2> SUFFICES ASSUME IInv, NEW s \in Slots, NEW x \in sbOnDisk[s] \cup {sb[s]},
                        x.gen # 0
                 PROVE  /\ x.pages <= safePages /\ x.root \notin unsynced
                        /\ body[x.root].kind = "catalog"
      BY DEF RecordsNameStablePages
    <2>1. x \in sbOnDisk[s] /\ x # Invalid
      BY DEF IInv, RecordsSound, Invalid
    <2> QED
      BY <2>1 DEF IInv, RecordsSound, Sound
  <1> QED
    BY <1>1, Invariance, PTL

(* The catalog of a reader without a lock stays whole while the writer     *)
(* commits, fails and crashes.                                             *)
THEOREM SnapshotsAreIntact == Spec => []SnapshotIntact
  <1>1. IInv => SnapshotIntact
    BY DEF IInv, ReadersSound, SnapshotIntact
  <1> QED
    BY <1>1, Invariance, PTL

-----------------------------------------------------------------------------
(* What a power failure may leave, and the register it implements.         *)
(*                                                                         *)
(* Only the slot that base is not in can be in doubt, and what it may hold *)
(* is a neighbour of base (GensNear): so the outcomes are base, unless     *)
(* that slot may hold its successor.                                       *)

(* The slot that base is not in. *)
Spare == SlotOf(base.gen + 1)

(* What opening chooses when that slot holds x. *)
Pick(x) == IF x.gen > base.gen THEN x ELSE base

(* No slot may hold a record more than one generation away from base. *)
GensNear ==
  \A s \in Slots : \A x \in sbOnDisk[s] :
    x = Invalid \/ (x.gen + 1 >= base.gen /\ x.gen <= base.gen + 1)

(* A writer works on base, or on a successor that it found and has not     *)
(* synced.                                                                 *)
WriterNear == writer.pc # "closed" => writer.gen \in {base.gen, base.gen + 1}

LEMMA SlotsAre ==
  ASSUME IInv
  PROVE  /\ base \in Record /\ base.gen \in Nat /\ base.gen # 0
         /\ base = Pick(base) /\ base # Invalid
         /\ Spare \in Slots /\ SlotOf(base.gen) \in Slots /\ Spare # SlotOf(base.gen)
         /\ Slots = {Spare, SlotOf(base.gen)}
         /\ \A s \in Slots : sbOnDisk[s] \subseteq Record /\ sb[s] \in sbOnDisk[s]
         /\ sb[SlotOf(base.gen)] = base /\ sbOnDisk[SlotOf(base.gen)] = {base}
  <1>1. base \in Record /\ base.gen \in Nat /\ base.gen # 0
    BY BoundsAssumption DEF IInv, TypeOK, BaseHeld, Record
  <1>2. /\ Spare \in Slots /\ SlotOf(base.gen) \in Slots /\ Spare # SlotOf(base.gen)
        /\ Slots = {Spare, SlotOf(base.gen)}
    BY <1>1 DEF Spare, SlotOf, Slots, SlotA, SlotB
  <1>3. \A s \in Slots : sbOnDisk[s] \subseteq Record /\ sb[s] \in sbOnDisk[s]
    BY DEF IInv, TypeOK, RecordsSound
  <1>4. sbOnDisk[SlotOf(base.gen)] = {base}
    BY DEF IInv, BaseHeld
  <1> QED
    BY <1>1, <1>2, <1>3, <1>4 DEF Pick, Invalid

(* Everything a slot may hold can be opened, or is unreadable. *)
LEMMA OnDiskAccepted ==
  ASSUME IInv, NEW s \in Slots, NEW x \in sbOnDisk[s], x # Invalid,
         NEW n \in Nat, safePages <= n
  PROVE  Accepted(x, n) /\ x.gen \in Nat /\ x.gen # 0 /\ SlotOf(x.gen) = s
  <1>1. x \in Record /\ x.gen # 0 /\ SlotOf(x.gen) = s /\ Sound(x)
    BY DEF IInv, TypeOK, RecordsSound
  <1> QED
    BY <1>1, BoundsAssumption DEF IInv, TypeOK, Sound, Accepted, Record, Body

LEMMA PickIsNewest ==
  ASSUME IInv, NEW x \in sbOnDisk[Spare], NEW n \in Nat, safePages <= n
  PROVE  Newest(base, x, n) = Pick(x) /\ Newest(x, base, n) = Pick(x)
  <1>1. /\ base.gen \in Nat /\ base.gen # 0 /\ base # Invalid
        /\ Spare \in Slots /\ SlotOf(base.gen) \in Slots /\ Spare # SlotOf(base.gen)
        /\ base \in sbOnDisk[SlotOf(base.gen)]
    BY SlotsAre
  <1>2. Accepted(base, n)
    BY <1>1, OnDiskAccepted
  <1>3. CASE x = Invalid
    BY <1>1, <1>2, <1>3 DEF Newest, Accepted, Invalid, Pick
  <1>4. CASE x # Invalid
    <2>1. Accepted(x, n) /\ x.gen \in Nat /\ x.gen # base.gen
      BY <1>1, <1>4, OnDiskAccepted
    <2> QED
      BY <1>1, <1>2, <2>1 DEF Newest, Pick
  <1> QED
    BY <1>3, <1>4

(* The outcomes of a power failure, one for each content of the spare slot.*)
LEMMA OutcomesAre ==
  ASSUME IInv
  PROVE  Outcomes = {Pick(x) : x \in sbOnDisk[Spare]}
  <1>1. /\ Spare \in Slots /\ SlotOf(base.gen) \in Slots /\ Spare # SlotOf(base.gen)
        /\ sbOnDisk[SlotOf(base.gen)] = {base} /\ SlotA # SlotB /\ Slots = {SlotA, SlotB}
        /\ base \in sbOnDisk[SlotOf(base.gen)]
    BY SlotsAre DEF Slots, SlotA, SlotB
  <1>2. /\ safePages \in safePages .. filePages
        /\ \A n \in safePages .. filePages : n \in Nat /\ safePages <= n
    BY BoundsAssumption DEF IInv, TypeOK, FileSound
  <1>3. ASSUME NEW a \in sbOnDisk[SlotA], NEW b \in sbOnDisk[SlotB],
               NEW n \in safePages .. filePages
        PROVE  \E x \in sbOnDisk[Spare] : Newest(a, b, n) = Pick(x)
    BY <1>1, <1>2, PickIsNewest
  <1>4. ASSUME NEW x \in sbOnDisk[Spare]
        PROVE  Pick(x) \in Outcomes
    BY <1>1, <1>2, PickIsNewest DEF Outcomes
  <1> QED
    BY <1>3, <1>4 DEF Outcomes

(* The file as it is laid out, with what the slots may hold near base.     *)
NInv == IInv /\ GensNear /\ WriterNear

(* The steps that move base, or what the slots may hold. *)
LEMMA StepKinds ==
  ASSUME [Next]_vars
  PROVE  \/ UNCHANGED <<sbOnDisk, base>>
         \/ SyncCatalog \/ BeginRecord \/ SyncRecord \/ PowerFailure
  BY DEF Next, vars, fileVars, WriteDocument, AppendPage, AppendCatalog, WriteFails,
         Refuse, SyncFails, SyncError, EndRecord, RecordWriteFails, ProcessEnds, Open,
         OpenFile, ReadSlotA, ReadSlotB, CloseFile

(* The steps that change the generation a writer works on. *)
LEMMA WriterGenStays ==
  ASSUME IInv, [Next]_vars
  PROVE  \/ writer'.pc = "closed"
         \/ writer.pc # "closed" /\ writer'.gen = writer.gen
         \/ writer' = writer \/ Open \/ SyncRecord
  <1>1. writer \in Writer
    BY DEF IInv, TypeOK
  <1>2. Refuse => writer'.gen = writer.gen
    BY <1>1 DEF Refuse, Writer
  <1>3. CASE WriteFails \/ SyncFails \/ RecordWriteFails
    BY <1>2, <1>3 DEF WriteFails, SyncFails, RecordWriteFails
  <1>4. CASE \E v \in Values : WriteDocument(v)
    <2>1. PICK v \in Values :
            /\ writer.pc = "idle"
            /\ writer' = [writer EXCEPT !.doc = [page |-> filePages, val |-> v]]
      BY <1>4 DEF WriteDocument
    <2> QED
      BY <1>1, <2>1 DEF Writer
  <1>5. CASE AppendCatalog
    BY <1>1, <1>5 DEF AppendCatalog, Writer
  <1>6. CASE SyncCatalog \/ BeginRecord \/ EndRecord
    BY <1>1, <1>6 DEF SyncCatalog, BeginRecord, EndRecord, Writer
  <1>7. CASE ProcessEnds \/ PowerFailure
    BY <1>7 DEF ProcessEnds, PowerFailure, ClosedWriter
  <1>8. CASE \/ \E r \in Readers :
                  OpenFile(r) \/ ReadSlotA(r) \/ ReadSlotB(r) \/ CloseFile(r)
             \/ UNCHANGED vars
    BY <1>8 DEF OpenFile, ReadSlotA, ReadSlotB, CloseFile, vars
  <1> QED
    BY <1>3, <1>4, <1>5, <1>6, <1>7, <1>8 DEF Next

(* The first sync of a flush commits the store to the record the writer    *)
(* works on: base, or the successor of base that is in the other slot.     *)
LEMMA SyncCatalogIs ==
  ASSUME NInv, SyncCatalog
  PROVE  /\ \A s \in Slots : sbOnDisk'[s] = {sb[s]}
         /\ base'.gen = writer.gen
         /\ \/ base' = base
            \/ base' = sb[Spare] /\ base'.gen = base.gen + 1
  <1>1. /\ \A s \in Slots : sbOnDisk'[s] = {sb[s]}
        /\ base' = sb[SlotOf(writer.gen)] /\ writer.pc = "appended"
    BY DEF SyncCatalog, SyncAll
  <1>2. base'.gen = writer.gen /\ writer.gen \in {base.gen, base.gen + 1}
    BY <1>1 DEF NInv, IInv, WriterSound, WriterNear
  <1>3. sb[SlotOf(base.gen)] = base
    BY SlotsAre DEF NInv
  <1> QED
    BY <1>1, <1>2, <1>3 DEF Spare

(* The record a flush begins to write is the successor of base. *)
LEMMA BeginRecordIs ==
  ASSUME NInv, BeginRecord
  PROVE  /\ NewRecord \in Record /\ NewRecord.gen = base.gen + 1
         /\ sbOnDisk'[Spare] = sbOnDisk[Spare] \cup {Invalid, NewRecord}
         /\ \A s \in Slots \ {Spare} : sbOnDisk'[s] = sbOnDisk[s]
         /\ base' = base
  <1>1. /\ writer.pc = "synced" /\ writer.gen < MaxGen /\ base' = base
        /\ sbOnDisk' = [sbOnDisk EXCEPT ![Target] = @ \cup {Invalid, NewRecord}]
    BY DEF BeginRecord
  <1>2. base.gen = writer.gen /\ NewRecord.gen = writer.gen + 1
    BY <1>1, TargetIsFree DEF NInv, IInv
  <1>3. Target = Spare
    BY <1>2 DEF Target, Spare
  <1>4. NewRecord \in Record /\ Target \in Slots
    BY <1>1, NewRecordType DEF NInv, IInv
  <1> QED
    BY <1>1, <1>2, <1>3, <1>4 DEF NInv, IInv, TypeOK

(* The second sync leaves the new record and base before it. *)
LEMMA SyncRecordIs ==
  ASSUME NInv, SyncRecord
  PROVE  /\ \A s \in Slots : sbOnDisk'[s] = {sb[s]}
         /\ base' = sb[Spare] /\ base'.gen = base.gen + 1
         /\ writer'.gen = base'.gen
  <1>1. /\ writer.pc = "written" /\ base' = NewRecord
        /\ \A s \in Slots : sbOnDisk'[s] = {sb[s]}
        /\ writer' = [writer EXCEPT !.pc = "idle", !.gen = writer.gen + 1,
                                    !.undo = writer.doc, !.newRoot = 0]
    BY DEF SyncRecord, SyncAll
  <1>2. /\ base.gen = writer.gen /\ NewRecord.gen = writer.gen + 1
        /\ sb[Target] = NewRecord
    BY <1>1, TargetIsFree DEF NInv, IInv, WriterSound
  <1>3. Target = Spare
    BY <1>2 DEF Target, Spare
  <1>4. writer'.gen = writer.gen + 1
    BY <1>1 DEF NInv, IInv, TypeOK, Writer
  <1> QED
    BY <1>1, <1>2, <1>3, <1>4

(* A power failure settles the slots, and base on what opening chooses. *)
LEMMA PowerFailureIs ==
  ASSUME NInv, PowerFailure
  PROVE  \E x \in sbOnDisk[Spare] :
           /\ sbOnDisk'[Spare] = {x} /\ sbOnDisk'[SlotOf(base.gen)] = {base}
           /\ base' = Pick(x) /\ base' \in Outcomes
           /\ writer'.pc = "closed"
           /\ \A r \in Readers : reader'[r].pc = "closed"
  <1>1. PICK a \in sbOnDisk[SlotA], b \in sbOnDisk[SlotB], n \in safePages .. filePages :
          /\ sbOnDisk' = [s \in Slots |-> IF s = SlotA THEN {a} ELSE {b}]
          /\ base' = Newest(a, b, n)
    BY DEF PowerFailure
  <1>2. writer'.pc = "closed" /\ \A r \in Readers : reader'[r].pc = "closed"
    BY DEF PowerFailure, ClosedWriter, ClosedReader
  <1>3. n \in Nat /\ safePages <= n
    BY BoundsAssumption DEF NInv, IInv, TypeOK
  <1>4. base' \in Outcomes
    BY <1>1 DEF Outcomes
  <1>5. sbOnDisk'[SlotA] = {a} /\ sbOnDisk'[SlotB] = {b}
    BY <1>1 DEF Slots, SlotA, SlotB
  <1>6. /\ Spare \in {SlotA, SlotB} /\ SlotOf(base.gen) \in {SlotA, SlotB}
        /\ Spare # SlotOf(base.gen) /\ sbOnDisk[SlotOf(base.gen)] = {base}
    BY SlotsAre DEF NInv, Slots
  <1>7. CASE Spare = SlotA
    <2>1. base = b
      BY <1>6, <1>7
    <2>2. Newest(a, base, n) = Pick(a)
      BY <1>3, <1>7, PickIsNewest DEF NInv
    <2> QED
      BY <1>1, <1>2, <1>4, <1>5, <1>6, <1>7, <2>1, <2>2
  <1>8. CASE Spare = SlotB
    <2>1. base = a
      BY <1>6, <1>8
    <2>2. Newest(base, b, n) = Pick(b)
      BY <1>3, <1>8, PickIsNewest DEF NInv
    <2> QED
      BY <1>1, <1>2, <1>4, <1>5, <1>6, <1>8, <2>1, <2>2
  <1> QED
    BY <1>6, <1>7, <1>8

(* No step moves a slot away from base. *)
LEMMA NextGensNear ==
  ASSUME NInv, [Next]_vars
  PROVE  GensNear'
  <1>1. /\ base.gen \in Nat /\ Slots = {Spare, SlotOf(base.gen)}
        /\ Spare # SlotOf(base.gen) /\ sb[SlotOf(base.gen)] = base
        /\ \A s \in Slots : sb[s] \in sbOnDisk[s]
        /\ \A s \in Slots : sbOnDisk[s] \subseteq Record
        /\ sbOnDisk[SlotOf(base.gen)] = {base}
    BY SlotsAre DEF NInv
  <1>2. CASE UNCHANGED <<sbOnDisk, base>>
    BY <1>2 DEF NInv, GensNear
  <1>3. CASE SyncCatalog
    <2>1. /\ \A s \in Slots : sbOnDisk'[s] = {sb[s]}
          /\ \/ base' = base
             \/ base' = sb[Spare] /\ base'.gen = base.gen + 1
      BY <1>3, SyncCatalogIs, Zenon
    <2>3. sbOnDisk'[Spare] = {sb[Spare]} /\ sbOnDisk'[SlotOf(base.gen)] = {base}
      BY <1>1, <2>1
    <2>2. \/ sb[Spare] = Invalid
          \/ sb[Spare].gen + 1 >= base.gen /\ sb[Spare].gen <= base.gen + 1
      BY <1>1 DEF NInv, GensNear
    <2> QED
      BY <1>1, <2>1, <2>2, <2>3 DEF GensNear
  <1>4. CASE BeginRecord
    <2>1. /\ NewRecord.gen = base.gen + 1 /\ base' = base
          /\ sbOnDisk'[Spare] = sbOnDisk[Spare] \cup {Invalid, NewRecord}
          /\ sbOnDisk'[SlotOf(base.gen)] = {base}
      BY <1>1, <1>4, BeginRecordIs
    <2> QED
      BY <1>1, <2>1 DEF NInv, GensNear
  <1>5. CASE SyncRecord
    <2>1. /\ sbOnDisk'[Spare] = {base'} /\ sbOnDisk'[SlotOf(base.gen)] = {base}
          /\ base'.gen = base.gen + 1
      BY <1>1, <1>5, SyncRecordIs
    <2> QED
      BY <1>1, <2>1 DEF GensNear
  <1>6. CASE PowerFailure
    <2>1. PICK x \in sbOnDisk[Spare] :
            /\ sbOnDisk'[Spare] = {x} /\ sbOnDisk'[SlotOf(base.gen)] = {base}
            /\ base' = Pick(x)
      BY <1>6, PowerFailureIs
    <2>2. x = Invalid \/ (x.gen + 1 >= base.gen /\ x.gen <= base.gen + 1)
      BY <1>1 DEF NInv, GensNear
    <2>3. x \in Record /\ x.gen \in Nat
      BY <1>1, BoundsAssumption DEF Record
    <2> QED
      BY <1>1, <2>1, <2>2, <2>3 DEF GensNear, Pick, Invalid
  <1> QED
    BY <1>2, <1>3, <1>4, <1>5, <1>6, StepKinds

(* A writer works on base or its successor, and so does one that opens.    *)
LEMMA NextWriterNear ==
  ASSUME NInv, [Next]_vars
  PROVE  WriterNear'
  <1>1. base.gen \in Nat /\ SlotA \in Slots /\ SlotB \in Slots
    BY SlotsAre DEF NInv, Slots
  <1>2. CASE writer'.pc = "closed"
    BY <1>2 DEF WriterNear
  <1>3. CASE SyncCatalog
    <2>1. writer.pc = "appended" /\ writer'.gen = writer.gen
      BY <1>3 DEF SyncCatalog, NInv, IInv, TypeOK, Writer
    <2>2. base'.gen = writer.gen
      BY <1>3, SyncCatalogIs
    <2> QED
      BY <2>1, <2>2 DEF WriterNear
  <1>4. CASE SyncRecord
    BY <1>4, SyncRecordIs DEF WriterNear
  <1>5. CASE Open
    <2> DEFINE x == Newest(sb[SlotA], sb[SlotB], filePages)
    <2>1. writer'.gen = x.gen /\ base' = base
      BY <1>5 DEF Open
    <2>2. /\ sb[SlotA] \in sbOnDisk[SlotA] /\ sb[SlotB] \in sbOnDisk[SlotB]
          /\ filePages \in safePages .. filePages
      BY <1>1, BoundsAssumption DEF NInv, IInv, RecordsSound, FileSound, TypeOK
    <2>3. /\ x \in Record /\ x.gen # 0 /\ x \in {sb[SlotA], sb[SlotB]}
          /\ x = base \/ x.gen > base.gen
      BY <2>2, RecoveredIsSound DEF NInv, IInv
    <2> HIDE DEF x
    <2>4. x.gen \in Nat /\ x # Invalid
      BY <2>3, BoundsAssumption DEF Record, Invalid
    <2>5. x.gen <= base.gen + 1
      BY <1>1, <2>2, <2>3, <2>4 DEF NInv, GensNear
    <2> QED
      BY <1>1, <2>1, <2>3, <2>4, <2>5 DEF WriterNear
  <1>6. ASSUME base' = base, writer.pc # "closed" /\ writer'.gen = writer.gen
        PROVE  WriterNear'
    BY <1>6 DEF NInv, WriterNear
  <1>7. ASSUME base' = base, writer' = writer
        PROVE  WriterNear'
    BY <1>7 DEF NInv, WriterNear
  <1>8. BeginRecord => base' = base
    BY DEF BeginRecord
  <1>9. PowerFailure => writer'.pc = "closed"
    BY DEF PowerFailure, ClosedWriter
  <1> QED
    BY <1>2, <1>3, <1>4, <1>5, <1>6, <1>7, <1>8, <1>9, StepKinds, WriterGenStays
       DEF NInv

(* In every execution the slots and the writer stay within one generation  *)
(* of the commit the store is at.                                          *)
THEOREM StaysNear == Spec => []NInv
  <1>1. Init => NInv
    <2> SUFFICES ASSUME Init PROVE NInv
      OBVIOUS
    <2>1. IInv
      BY InitIInv
    <2>2. WriterNear
      <3>1. base.gen = 1 /\ writer.gen = 1
        BY DEF Init, Slots, SlotA, SlotB
      <3> QED
        BY <3>1 DEF WriterNear
    <2>3. GensNear
      BY DEF Init, GensNear, Slots, SlotA, SlotB
    <2> QED
      BY <2>1, <2>2, <2>3 DEF NInv
  <1>2. NInv /\ [Next]_vars => NInv'
    BY NextIInv, NextGensNear, NextWriterNear DEF NInv
  <1> QED
    BY <1>1, <1>2, PTL DEF Spec

LEMMA OutcomesAreAfter ==
  IInv' => Outcomes' = {(IF x.gen > base'.gen THEN x ELSE base') : x \in sbOnDisk'[Spare']}
  <1> DEFINE Says ==
        Outcomes = {(IF x.gen > base.gen THEN x ELSE base) : x \in sbOnDisk[Spare]}
  <1>1. IInv => Says
    BY OutcomesAre DEF Pick
  <1> HIDE DEF Says
  <1>2. IInv' => Says'
    BY <1>1, PTL
  <1> QED
    BY <1>2 DEF Says

(* After a sync that moves base to its successor nothing else is left.     *)
LEMMA OnlyBaseLeft ==
  ASSUME NInv, IInv', base' \in Record, base'.gen = base.gen + 1,
         sbOnDisk'[SlotOf(base.gen)] = {base}
  PROVE  Outcomes' = {base'}
  <1>1. base.gen \in Nat /\ base.gen + 2 = (base.gen + 1) + 1
    BY SlotsAre DEF NInv
  <1>2. Spare' = SlotOf(base.gen)
    BY <1>1 DEF Spare, SlotOf, SlotA, SlotB
  <1>3. sbOnDisk'[Spare'] = {base} /\ ~ base.gen > base'.gen
    BY <1>1, <1>2
  <1> QED
    BY <1>3, OutcomesAreAfter

(* Every step of the page file is a step of the register, or none.         *)
LEMMA StepIsRegisterStep ==
  ASSUME NInv, NInv', [Next]_vars
  PROVE  [Register!Next]_<<base, Outcomes>>
  <1>1. /\ base.gen \in Nat /\ Slots = {Spare, SlotOf(base.gen)}
        /\ sb[SlotOf(base.gen)] = base /\ sb[Spare] \in sbOnDisk[Spare]
        /\ sbOnDisk[SlotOf(base.gen)] = {base}
        /\ Outcomes = {Pick(x) : x \in sbOnDisk[Spare]}
    BY SlotsAre, OutcomesAre DEF NInv
  <1>2. /\ IInv' /\ base' \in Record
        /\ Outcomes' = {(IF x.gen > base'.gen THEN x ELSE base') : x \in sbOnDisk'[Spare']}
    BY OutcomesAreAfter DEF NInv, IInv, TypeOK
  <1>3. base' = base => Spare' = Spare
    BY DEF Spare
  <1>4. CASE UNCHANGED <<sbOnDisk, base>>
    BY <1>1, <1>2, <1>3, <1>4 DEF Pick
  <1>5. CASE SyncCatalog
    <2>1. /\ \A s \in Slots : sbOnDisk'[s] = {sb[s]}
          /\ \/ base' = base
             \/ base' = sb[Spare] /\ base'.gen = base.gen + 1
      BY <1>5, SyncCatalogIs, Zenon
    <2>2. CASE base' = base
      <3>1. Outcomes' = {Pick(sb[Spare])}
        BY <1>1, <1>2, <1>3, <2>1, <2>2 DEF Pick
      <3>2. Register!Settle
        BY <1>1, <2>2, <3>1 DEF Register!Settle
      <3> QED
        BY <3>2 DEF Register!Next
    <2>3. CASE base' = sb[Spare] /\ base'.gen = base.gen + 1
      <3>1. Outcomes' = {base'}
        BY <1>1, <1>2, <2>1, <2>3, OnlyBaseLeft
      <3>2. base' = Pick(sb[Spare]) /\ base'.gen > base.gen
        BY <1>1, <2>3 DEF Pick
      <3>3. Register!Acknowledge
        BY <1>1, <3>1, <3>2 DEF Register!Acknowledge
      <3> QED
        BY <3>3 DEF Register!Next
    <2> QED
      BY <2>1, <2>2, <2>3
  <1>6. CASE BeginRecord
    <2>1. /\ NewRecord \in Record /\ NewRecord.gen > base.gen /\ base' = base
          /\ sbOnDisk'[Spare] = sbOnDisk[Spare] \cup {Invalid, NewRecord}
      BY <1>1, <1>6, BeginRecordIs
    <2>2. Outcomes' = {Pick(x) : x \in sbOnDisk[Spare] \cup {Invalid, NewRecord}}
      BY <1>2, <1>3, <2>1 DEF Pick
    <2>3. Pick(Invalid) = base /\ Pick(NewRecord) = NewRecord
      BY <1>1, <2>1 DEF Pick, Invalid
    <2>4. /\ NewRecord \in Outcomes'
          /\ Outcomes' = Outcomes \cup {NewRecord, base}
      BY <1>1, <2>2, <2>3
    <2>5. Register!Propose
      BY <2>1, <2>4 DEF Register!Propose
    <2> QED
      BY <2>5 DEF Register!Next
  <1>7. CASE SyncRecord
    <2>1. /\ \A s \in Slots : sbOnDisk'[s] = {sb[s]}
          /\ base' = sb[Spare] /\ base'.gen = base.gen + 1
      BY <1>7, SyncRecordIs
    <2>2. Outcomes' = {base'}
      BY <1>1, <1>2, <2>1, OnlyBaseLeft
    <2>3. base' = Pick(sb[Spare]) /\ base'.gen > base.gen
      BY <1>1, <2>1 DEF Pick
    <2>4. Register!Acknowledge
      BY <1>1, <2>2, <2>3 DEF Register!Acknowledge
    <2> QED
      BY <2>4 DEF Register!Next
  <1>8. CASE PowerFailure
    <2>1. PICK x \in sbOnDisk[Spare] :
            /\ sbOnDisk'[Spare] = {x} /\ sbOnDisk'[SlotOf(base.gen)] = {base}
            /\ base' = Pick(x) /\ base' \in Outcomes
      BY <1>8, PowerFailureIs
    <2>2. CASE x.gen > base.gen
      <3>1. x # Invalid /\ x.gen <= base.gen + 1 /\ x.gen \in Nat
        BY <1>1, <2>2, SlotsAre, BoundsAssumption
           DEF NInv, GensNear, Invalid, Record
      <3>2. base'.gen = base.gen + 1
        BY <1>1, <2>1, <2>2, <3>1 DEF Pick
      <3> QED
        BY <1>2, <2>1, <3>2, OnlyBaseLeft
           DEF Register!Next, Register!Recover
    <2>3. CASE ~ x.gen > base.gen
      <3>1. base' = base /\ sbOnDisk'[Spare'] = {x}
        BY <1>3, <2>1, <2>3 DEF Pick
      <3>2. Outcomes' = {base'}
        BY <1>2, <2>3, <3>1
      <3> QED
        BY <2>1, <3>2 DEF Register!Next, Register!Recover
    <2> QED
      BY <2>2, <2>3
  <1> QED
    BY <1>4, <1>5, <1>6, <1>7, <1>8, StepKinds

(* The page file implements the register of DurableCatalog: whatever       *)
(* writes fail, whoever stops and wherever a power failure hits, a commit  *)
(* takes effect completely or not at all, one that was reported stays, and *)
(* only a commit that was not reported can be in doubt.                    *)
THEOREM RegisterIsImplemented == Spec => ImplementsRegister
  <1>1. Init => Register!Init
    <2> SUFFICES ASSUME Init PROVE Register!Init
      OBVIOUS
    <2>1. IInv
      BY InitIInv
    <2>2. base = [gen |-> 1, root |-> 3, pages |-> 4] /\ sbOnDisk[Spare] = {Invalid}
      BY DEF Init, Spare, SlotOf, Slots, SlotA, SlotB
    <2>3. Outcomes = {base}
      BY <2>1, <2>2, OutcomesAre DEF Pick, Invalid
    <2> QED
      BY <2>1, <2>3 DEF Register!Init, IInv, TypeOK
  <1>2. NInv /\ NInv' /\ [Next]_vars => [Register!Next]_<<base, Outcomes>>
    BY StepIsRegisterStep
  <1> QED
    BY <1>1, <1>2, StaysNear, PTL DEF Spec, ImplementsRegister, Register!Spec

-----------------------------------------------------------------------------
(* How old the catalog of a reader can be.                                 *)
(*                                                                         *)
(* While base is the one the reader found committed when it measured the   *)
(* file, base is in its slot and short enough for the reader to accept;    *)
(* when base has moved on, the other slot was at most one generation back. *)

Fresh(r) ==
  LET d == reader[r] IN
  d.pc # "closed" =>
    /\ d.since <= base.gen
    /\ d.pc \in {"readA", "readB"} /\ base.gen = d.since => base.pages <= d.pages
    /\ d.pc = "readB" =>
         /\ d.rec = Invalid \/ (Accepted(d.rec, d.pages) /\ d.rec.gen + 1 >= d.since)
         /\ base.gen = d.since /\ SlotOf(d.since) = SlotA => d.rec # Invalid
    /\ d.pc = "open" => d.rec.gen + 1 >= d.since
    /\ d.pc = "failed" => base.gen > d.since

FreshReaders == \A r \in Readers : Fresh(r)

(* Between power failures base only moves on. *)
LEMMA BaseMovesOn ==
  ASSUME NInv, [Next]_vars, ~ PowerFailure
  PROVE  base' = base \/ base'.gen = base.gen + 1
  <1>1. BeginRecord => base' = base
    BY DEF BeginRecord
  <1> QED
    BY <1>1, StepKinds, SyncCatalogIs, SyncRecordIs

(* Steps of the writer leave a reader as fresh as it was. *)
LEMMA FreshStays ==
  ASSUME NInv, NEW r \in Readers, Fresh(r), reader'[r] = reader[r],
         base' = base \/ base'.gen = base.gen + 1
  PROVE  Fresh(r)'
  <1>1. /\ base.gen \in Nat /\ reader[r].since \in Nat
    BY SlotsAre, BoundsAssumption DEF NInv, IInv, TypeOK, Reader
  <1> QED
    BY <1>1 DEF Fresh, Accepted, SlotOf, SlotA, SlotB, Invalid

(* What a reader finds visible in a slot.                                  *)
LEMMA VisibleNear ==
  ASSUME NInv, NEW s \in Slots, NEW n \in Nat
  PROVE  /\ sb[s] \in Record
         /\ Accepted(sb[s], n) => sb[s].gen + 1 >= base.gen /\ sb[s].gen \in Nat
         /\ s = SlotOf(base.gen) /\ base.pages <= n => sb[s] = base /\ Accepted(sb[s], n)
  <1>1. /\ sb[s] \in sbOnDisk[s] /\ sbOnDisk[s] \subseteq Record
        /\ sb[SlotOf(base.gen)] = base
    BY SlotsAre DEF NInv
  <1>2. Accepted(sb[s], n) => sb[s].gen + 1 >= base.gen /\ sb[s].gen \in Nat
    BY <1>1, BoundsAssumption DEF Accepted, Invalid, NInv, GensNear, Record
  <1>3. safePages \in Nat /\ Accepted(base, safePages)
    BY BaseIsAccepted, BoundsAssumption DEF NInv, IInv, TypeOK
  <1>4. base.pages <= n => Accepted(base, n)
    BY <1>3 DEF Accepted
  <1> QED
    BY <1>1, <1>2, <1>4

LEMMA OpenFileFresh ==
  ASSUME NInv, NEW r \in Readers, OpenFile(r)
  PROVE  Fresh(r)'
  <1>1. /\ base' = base
        /\ reader'[r] = [pc |-> "readA", pages |-> filePages,
                         rec |-> Invalid, since |-> base.gen]
    BY DEF OpenFile, NInv, IInv, TypeOK
  <1>2. base.gen \in Nat
    BY SlotsAre DEF NInv
  <1>3. Accepted(base, filePages)
    BY BaseIsAccepted, BoundsAssumption DEF NInv, IInv, TypeOK, FileSound
  <1> QED
    BY <1>1, <1>2, <1>3 DEF Fresh, Accepted

(* The choice when only one slot has been read. *)
LEMMA NewestOfOne ==
  ASSUME NEW a, NEW n
  PROVE  /\ ~ Accepted(Invalid, n)
         /\ Newest(a, Invalid, n) = IF Accepted(a, n) THEN a ELSE Invalid
  <1>1. ~ Accepted(Invalid, n)
    BY DEF Accepted, Invalid
  <1>2. Newest(a, Invalid, n) = IF Accepted(a, n) THEN a ELSE Invalid
    BY <1>1, Zenon DEF Newest
  <1> QED
    BY <1>1, <1>2

LEMMA ReadSlotAFresh ==
  ASSUME NInv, NEW r \in Readers, Fresh(r), ReadSlotA(r)
  PROVE  Fresh(r)'
  <1> DEFINE y == Newest(sb[SlotA], Invalid, reader[r].pages)
  <1>1. /\ reader[r].pc = "readA" /\ base' = base
        /\ reader'[r].pc = "readB" /\ reader'[r].rec = y
        /\ reader'[r].pages = reader[r].pages /\ reader'[r].since = reader[r].since
    BY DEF ReadSlotA, NInv, IInv, TypeOK, Reader
  <1>2. /\ reader[r].since \in Nat /\ reader[r].pages \in Nat /\ SlotA \in Slots
        /\ base.gen \in Nat
    BY SlotsAre, BoundsAssumption DEF NInv, IInv, TypeOK, Reader, Slots
  <1>3. /\ y = Invalid \/ (y = sb[SlotA] /\ Accepted(sb[SlotA], reader[r].pages))
        /\ Accepted(sb[SlotA], reader[r].pages) => y = sb[SlotA] /\ y # Invalid
    BY NewestOfOne
  <1> HIDE DEF y
  <1>4. /\ reader[r].since <= base.gen
        /\ base.gen = reader[r].since => base.pages <= reader[r].pages
    BY <1>1 DEF Fresh
  <1>5. y = Invalid \/ (Accepted(y, reader[r].pages) /\ y.gen + 1 >= reader[r].since)
    BY <1>2, <1>3, <1>4, VisibleNear
  <1>6. base.gen = reader[r].since /\ SlotOf(reader[r].since) = SlotA => y # Invalid
    BY <1>2, <1>3, <1>4, VisibleNear
  <1> QED
    BY <1>1, <1>4, <1>5, <1>6 DEF Fresh, Accepted, SlotOf, SlotA, SlotB, Invalid

LEMMA ReadSlotBFresh ==
  ASSUME NInv, NEW r \in Readers, Fresh(r), ReadSlotB(r)
  PROVE  Fresh(r)'
  <1> DEFINE n == reader[r].pages
             g == reader[r].since
             x == Newest(reader[r].rec, sb[SlotB], n)
  <1>1. /\ reader[r].pc = "readB" /\ base' = base
        /\ reader'[r].rec = x /\ reader'[r].since = g
        /\ reader'[r].pc = IF Accepted(x, n) THEN "open" ELSE "failed"
    BY DEF ReadSlotB, NInv, IInv, TypeOK, Reader
  <1>2. /\ g \in Nat /\ n \in Nat /\ SlotB \in Slots /\ base.gen \in Nat
        /\ reader[r].rec \in Record /\ sb[SlotB] \in Record
    BY SlotsAre, VisibleNear, BoundsAssumption DEF NInv, IInv, TypeOK, Reader, Slots
  <1>3. /\ g <= base.gen
        /\ base.gen = g => base.pages <= n
        /\ \/ reader[r].rec = Invalid
           \/ Accepted(reader[r].rec, n) /\ reader[r].rec.gen + 1 >= g
        /\ base.gen = g /\ SlotOf(g) = SlotA => reader[r].rec # Invalid
    BY <1>1 DEF Fresh
  <1>4. /\ Accepted(x, n) => \/ x = sb[SlotB] /\ Accepted(sb[SlotB], n)
                             \/ x = reader[r].rec /\ reader[r].rec # Invalid
        /\ ~ Accepted(x, n) => ~ Accepted(reader[r].rec, n) /\ ~ Accepted(sb[SlotB], n)
    BY DEF Newest, Accepted, Invalid
  <1> HIDE DEF x
  <1>5. Accepted(x, n) => x.gen + 1 >= g
    BY <1>2, <1>3, <1>4, VisibleNear
  <1>6. ASSUME ~ Accepted(x, n) PROVE base.gen > g
    <2>1. reader[r].rec = Invalid
      BY <1>3, <1>4, <1>6
    <2>2. SlotOf(g) = SlotA \/ SlotOf(g) = SlotB
      BY DEF SlotOf
    <2>3. SlotOf(g) = SlotB => base.gen # g
      BY <1>2, <1>3, <1>4, <1>6, VisibleNear
    <2> QED
      BY <1>2, <1>3, <2>1, <2>2, <2>3
  <1> QED
    BY <1>1, <1>2, <1>3, <1>5, <1>6 DEF Fresh

LEMMA NextFresh ==
  ASSUME NInv, FreshReaders, [Next]_vars
  PROVE  FreshReaders'
  <1> SUFFICES ASSUME NEW r \in Readers PROVE Fresh(r)'
    BY DEF FreshReaders
  <1>1. Fresh(r)
    BY DEF FreshReaders
  <1>2. reader \in [Readers -> Reader]
    BY DEF NInv, IInv, TypeOK
  <1>3. CASE PowerFailure
    BY <1>3, PowerFailureIs DEF Fresh
  <1>4. CASE OpenFile(r)
    BY <1>4, OpenFileFresh
  <1>5. CASE ReadSlotA(r)
    BY <1>1, <1>5, ReadSlotAFresh
  <1>6. CASE ReadSlotB(r)
    BY <1>1, <1>6, ReadSlotBFresh
  <1>7. CASE CloseFile(r)
    BY <1>2, <1>7 DEF CloseFile, Fresh, ClosedReader
  <1>8. CASE reader'[r] = reader[r] /\ ~ PowerFailure
    BY <1>1, <1>8, BaseMovesOn, FreshStays
  <1>9. \/ PowerFailure \/ reader' = reader
        \/ \E q \in Readers : OpenFile(q) \/ ReadSlotA(q) \/ ReadSlotB(q) \/ CloseFile(q)
    BY DEF Next, vars, WriteDocument, AppendCatalog, WriteFails, Refuse, SyncCatalog,
           SyncFails, BeginRecord, EndRecord, RecordWriteFails, SyncRecord, ProcessEnds,
           Open
  <1>10. \A q \in Readers :
           q # r /\ (OpenFile(q) \/ ReadSlotA(q) \/ ReadSlotB(q) \/ CloseFile(q))
             => reader'[r] = reader[r]
    BY <1>2 DEF OpenFile, ReadSlotA, ReadSlotB, CloseFile
  <1> QED
    BY <1>3, <1>4, <1>5, <1>6, <1>7, <1>8, <1>9, <1>10

(* A process that opens the file without a lock, between any two writes of *)
(* the writer, gets a catalog at most one commit older than the last one   *)
(* reported before, and is refused only if another commit came in between. *)
THEOREM StalenessIsBounded == Spec => []BoundedStaleness
  <1>1. Init => FreshReaders
    BY DEF Init, FreshReaders, Fresh, ClosedReader
  <1>2. NInv /\ FreshReaders /\ [Next]_vars => FreshReaders'
    BY NextFresh
  <1>3. NInv /\ FreshReaders => BoundedStaleness
    <2> SUFFICES ASSUME NInv, FreshReaders, NEW r \in Readers
                 PROVE  /\ reader[r].pc = "open" => reader[r].rec.gen + 1 >= reader[r].since
                        /\ reader[r].pc = "failed" =>
                             Newest(sb[SlotA], sb[SlotB], filePages).gen > reader[r].since
      BY DEF BoundedStaleness
    <2> DEFINE x == Newest(sb[SlotA], sb[SlotB], filePages)
    <2>1. /\ sb[SlotA] \in sbOnDisk[SlotA] /\ sb[SlotB] \in sbOnDisk[SlotB]
          /\ filePages \in safePages .. filePages
      BY BoundsAssumption DEF NInv, IInv, RecordsSound, Slots, FileSound, TypeOK
    <2>2. x \in Record /\ (x = base \/ x.gen > base.gen)
      BY <2>1, RecoveredIsSound DEF NInv, IInv
    <2> HIDE DEF x
    <2>3. x.gen \in Nat /\ base.gen \in Nat /\ reader[r].since \in Nat
      BY <2>2, SlotsAre, BoundsAssumption DEF NInv, IInv, TypeOK, Record, Reader
    <2>4. Fresh(r)
      BY DEF FreshReaders
    <2>5. reader[r].pc = "failed" => x.gen > reader[r].since
      BY <2>2, <2>3, <2>4 DEF Fresh
    <2> QED
      BY <2>4, <2>5 DEF Fresh, x
  <1> QED
    BY <1>1, <1>2, <1>3, StaysNear, PTL DEF Spec
=============================================================================
