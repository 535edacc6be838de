----------------------------- MODULE WriteBack -----------------------------
(***************************************************************************)
(* UPDATE, DELETE and INSERT on blocks with write-back (execute_sql_mut in *)
(* src/sql/write_back.rs).  A statement matches its rows first and then    *)
(* goes through their documents one by one: it patches the text of the     *)
(* source file, writes the file, and only then replaces the document in    *)
(* the store.  Any of these steps may fail, an editor may change a file    *)
(* between any two of them, and a transaction takes back the documents of  *)
(* the store but not the files.                                            *)
(***************************************************************************)
EXTENDS SourcePatch

CONSTANTS
  Docs,           \* the documents of the store
  Sourceless,     \* those without a source file or without spans
  NoDoc,          \* no document at hand
  NewText,        \* what statements write: one text per row of an INSERT
  MaxStatements,  \* bound: statements
  MaxEdits,       \* bound: changes by an editor
  MaxRows         \* bound: rows of an INSERT

ASSUME TextsAreGiven == NewText \in Seq(Texts) /\ NewText # <<>>

ASSUME DocsAreNamed ==
  Sourceless \subseteq Docs /\ NoDoc \notin Docs /\ MaxRows \in 0..Len(NewText)

ASSUME BoundsAreNumbers == MaxStatements \in Nat /\ MaxEdits \in Nat

VARIABLES
  files,       \* the source files
  docs,        \* the blocks of each document, in memory
  hashed,      \* the text whose hash the store keeps for each document
  saved,       \* the documents and hashes of the store file
  tx,          \* what BEGIN remembered, or NoTx
  stmt,        \* the statement that runs
  known,       \* history: documents that the user was told to be out of
               \* step with their file, and that still are
  statements,  \* history: how many statements ran
  edits        \* history: how many changes an editor made

vars == <<files, docs, hashed, saved, tx, stmt, known, statements, edits>>

NoTx == [docs |-> <<>>, hashed |-> <<>>]

\* kind is "update", "delete" or "insert"; todo the documents to come; rows
\* the blocks matched in each document, or the rows to insert; doc the
\* document at hand, with the text read and the patched text.
Idle == [kind |-> "none", rows |-> <<>>, todo |-> {}, doc |-> NoDoc,
         original |-> <<>>, patched |-> <<>>, step |-> "none"]

Fresh(d) == docs[d] = Parse(files[d])

\* The user is told of S; what is in step again need not be known.
Tell(S) ==
  known' = {d \in known \cup S :
              d = stmt'.doc \/ docs'[d] # Parse(files'[d])}

-----------------------------------------------------------------------------
(* Statements.                                                             *)

Places ==
  UNION {{<<d, k>> : k \in AtEnd..Len(docs[d]) + 1} : d \in Docs}

\* none is what rows is for a document that has none.
Statement(kind, rows, none) ==
  [Idle EXCEPT !.kind = kind, !.rows = rows,
               !.todo = {d \in Docs : rows[d] # none}]

\* collect_matched_edits: the rows of blocks that satisfy the WHERE.
MatchedBlocks ==
  {rows \in [Docs -> SUBSET UNION {DOMAIN docs[d] : d \in Docs}] :
     \A d \in Docs : rows[d] \subseteq DOMAIN docs[d]}

Matched ==
  {Statement(kind, rows, {}) :
     kind \in {"update", "delete"}, rows \in MatchedBlocks}

\* collect_new_blocks: n VALUES rows for headings and paragraphs, each after
\* a block or at the end of its document.
RowsOf(d, places, kinds) ==
  LET mine == {r \in DOMAIN places : places[r][1] = d}
      of == Sorted(mine, {p \in mine \X mine : p[1] < p[2]})
  IN  [i \in DOMAIN of |-> [after |-> places[of[i]][2], kind |-> kinds[of[i]],
                            text |-> NewText[of[i]]]]

InsertOf(places, kinds) ==
  Statement("insert", [d \in Docs |-> RowsOf(d, places, kinds)], <<>>)

Collected(n) ==
  {InsertOf(places, kinds) :
     places \in [1..n -> Places], kinds \in [1..n -> {"heading", "paragraph"}]}

Start ==
  /\ stmt = Idle /\ statements < MaxStatements
  /\ statements' = statements + 1
  /\ stmt' \in Matched \cup UNION {Collected(n) : n \in 1..MaxRows}
  /\ UNCHANGED <<files, docs, hashed, saved, tx, known, edits>>

\* The checks of a document: a file, spans, the blocks, kinds with a text.
Patchable(d) ==
  /\ d \notin Sourceless
  /\ CASE stmt.kind = "update" ->
            \A k \in stmt.rows[d] : Writable(docs[d][k].kind)
       [] stmt.kind = "delete" -> TRUE
       [] stmt.kind = "insert" ->
            \A r \in DOMAIN stmt.rows[d] :
              stmt.rows[d][r].after \in {AtEnd} \cup DOMAIN docs[d]

Patched(d) ==
  LET rows == stmt.rows[d]
  IN  CASE stmt.kind = "update" ->
             Updated(files[d], docs[d], rows, NewText[1])
        [] stmt.kind = "delete" -> Deleted(files[d], docs[d], rows)
        [] stmt.kind = "insert" -> Inserted(files[d], docs[d], rows)

Patch(d) ==
  /\ d \in stmt.todo /\ stmt.step = "none"
  /\ Patchable(d)
  /\ stmt' = [stmt EXCEPT !.todo = @ \ {d}, !.doc = d, !.step = "write",
                          !.original = files[d], !.patched = Patched(d)]
  /\ UNCHANGED <<files, docs, hashed, saved, tx, known, statements, edits>>

\* The statement ends with an error: the user learns that the file of the
\* document at hand may be ahead of the store.
Fail ==
  /\ stmt' = Idle
  /\ Tell({stmt.doc} \cap Docs)

\* A check fails, or the file cannot be read.
PatchFails(d) ==
  /\ d \in stmt.todo /\ stmt.step = "none"
  /\ UNCHANGED <<files, docs, hashed, saved, tx, statements, edits>>
  /\ Fail

WriteFile ==
  /\ stmt.step = "write"
  /\ files' = [files EXCEPT ![stmt.doc] = stmt.patched]
  /\ stmt' = [stmt EXCEPT !.step = "replace"]
  /\ UNCHANGED <<docs, hashed, saved, tx, known, statements, edits>>

\* fs::write truncates the file before it writes.
Torn ==
  {files} \cup {[files EXCEPT ![stmt.doc] = SubSeq(stmt.patched, 1, n)] :
                  n \in 0..Len(stmt.patched)}

WriteFails ==
  /\ stmt.step = "write"
  /\ files' \in Torn
  /\ UNCHANGED <<docs, hashed, saved, tx, statements, edits>>
  /\ Fail

\* Mutated form: the blocks of the text that was read.
ReplaceDocumentOriginal ==
  /\ stmt.step = "replace"
  /\ docs' = [docs EXCEPT ![stmt.doc] = Parse(stmt.original)]
  /\ saved' = [docs |-> docs', hashed |-> hashed]
  /\ stmt' = [stmt EXCEPT !.step = "none", !.doc = NoDoc]
  /\ UNCHANGED <<files, hashed, tx, statements, edits>>
  /\ Tell({})

\* replace_document publishes the document and all others.
ReplaceDocument ==
  /\ stmt.step = "replace"
  /\ docs' = [docs EXCEPT ![stmt.doc] = Parse(stmt.patched)]
  /\ saved' = [docs |-> docs', hashed |-> hashed]
  /\ stmt' = [stmt EXCEPT !.step = "none", !.doc = NoDoc]
  /\ UNCHANGED <<files, hashed, tx, statements, edits>>
  /\ Tell({})

ReplaceFails ==
  /\ stmt.step = "replace"
  /\ UNCHANGED <<files, docs, hashed, saved, tx, statements, edits>>
  /\ Fail

Finish ==
  /\ stmt.kind # "none" /\ stmt.step = "none" /\ stmt.todo = {}
  /\ stmt' = Idle
  /\ UNCHANGED <<files, docs, hashed, saved, tx, known, statements, edits>>

-----------------------------------------------------------------------------
(* Transactions of execute_sql_mut.                                        *)

Begin ==
  /\ stmt = Idle /\ tx = NoTx
  /\ tx' = [docs |-> docs, hashed |-> hashed]
  /\ UNCHANGED <<files, docs, hashed, saved, stmt, known, statements, edits>>

Commit ==
  /\ stmt = Idle /\ tx # NoTx
  /\ tx' = NoTx
  /\ UNCHANGED <<files, docs, hashed, saved, stmt, known, statements, edits>>

\* Mutated form: only documents whose number of blocks changed.
WrittenByCount ==
  {d \in Docs \ Sourceless : Len(tx.docs[d]) # Len(docs[d])}

\* diff_written_paths: named in the answer to ROLLBACK.
Written == {d \in Docs \ Sourceless : tx.docs[d] # docs[d]}

Rollback ==
  /\ stmt = Idle /\ tx # NoTx
  /\ tx' = NoTx
  /\ docs' = tx.docs /\ hashed' = tx.hashed
  /\ saved' = tx
  /\ UNCHANGED <<files, stmt, statements, edits>>
  /\ Tell(Written)

\* The catalog cannot be written: an error, and the memory is restored.
RollbackFails ==
  /\ stmt = Idle /\ tx # NoTx
  /\ tx' = NoTx
  /\ docs' = tx.docs /\ hashed' = tx.hashed
  /\ UNCHANGED <<files, saved, stmt, statements, edits>>
  /\ Tell(Docs)

-----------------------------------------------------------------------------
(* Around the statements.                                                  *)

\* reindex_paths: files whose text is the hashed one are left alone.
Reindex ==
  /\ stmt = Idle
  /\ LET changed == {d \in Docs \ Sourceless : files[d] # hashed[d]}
     IN  /\ docs' = [d \in Docs |-> IF d \in changed THEN Parse(files[d])
                                    ELSE docs[d]]
         /\ hashed' = [d \in Docs |-> IF d \in changed THEN files[d]
                                      ELSE hashed[d]]
  /\ saved' = [docs |-> docs', hashed |-> hashed']
  /\ UNCHANGED <<files, tx, stmt, statements, edits>>
  /\ Tell({})

\* Somebody adds a line at the top of a file or takes one away.
Edit(d) ==
  /\ d \notin Sourceless /\ edits < MaxEdits
  /\ files' \in {[files EXCEPT ![d] = <<Blank>> \o @]}
                  \cup {[files EXCEPT ![d] = Tail(files[d])] :
                          x \in {1} \cap DOMAIN files[d]}
  /\ edits' = edits + 1
  /\ UNCHANGED <<docs, hashed, saved, tx, stmt, statements>>
  /\ Tell({d})

\* The process ends, perhaps within a write; the next one loads the store
\* file, which differs from the memory after a rollback that failed.
Crash ==
  /\ files' \in IF stmt.step = "write" THEN Torn ELSE {files}
  /\ docs' = saved.docs /\ hashed' = saved.hashed
  /\ tx' = NoTx
  /\ stmt' = Idle
  /\ UNCHANGED <<saved, statements, edits>>
  /\ Tell({d \in Docs : d = stmt.doc \/ docs # saved.docs})

Lines == Seq(Line)
Blocks == Seq([kind : {"heading", "rule", "paragraph"}, content : Seq(Texts),
               first : Nat \ {0}, last : Nat \ {0}])
Snapshot == [docs : [Docs -> Blocks], hashed : [Docs -> Lines]]

InitWith(f) ==
  /\ files = f
  /\ docs = [d \in Docs |-> Parse(f[d])]
  /\ hashed = f
  /\ saved = [docs |-> docs, hashed |-> hashed]
  /\ tx = NoTx /\ known = {}

Init ==
  /\ \E f \in [Docs -> Lines] : InitWith(f)
  /\ stmt = Idle /\ statements = 0 /\ edits = 0

Next ==
  \/ Start
  \/ \E d \in Docs : Patch(d) \/ PatchFails(d) \/ Edit(d)
  \/ WriteFile \/ WriteFails \/ ReplaceDocument \/ ReplaceFails \/ Finish
  \/ Begin \/ Commit \/ Rollback \/ RollbackFails
  \/ Reindex \/ Crash

Spec == Init /\ [][Next]_vars

-----------------------------------------------------------------------------
TypeOK ==
  /\ files \in [Docs -> Lines]
  /\ docs \in [Docs -> Blocks]
  /\ hashed \in [Docs -> Lines]
  /\ saved \in Snapshot
  /\ tx \in Snapshot \cup {NoTx}
  /\ stmt.kind \in {"none", "update", "delete", "insert"}
  /\ stmt.step \in {"none", "write", "replace"}
  /\ stmt.todo \in SUBSET Docs
  /\ stmt.doc \in Docs \cup {NoDoc}
  /\ stmt.original \in Lines /\ stmt.patched \in Lines
  /\ known \in SUBSET Docs
  /\ statements \in 0..MaxStatements /\ edits \in 0..MaxEdits

\* A file was patched whose text was the one that the store had indexed.
PatchedFresh(kind) ==
  /\ stmt.step # "none" /\ stmt.kind = kind
  /\ docs[stmt.doc] = Parse(stmt.original)

Rows == stmt.rows[stmt.doc]
Before == docs[stmt.doc]
After == Parse(stmt.patched)

\* An UPDATE changes what it matched and nothing else, where no two blocks
\* share a line (apply_matched_edits).
UpdateIsExact ==
  PatchedFresh("update") /\ OwnLines(Before)
    => Outline(After) = ExpectUpdated(Before, Rows, NewText[1])

\* A DELETE removes what it matched and nothing else, where blank lines
\* separate the blocks (apply_matched_edits).
DeleteIsExact ==
  PatchedFresh("delete") /\ Spaced(Before)
    => Outline(After) = ExpectDeleted(Before, Rows)

\* An INSERT puts every row where it says, the rows of one place in the
\* order of VALUES, and separates it from what is there (apply_new_blocks).
\* The last block and the end of the file are one place or two.
InsertIsExact ==
  /\ PatchedFresh("insert") /\ OwnLines(Before)
  /\ ~\E i, j \in DOMAIN Rows : /\ Rows[i].after = AtEnd
                                /\ Rows[j].after # AtEnd
                                /\ Rows[j].after = Len(Before) /\ i < j
  => Outline(After) = ExpectInserted(Before, Rows)

\* Whenever no statement is at work on a document, its blocks are those of
\* its file unless the user knows better: an editor changed it, a statement
\* or the process failed on it, or ROLLBACK named it.
StaleOnlyWhenKnown ==
  \A d \in Docs : Fresh(d) \/ d \in known \/ d = stmt.doc
=============================================================================
