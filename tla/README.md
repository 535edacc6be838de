# mq-db in TLA+

Models of mq-db, the embedded database that indexes Markdown files and answers
SQL over their blocks, with the TLC runs that check them and the TLAPS proofs
about them. Paths are relative to the repository; `src/...` names its Rust code.

## 1. The system

A `DocumentStore` (`src/store.rs`) holds parsed documents, custom tables and
views in memory. It may be backed by one page file (`src/storage.rs`), whose
handle it keeps in `storage`. `SqlEngine`s (`src/sql/engine.rs`) are sessions
on a shared store; the HTTP server gives every request an engine of its own,
the command line has one. Other processes may open the same file without a
lock to read it.

| Component | State | Operations | Interacts through |
| --- | --- | --- | --- |
| Page file and catalog commit (`storage.rs`, `storage/page.rs`, `storage/catalog.rs`) | pages of the file, two superblocks, `generation`, `catalog_root` | `create`, `open`, `open_read_only`, `append_page`, `write_page`, `sync_all`, `append_catalog`, `flush_catalog`, `load_catalog`, `read_blocks` | the medium; other processes that read the file |
| Database lock and file replacement (`storage.rs`, `store.rs`, `bin/mq-db.rs`) | lock file of the path, lock on the inode, temporary files | `DatabaseLock::acquire`, `save`, `vacuum`, `migrate`, `maybe_migrate` | the directory; other processes |
| Shared store: statements, sessions, transactions (`store.rs`, `sql/ddl.rs`, `sql/dml.rs`, `sql/engine.rs`) | `custom_tables`, `views`, `catalog_commit`, `tx_snapshot`, session ids | DDL, DML, `BEGIN`, `COMMIT`, `ROLLBACK`, the flush each statement ends with | locks of the store; the page file |
| View resolution (`sql/scan.rs`, `sql/ddl.rs`) | the read-write lock of `views`, `view_stack` of an engine | `table_rows_unqualified`, `exec_view_query`, `CREATE VIEW`, `DROP VIEW` | the lock of `views`, nested for views over views |
| Document store (`store.rs`, `document.rs`) | documents, ids, content hashes, page pointers, block caches | `add_*`, `append_*`, `replace_document`, `reindex_paths`, `save`, `vacuum`, `open`, `load` | Markdown files; the page file |
| Write-back (`sql/write_back.rs`) | spans of blocks, the files they were read from | `UPDATE`, `DELETE`, `INSERT` on `blocks`, `ROLLBACK` | Markdown files; the document store |
| Block tree (`index.rs`, `block.rs`, `document.rs`, `sql/rows.rs`) | pre/post intervals, anchors | `build_blocks`, `contains`, `next_sibling`, `first_child`, `block_anchors` | called by the document store and by scans |
| Secondary indexes, zone maps (`indexes.rs`, `sql/plan.rs`, `sql/analysis.rs`) | postings per document, min/max summaries | index hints, skipping of documents | called by scans |
| Codecs (`storage/codec.rs`, `storage/catalog.rs`) | none | encode, decode | called by the page file |
| SQL evaluation (`sql/query.rs`, `expr.rs`, `join.rs`, ...) | rows in flight, CTE scopes | `SELECT` | the store, read only |
| HTTP server (`bin/mq-db.rs`) | rate limiter, concurrency permits, shared store | `serve_sql`, `serve_mq`, `serve_security` | the shared store |
| Attached stores (`store.rs`, `sql/scan.rs`) | map of aliases | `attach`, `detach` | other page files, read only |
| Command line, terminal interface, search, output | none that outlives a call | presentation | the components above |

### Where it is hard, and what makes each part correct

* **Commit.** A flush is two writes and two syncs; a crash or an error can fall
  between any two of them, a reader without the lock can look at any moment,
  and a sync that failed may nevertheless have written. Correct when a reported
  commit survives, a record never names pages that are not on the medium, and a
  reader's catalog stays whole.
* **Sessions.** A statement changes memory, writes rows, flushes, and undoes all
  that when the flush fails; other sessions run meanwhile, and some state is
  read before the lock is taken (`exec_update`). Correct when each statement
  does what it was asked to at one instant, or nothing, the file agrees
  with memory after each success, and a rollback takes back the right changes.
* **View lock.** A `SELECT` keeps read guards while it takes further ones and a
  writer may be waiting. Correct when the views nested in one another that it
  resolves are those of one moment, and everybody gets through.
* **File replacement.** `save`, `vacuum` and `migrate` rename over a file that
  others hold open or lock. Correct when there is never a second writer and a
  crash leaves the old file or the new one.
* **Documents, write-back.** Hashes, spans and page pointers go stale when the
  file, the document or the page file changes. Correct when an edit lands on
  the block it was meant for and a changed file is indexed again.
* **Indexes, block tree.** Sequential. Correct when pruning drops no row that a
  full scan returns, and when intervals nest exactly as headings do.
* **SQL evaluation.** Sequential, but values pass through text again and again:
  cells, subqueries, CTEs, group keys, join keys. Correct when each stage gives
  what its meaning says, without its hash tables, texts and permutations.
* **Server.** Windows and permits at their boundaries.

`PROJECT.json` lists these hazards one by one, each at its line.

## 2. What is modelled

### CatalogCommit

The v8 page file of one store with one writing process and lock-free readers.

| Model | Code |
| --- | --- |
| `sb`, `body`, `filePages` | what `read(2)` returns: pages 1 and 2, pages from 3 on, the length |
| `sbOnDisk`, `unsynced`, `safePages` | what a power failure may leave of them |
| `writer` | the `Storage` of the process that holds the write lock, and the document in memory |
| `reader[r]` | a `Storage` from `open_read_only` |
| `base` | history: the record the store is committed to |
| `WriteDocument` | `do_append`, `do_replace_at`: pages of a document, before the flush |
| `AppendCatalog`, `SyncCatalog`, `BeginRecord`, `EndRecord`, `SyncRecord` | the steps of `flush_catalog` in their order |
| `WriteFails`, `SyncFails`, `RecordWriteFails` | the error returns of those calls and what the caller restores |
| `Open`, `OpenFile`, `ReadSlotA`, `ReadSlotB` | `open_with_lock`, atomic for the process that holds the lock, in three steps for a reader |
| `ProcessEnds`, `PowerFailure` | a crash of the process; a crash of the machine |

Abstractions. A store has one document, a document one page, a catalog one page
that names the document's. A superblock that `decode_superblock` rejects is
`Invalid`, whatever its bytes. A superblock is unreadable to a concurrent
`read` while it is being written. The medium keeps, for each page not yet
synced, the old content, the new one or a torn one; the length is anything
between the synced and the visible one. The pages of a failed `fsync` stay
dirty, and the next one that succeeds has written them; on a system that drops
them no retry over the same handle can be safe. The mutual exclusion of writers is
taken from the lock (`FileReplacement`).

`DurableCatalog` is the promise: a register with a committed value `base` and a
set `possible` of values a power failure may leave. Only a value that was
proposed and neither acknowledged nor ruled out can be in doubt.

### CatalogSessions

Sessions on one shared store: every statement on custom tables and views.

| Model | Code |
| --- | --- |
| `tables`, `views` | `custom_tables`, `views` of `DocumentStore` |
| `tables[n].chain` | the rows in the row pages that `CustomTableState` points to |
| `disk` | the catalog in the file: columns, row count and row pages of each table, views |
| `tx`, `poisoned` | `tx_snapshot`; the poison flag of `catalog_commit` |
| `sess[s]` | the statement in progress, and what it restores when its flush fails |
| `CreateTable`, `CreateTableAs`, `CreateView`, `DropTables`, `DropViews` | `exec_create_table`, `exec_create_view`, `exec_drop_tables`, `exec_drop_views` |
| `Insert`, `Delete`, `UpdateResolve` then `UpdateApply`, `UpdatePanics` or `UpdateRefused` | `exec_insert`, `exec_delete`, `exec_update` with `rewrite_rows` |
| `Publish`, `FlushFails`, `Acknowledge` | `persist_unsaved_table_rows` or `append_table_rows_to_storage`, `flush_catalog_to_storage`, the undo of each statement, `note_catalog_mutation` |
| `Begin`, `Commit`, `Rollback`, `RestoreViews`, `RollbackRefused` | `begin_transaction`, `commit_transaction`, `rollback_transaction_tables_only` |
| `Reopen` | the process ends at any moment; `DocumentStore::open` |

Steps are cut where another session can see the difference: before the lock
(`UpdateResolve`), at the change in memory (visible to readers before it is
flushed), at the flush, at the release of the lock, and between the two maps
that a rollback restores. What a statement does under `catalog_commit` before
it changes a map is one step with the change, because only a holder of the lock
changes the maps. The flush itself is atomic here: it succeeds, fails, or fails
and is visible nevertheless. These are the outcomes that `CatalogCommit` shows
for a flush as `Open` sees it, with its steps and crashes. Predicates are
arbitrary sets of rows, the rows that `INSERT` selects are arbitrary, types and
`NOT NULL` are left out, `UNIQUE` is on the first column. A constraint is not
persisted, so `Reopen` forgets it, as the code does.

`SerialCatalog` is the promise: sessions ask for statements, and each is executed
on the one catalog at one instant, as it was asked, completely and durably, or it
fails and changes nothing but perhaps the file; and there is one transaction at a
time. `Executions` says for each kind of statement what it may make of a catalog.
Two things depend on the rows of that instant and are left open: the rows an
`UPDATE` meets, and the cell it computes. `ImplementsSerial` maps to it what the
sessions have been told (`Told`, `Asked`): a statement whose flush is pending has
not happened yet. The claim is weaker than isolation in two ways. The position
that an `UPDATE` assigns is part of the statement, as `exec_update` found it
before it took the lock, so a table that was replaced since gets the value in
another column. And nothing is said of a `SELECT`, which may see a
change whose flush then fails, or the tables of a rollback with the views
before it. `ROLLBACK` itself takes back what `BEGIN` saw, unless another session
has changed the catalog since.

### ViewLock

The `RwLock` of `views`. A `SELECT`, or the query of a view, is the relations it
names, in the order in which `materialise_from_with_hint` reads them
(`sess[s].todo`). `sess[s].path` is the `view_stack`; each
view on it holds a read guard, because the guard in
`if let Some(..) = views.read().unwrap().get(..)` lives to the end of the body
that executes the view's query. Between two relations of the `SELECT` itself no
guard is held: of `FROM v JOIN w` the second may be redefined after the first was
read, and the `SELECT` then combines definitions of different times.
`PathInForce` is about the one relation it is in the middle of. `ChangeView`, `Write`, `Flush`, `Undo` are
`exec_create_view` and `exec_drop_views`, one of them at a time because they
hold `catalog_commit`. `ReadLockable` is the policy of the standard library's
lock on Linux and macOS: a waiting writer holds up new readers, also one that
already has a guard. The mutated form `ReadLockableReaderFirst` in the module is
the policy without that rule.

### DocumentStore

The documents of a store, in memory and in the page file, through any number of
processes one after the other. `mode` says whether a process has the store and
how: in memory only (`DocumentStore::new`, `load`), or open on the page file
(`open`), or open on a page file that it has vacuumed.

| Model | Code |
| --- | --- |
| `store.docs[i]`: `path`, `blocks`, `bpage`, `ipage` | `documents`: `path`, `blocks`, `first_block_page`, `index_start_page` of `Document` |
| `store.docs[i].sum` | `block_count` and `zone_maps`, which stay when `blocks` is not loaded |
| `store.docs[i].idx` | the entry of `doc_indexes` |
| `store.hashes`, `store.next` | `content_hashes`, `next_doc_id` |
| `db` | the pages of the file, and the catalog it shows |
| `tx` | `tx_snapshot`: documents and hashes |
| `job` | `reindex_paths` in progress: the files still to do, what the others contained, its snapshot |
| `AppendDocument` | `append_file`, `append_str`; in memory also `add_file`, `add_str` |
| `ReplaceDocument` | `replace_document`, by the application or by write-back |
| `StartReindex`, `SkipUnreadable`, `SkipUnchanged`, `IndexChanged`, `IndexNew`, `EndReindex` | `reindex_paths`: its start, what it does with one file, prune and flush |
| `Save`, `Vacuum` | `save`, `vacuum`, with `save_inner` |
| `Open`, `Load`, `LoadAllBlocks`, `LoadAllIndexes` | the functions of these names |
| `Begin`, `Commit`, `Rollback` | `begin_transaction`, `commit_transaction`, `rollback_transaction` |

Abstractions. Blocks are the content they were parsed from, an index that of
the content it was built from, a hash the content itself (64-bit collisions are
left out), a chain of pages one page. Two contents matter: one that has blocks
and one that has none, since the code tells blocks that are not loaded from
blocks that do not exist by their number. The Markdown files are not state:
others edit them at any time, so an operation reads any content. Operations on
the store take `&mut self`, so one runs at a time; `reindex_paths` is cut into
steps because each file may fail on its own. A flush succeeds, fails, or fails
and is visible nevertheless, as `CatalogCommit` shows. A failed
`load_all_blocks`, which leaves the documents it has come to loaded, the errors
of `save` and `vacuum`, and transactions that another session interferes with
(`CatalogSessions` has them) are left out.

`direct` is a history variable: the document was last written by
`replace_document` over one that had a hash. The code leaves that hash as it
is, so that a file restored to its indexed content is skipped as unchanged
(`store.rs:665`). `HashesMatch` says nothing of such a document. `ReindexesAll`
excepts it only where the file has the content of the hash that was kept; that
case is a behaviour of the code, and no run rejects it. In the same way
`VacuumUnloaded` and `WritesAfterVacuum` are the calls around `vacuum` after
which the file cannot be read. The run `vacuum_unloaded` allows the first,
`documents` neither: there a process loads all blocks before `vacuum` and does
nothing after it, as the command `mq-db vacuum` does.

### FileReplacement

Store files as a whole, and several processes. A name leads to an inode or, as
a symbolic link, to another name. A store is the set of its commits.

| Model | Code |
| --- | --- |
| `entry`, `disk` | where names lead, and where they may lead after a power failure, since a rename is safe only when the directory is synced |
| `pathLock`, `inodeLock` | `<name>.lock` and the sidecar of the inode (`DatabaseLock`); the system drops both with the process |
| `proc[p]` | what a process is at: `key` is the name it locked, `file` the inode it writes to, `temp` the new file |
| `Open`, `LockPath`, `StatInode`, `LockInode`, `Refused`, `OpenFile` | `Storage::open` and `DatabaseLock::acquire`, one step per system call |
| `Commit`, `CommitInMemory` | a statement that is published, in the file or, without one, in memory only |
| `Vacuum`, `IndexNew`, `Save`, `Offer`, `CopyBackup`, `ReadLegacy` | `vacuum`, the `index` command on a new store, `save`, `maybe_migrate`, `migrate` |
| `Build`, `BuildFails`, `Rename`, `SyncDirectory`, `SyncFails` | `save_inner` |
| `Reopen`, `ReopenFails` | `reopen_after_replace` |
| `ProcessEnds`, `PowerFailure`, `Link` | a kill at any step, a crash of the machine, a user who makes a hard link |

`doubt`, `stray`, `raced` are history variables that name the cases in which
the code promises less: a replacement broken off between rename and directory
sync, a name that was replaced by a process without its lock, and two
migrations at a time. `SingleWriter` and `AcknowledgedSurvive` say nothing of a
name in `stray`, nor of a symbolic link to one: a second hard link given to
`vacuum`, or a symbolic link, whose lock is that of the name it leads to.
`AcknowledgedSurvive` is about the commits in `acked`. Not among them are commits
of a store whose vacuum failed behind the rename, and those under a name in
`doubt`. The rename of a `save`
takes out what the save overwrites on purpose, and the documents it saved come in
when it reports success.

### SectionIndex, BlockAnchors

`build_blocks` with one action per iteration of its three loops: `open` is the
stack that finds the enclosing heading, `dfs` the stack of the numbering walk.
A document is any sequence of headings, frontmatters, other blocks and nodes
without a block. `Under` says what a section is, with no stack: everything up
to the next heading that is not deeper. `BlockAnchors` extends it by the loop
of `block_anchors`, which finds the sections again on its own, from the property
`depth` of the blocks. A name is a text with the numbers added to it, so that
the text `Setup 2` and the second `Setup` are one name. A heading without a text
(`Blank`) has an empty segment, which adds nothing to the path at the root: what is
under it has the paths of the root again (`Joined`, `AnchorsRestart`). A slug
holds no `/` and no `:`, so sequences of names are told apart as the joined texts
are. Only the `slug` of a frontmatter that also has a `depth` could hold one; here
a frontmatter has one name, and a depth of 0 is no depth.

### SourcePatch, WriteBack

`SourcePatch` is what one statement does to the lines of one file and what the
parser finds in them afterwards: blank lines, headings, rules, lines of text,
and lines with two parts that give two blocks of one span. `ApplyUpdate`,
`ApplyDelete`, `ApplyInsert` are `apply_matched_edits` and `apply_new_blocks`.
`WriteBack` is `execute_sql_mut`: rows are matched first (`Start`), then for
each document the file is read and patched (`Patch`), written (`WriteFile`) and
the document replaced (`ReplaceDocument`); each of these may fail, the process
may end, and an editor may change a file between any two. The store is saved as
`replace_document` saves it. `known` is a history variable: the documents whose
disagreement with their file the user was told of, by an error or in the answer
to `ROLLBACK`.

### DocumentIndex, QueryScan

`DocumentIndex` has the postings, tokens, bytes and zone maps of one document;
`QueryScan` is one query over several: it builds the indexes or reads them back
from their bytes, chooses a hint, skips or looks up document by document, and
rechecks the rows. Numbers have the width of the model (`PreWidth`,
`DepthWidth`), so that a literal that does not fit wraps as `as u32` does.

### SqlValues, SqlStages, SqlSelect, SelectQuery

Definitions for values, stages and the whole of a `SELECT`, and in
`SelectQuery` the machine that materialises the CTEs, a recursive one by
rounds, and then runs the body. Text is what it spells (`IntText`, `PaddedText`
as in `01`, `HalfText`, `Word`), which is all that reading a value back from it
can tell apart. The properties state each stage's meaning afresh, from the rows
and the predicate, without the definitions of that stage.

### What each run checks and shows

| Run | Bounds | Shows |
| --- | --- | --- |
| `catalog_commit` | 2 contents, 1 reader, pages 3 to 7, generations to 4 | commits are durable and atomic under every error and crash; readers keep whole catalogs, at most one commit old, and are refused only when a writer has overtaken them; `CatalogCommit` implements `DurableCatalog` |
| `sessions` | 2 sessions, 2 names, 2 layouts over 2 columns, 2 cell values, 1 view text, 2 rows, 1 selected row, 4 statements | the file always opens and agrees with memory, `UNIQUE` holds, a rollback never takes back another session's change, and each statement is executed as asked at one instant or not at all (`CatalogSessions` implements `SerialCatalog`) |
| `view_lock` | 3 sessions, 2 names, queries of 1 relation and of 2 | from each relation it names, a query follows definitions that are all in force; every statement ends while views read built-in tables only |
| `view_lock_hangs` (violation) | 2 sessions, the same names and queries | with a view over a table or view, a `SELECT` and a `CREATE VIEW` can block each other for good |
| `documents` | 2 files, 1 content with blocks and the empty one, 2 ids, 8 pages, 3 writes or re-indexings | no id is given twice, the file can always be read and shows what a success reported, hashes and caches agree with documents, `reindex_paths` drops no file it should not, and misses no changed one but a file that is back at the content `replace_document` replaced |
| `vacuum_unloaded` (violation) | same, `VacuumUnloaded = TRUE` | `vacuum` of a lazily opened store loses the blocks of every document |
| `file_replacement` | 2 processes, 2 names (hard link, symbolic link, or the second one free), 3 inodes, 2 commits | one writer per file; no acknowledged commit is lost to a replacement that is cut short anywhere, but for what a `save` overwrites and the cases named above; the backup of a migration is the original |
| `block_anchors` | 5 nodes, 3 levels, headings `Setup`, `Setup 2` and one without text | intervals nest as sections do; `next_sibling` and `first_child` follow them; anchors agree with intervals, and identify blocks but for `Setup 2` and an empty heading at the root |
| `write_back` | one statement of up to 2 rows on every file of 3 lines and on those of 5 lines with blank lines between blocks; histories of 2 statements, 1 edit and 2 documents | an `UPDATE`, `DELETE` or `INSERT` changes what it says and nothing else; a document disagrees with its file only where the user was told |
| `query_scan` | up to 2 documents of 2 and 3 blocks, clauses of up to 2 conjuncts, 2 tokenizers, `pre` of 8 values, `depth` of 4 | a pruned query answers like a full scan; an index read back is the index built; a short query in a script without spaces finds what contains it |
| `select` | tables of up to 4 rows of NULLs, integers, halves, words and texts that spell numbers, with a family of statements for each stage; recursion to 5 rounds | joins, `WHERE` with subqueries, `ORDER BY`, groups, set operations and recursion mean what they say |
| `join_keys_swapped` (violation) | same | a join condition that names the joined table first loses rows when both tables have both columns |

Why the bounds are enough. *Commit*: five pages and four generations allow
three commits in a row, so each slot is overwritten with an older record in the
other one; a failed flush followed by another in the same slot; a file that
reaches its page limit in the middle of an operation. A reader is a sequence of
reads of its own and writes nothing, so a second one adds no behaviour. The
proofs remove these bounds for the safety properties. *Sessions*: a violation
found while building the model took at most three statements, one for each of
two sessions and a failure or rollback; four let a transaction enclose a
statement of each session. The layouts move a column to another position and
make it vanish. One selected row at a time still fills a table to two, the
least that can break `UNIQUE`. The proofs remove these bounds for every property
of the run. *Views*: two names suffice for a view over a
view, for one that joins two, and for a cycle made by redefinition; three sessions for a reader, a
waiting writer and one more reader. *Documents*: two files and two ids give one
document that stays and one that is pruned, the reuse of an id after that in
the next process, and two documents of one file. Three writes allow one before
a snapshot, one within it and one after. Eight pages hold three documents and
two catalogs. The proofs remove these bounds. *Files*: three inodes are the original and two replacements, so
that one replacement can fail and another follow, by the same process or a
second one; every broken lock that was tried shows with two processes. The proofs remove
these bounds, and hold for any links.
*Sections*: three levels make a level skipped, repeated and left by more than
one; five nodes hold two nested sections and what follows them. The proofs
remove both. *Write-back*: edits interact only with the lines next to them and
through the shift of later lines, for which two rows suffice; five lines hold
three separated blocks. *Scans*: an answer is put together document by
document, so one document that is skipped and one that is not are enough; eight
values of `pre` make literals at, below and beyond the width. *Select*: two rows
on each side already repeat, miss and multiply a key; sorting takes up to four,
the least that has two cycles of different lengths.

Deadlock is checked in `sessions`, `catalog_commit` and `documents`. In
`view_lock` it is off: there the deadlock is the subject of `view_lock_hangs`.
In the other runs the system may stop: a document is indexed, a query answered,
or the bound on files and statements is reached.

### Fairness

Only `ViewLock` has any. A thread in a statement goes on when it can: weak
fairness of a writer's steps, since a waiting writer is served once the guards
that are out are released and no new ones are given; strong fairness of a
reader's steps, since a reader is woken whenever a writer releases the lock and
the next writer must first take `catalog_commit` and check its statement. No
session need ever begin a statement. The other modules assume nothing: each of
their promises is about what may not happen, in runs that may stop anywhere.

## 3. What is proved

Every safety property of nine of the ten checked machines is a theorem for all
values of the constants. What a proof assumes of the constants
is the named assumptions of its module, which TLC evaluates in the runs.
`PROJECT.json` lists the theorems; here are their arguments.

### CatalogCommitProofs

From `BoundsAssumption` and `ValuesAssumption`, for every number of pages,
generations, contents and readers: `TypeCorrect`, `CommitsAreDurable`,
`CommitsAreVisible`, `RecordsAreStable`, `SnapshotsAreIntact`,
`StalenessIsBounded`, and the refinement `RegisterIsImplemented`.

None of the properties is inductive. `Durable` speaks of the outcomes of a
power failure now; that the next write keeps them good needs to know which slot
it goes to. `IInv` says it: the slot of `base` can hold nothing but `base`
(`BaseHeld`); every record that may be anywhere names synced pages below the
synced length and sits in the slot of its parity (`RecordsSound`); a writer
between its first sync and its success has everything synced and holds `base`
itself, so that its next record goes to the other slot (`WriterSound`); body
pages below the length never change, which carries the catalogs that readers
have chosen over every step (`ReadersSound`). The step that needs thought is a
writer that opened a file with a record in doubt: that record is newer than
`base` until the first sync of the writer's flush, which commits it with its own
pages, and this is why `SyncCatalog` moves `base`.

The refinement and the staleness of readers need a second layer, `NInv`: the
other slot never holds anything but the predecessor or the successor of `base`.
`BeginRecord` maps to `Propose`, `SyncRecord` to `Acknowledge`, `SyncCatalog` to
`Acknowledge` where it finds a record in doubt and to `Settle` where it does not,
`PowerFailure` to `Recover`, and every other step to a stutter. A reader that saw `base` in one slot and was
overtaken in the other got the predecessor at worst.

### CatalogSessionsProofs

From `LayoutsAssumption`, `BoundsAssumption` and `NoTxAssumption`, for any
sessions, names, layouts and cells: `TypeCorrect`, `FilesLoad`,
`FilesAreMemory`, `ConstraintsAreKept`, `ForeignChangesAreKept`, and the
refinement `SerialCatalogIsImplemented`.

`Inv` is about the statement whose flush is pending. At most one session holds
`catalog_commit` (`OneHolder`); what it restores when the flush fails is the
stored catalog (`StatementsUndoable`); every table's rows are the first rows of
its row pages, except of those tables that the pending flush writes
(`TablesKept`); the published catalog counts no more rows than its pages hold
(`FileReadable`) and shows what the sessions see unless a flush is pending or in
doubt (`FileAgrees`). For a rollback: an open transaction's snapshot is a catalog
that can come back (`SnapshotKept`), the transaction knows of every session that
changed the catalog since `BEGIN`, or is about to (`WritersNoted`), and a session
that has restored the tables but not yet the views has nothing else to undo
(`RollbacksRestore`). The refinement maps a
pending flush to "not happened yet" and keeps the statement a session is executing
as `asked`. A statement that starts is `Ask`, or `Fail` when it is refused;
`Publish` is `Execute`, for which the proof goes through the statements one by one
(what `exec_insert` and the others make of the stored catalog is in `Executions`);
`FlushFails` is `Fail`: the undo restores what is stored. A rollback whose pending
write is published, or fails after the superblock was written, is `Resave`.

### ViewLockProofs

For any number of sessions and names: `TypeCorrect` (with it, that a view is never resolved within itself, whoever redefines it meanwhile)
and `PathsAreInForce`. Here `PathInForce` is inductive together with `TypeOK`: a
definition changes only when no read guard is out, and the guards of a `SELECT`
cover what it followed from the relation it is at.

### DocumentStoreProofs

From `BoundsAssumption`, for any number of files, contents, ids, pages and writes. Three invariants:

* `IInv`, for `IdsStayFresh` and `HashesStayMatched`, with both kinds of calls
  around `vacuum` allowed. Neither property is inductive: a failed
  `reindex_paths` brings its snapshot back, so that `IInv` says of the snapshot's
  documents and hashes what `HashesMatch` says of the store's, and that their
  ids, too, are below `next_doc_id`; and a snapshot must not outlive its
  process, since `open` counts anew from the ids it finds (`NextIsAbove`). That
  the shape of records and functions survives every `EXCEPT` is part of `IInv`,
  in the place of a type.
* `PInv`, for `CatalogStaysReadable`, `StoreIsReopened` and
  `CachesStayOfOneContent`, under the hypothesis `Protocol`: `vacuum` is called
  with all blocks loaded and nothing is written after it. The command line calls
  it so, and the run `documents` has it so; without it `CatalogReadable` is
  false, as the run `vacuum_unloaded` shows. What of a document is not in memory
  is on the pages that the document names, and these are its own: for the store,
  for the snapshots of transaction and `reindex_paths`, and for the published
  catalog. Pages are only added to, so a snapshot that comes back finds its pages
  where they were. `save` and `vacuum` lay the documents out anew in the order of
  their ids; that each gets pages of its own is `RanksPlace` (`Rank` and `Nth` are
  inverse), by cardinality.
* `JInv`, for the action property `ReindexIsComplete`, without that hypothesis:
  while `reindex_paths` runs, what it has read is in the store, and what was
  there when it began still is, under the same id. The exception is that of
  `ReindexesAll`: a document that `replace_document` wrote, with its file back at
  the content of the hash that was kept.

### FileReplacementProofs

From `NamesAssumption` and `LayoutsAssumption`, for any names, links, inodes and
processes. Three layers, each inductive with the ones before it:

* `LockInv`, for `TypeCorrect` and `OneWriter`. Two processes can open one file
  only if both have the lock of its inode. That a process's inode is the one its
  name leads to (`Found`) holds because a name is replaced under its own lock, and
  that lock is taken first. The second part, that the lock it holds is that of
  the name, needs that a link is never turned into a file meanwhile (`KeyOfName`).
* `AckInv`, for `AcknowledgedIsKept`. A process that has the lock of a name has
  read everything acknowledged under it (`Knows`), since it opened the file after
  it got the lock; the new file holds what the process knows, and no name leads to
  it before the rename (`Written`); a name whose directory entry is not synced is
  in doubt or about to be synced (`Unsynced`). So where a power failure may send
  the name, old file or new, every acknowledged commit is there. What counts as
  acknowledged is said above: not what a `save` overwrote, nor commits in doubt.
* `BackupInv`, for `BackupsAreOriginal`: a file in the old format is the
  original, since nobody writes to it, and one process at a time migrates.

### BlockAnchorsProofs

From `SizesAreNatural`, for documents of any length and headings of any level:
`TypeCorrect`, `IntervalsAreSections` (a block's interval contains another's
exactly when the other is in its section) and `NumbersNavigate`.
`SectionInvariance` is the inductive invariant. In the first loop the stack
holds exactly the sections that are still open (`Opened`), and the children of
a slot are the nodes whose innermost section it is, in order (`Tree`). In the
walk, a slot that is entered and not on the stack is finished, with all of its
section below its `post` and all that is outside of it above (`Stacked`,
`Numbered`); the slot entered next is the next node of the document
(`NextIsPreorder`), which is why the numbers of the walk follow the text.
`NInv` adds that no number below the counter is left out (`Covered`) and that the
blocks are the nodes that are not skipped, in order (`Shown`): hence the number
after a `post` is the `pre` of the next block, or the `post` of the section around
it, or belongs to a node without a block.

With `NamesAreNumbered` besides, `AnchorsAreKeys` and
`AnchorsFollow`. For the first (`PathsInv`): the scopes on the stack are those of
one path, each a heading's anchor that counts everything whose path starts with it;
so a number given next is new there, and a scope that was left is never entered
again under the same path. Its two exceptions are part of the property: no text of a
heading looks like the number of a repeated one, and no heading has the empty path
(`NoneEmpty`), so that the invariant of the paths holds up to the first heading that
has it. For the second (`SectionsInv`): the
stack of `block_anchors`, which knows only the property `depth` of the blocks,
holds the sections that the stack of `build_blocks` had open after the last block
it placed. Its exception is a frontmatter with a key `depth`.

### WriteBackProofs

From `DocsAreNamed`, `TextsAreGiven` and `BoundsAreNumbers`, for any documents,
texts, statements and edits, and files of any length: `DisagreementIsKnown`,
`TypeCorrect`, `UpdatesAreExact`, `DeletesAreExact` and `InsertsAreExact`.

`DisagreementIsKnown` needs nothing of what a patch does and what a parser finds
(`Inv`): the document is replaced by what is parsed from the text that was written
(`WrittenIsPatched`), unless an editor was faster, and then the user knows. The
other half is `ROLLBACK`, which names only documents that differ from what `BEGIN`
remembered and have a source file; that the ones without never differ is
`SourcelessStay`.

The other four rest on `Held`: a statement comes to each document with the rows
that it matched in the blocks as they still are, because only the statement itself
replaces documents while it runs and it comes to each of them once; and the patched
text in hand is made of these rows, these blocks and the text that was read
(`PatchIsOfRows`). The rest is about `SourcePatch` alone (`UpdatedExact`,
`DeletedExact`, `InsertedExact`), in three parts. What the parser finds: where no two
blocks share a line, no line has two parts (`OwnLinesArePlain`), every line that is
not blank belongs to a block, and text never goes on from one block to the next
(`Layout`). What two texts say together is what the one says and then what the
other says, unless both have text at the seam (`Join`). And what a patch does to a
file of which the first lines are still those that were read, and the rest says what
it should (`Standing`): it moves the seam up over one block (`UpdateOne`,
`DeleteOne`, `InsertOne`), so that the line numbers of the blocks above still hold.
The order of the patches is a sorted list, and the proof goes down through it
(`Backward`). That a `DELETE` takes the blank line behind a block, or else the one
before it, is where `DeletesAreExact` needs the blank lines between all blocks: with
them, what follows the seam begins with a blank line whenever there is a block above
it (`BlankAfter`).

### QueryScanProofs

For any documents, fields, values, clauses and widths: `IndexRoundTrip` (what
`decode` reads is what `encode` wrote), `IndexesAreBuilt`, `ScansAreComplete`,
`ScansAreSound` and `SubstringsAreFound`. Of the constants they assume that the
store's documents are such as `build_blocks` and the indexers leave them
(`StoresHoldDocuments`: blocks numbered in order, field types), that every kind of
index and every clause of a condition is one that the code has
(`KindsAreTokenizers`, `ClausesAreConditions`), that `to_lowercase` changes nothing
the second time (`CharactersAreLower`) and that the integers of the page format have a
width (`WidthsArePositive`).

`IInv` says that the indexes are at every moment those of the blocks they were built
from, whether built, read back or not there, and of a scan: the rows so far are, in order,
the places of the documents done that match the hint; every document done that was skipped
is ruled out by its zone map; the phases are in step. `FindsAllMatching` does not
speak of hints, and so needs two facts about the operators: a place the condition holds
for is among the postings its hint names, for every form of hint, and a document the
zone map rules out has no such place. `SubstringsMatch` needs that the trigrams of a text
include those of each of its parts. The maps of an index are written and read by
recursive functions over their keys; the facts about them are inductions, which are
done as "the set of the numbers up to which it holds has no gap" (`UpTo`).

### Only model-checked

* Liveness: `FlatViewsEnd` of `ViewLock`.
* `SelectQuery`: all six. `SqlStages` and `SqlSelect` use recursive operators
  and folds over rows.

## 4. What the models say about the code

Besides the three violations above, these are behaviours of the code that the
models have and that their properties leave out by name, or that were met while
modelling.

*Page file and sessions.*
A reader that is overtaken between its two superblock reads may open a catalog
one commit older than the one committed when it opened the file
(`BoundedStaleness` allows it; the comment at `src/storage.rs:314` speaks of
the old or the new one). A flush whose last sync fails is reported as an error
and undone in memory, but the next process finds it (`DurableCatalog` has it as
a value in doubt). An `UPDATE` that waits for `catalog_commit` while its table
is replaced sets another column, or panics and poisons the lock. `ROLLBACK` in
a session that owns no transaction reverts the statements of the one that does.
A `UNIQUE` column is an ordinary one after the store is opened again, of which
`docs/books/src/reference/sql-ddl.md:21` ("enforce `NOT NULL` and `UNIQUE`") says
nothing. A `SELECT` from two views may read the second as redefined after it read
the first.

*Documents.*
After `vacuum` through the library, a write publishes page numbers of the old
file (`WritesAfterVacuum = TRUE` violates `CatalogReadable`). No run has such
writes, and the proofs assume there are none. After
`replace_document` the stored hash is that of the file as it was indexed, and
`reindex_paths` skips that file if it is found with that content again.

*Files.*
When the directory sync behind a rename fails, `vacuum` returns an error and the
store goes on with the file that no name leads to any more: later commits are
lost. When the new file cannot be opened, the store has no file, and later
statements succeed in memory only. Of two `index` commands on a new store, the
later replaces the store of the earlier. `vacuum` by a hard or symbolic link
replaces that name only, and holds the lock of another; a second process that
is just opening the name may become a second writer, of a file that is then
replaced. Of two migrations at a time the second may overwrite the backup with
the migrated file, or, refused, remove it. The backup is never synced.

*Block tree and write-back.*
A heading `Setup 2` next to a repeated `Setup` has the anchor of the repetition.
A heading without text at the root has the empty anchor, and the blocks under it
those of blocks at the root, so `docs/books/src/reference/sql-schema.md:63`
("Unique within a document") holds for neither. A patch goes to the lines that were
recorded when the file was indexed, whatever the file says by now: `UpdateIsExact`,
`DeleteIsExact` and `InsertIsExact` are about files as indexed (`PatchedFresh`), and
`StaleOnlyWhenKnown` takes an edit from outside as known, so that no property rejects
a patch to the wrong lines after one.
A `depth` in a frontmatter is taken for a heading level by `block_anchors`. A
`DELETE` takes the blank line before the last block of a group with it; in files
without blank lines between blocks it can join their neighbours. Of the rows of one
`INSERT`, one for the end of the file goes behind one for the last block whatever
their order in `VALUES`, unless the file ends with that block: then their order
counts. `InsertIsExact` leaves out the order for which the two cases differ.

*Scans.*
An `IN` list with computed members loses their rows, a `BETWEEN` bound of 2^32
or more wraps and loses rows, a `BETWEEN` that ends before it starts panics even
when its hint is not chosen, and zone maps do not know of the `lang` or `depth`
that a frontmatter sets.

*Select.*
`x IN (SELECT y ...)` never matches a text that spells a number, nor NULL, and a
correlated value that is one changes the truth of a condition; `WhereKeepsTruth`
leaves such values out (`AllSurvive`).
A `LEFT JOIN` whose right side is empty has no columns for it. Folding turns
integral floats into integers. `GROUP BY` merges NULL and the text `NULL`;
`MIN` and `MAX` over NULL depend on the order of rows; `SUM` ignores texts that
spell numbers. `RIGHT`, `FULL` and `USING` joins, and the joins after
a comma, become cross joins. A `UNION` at the top level works, though
`docs/books/src/reference/cte.md:40` says it does not; `ORDER BY` on it has no effect. A recursive
`UNION` does not compare the rows of its anchor with each other, and a recursive
term with `SELECT *` is refused when a round finds no rows.

## 5. What is not modelled

In the modelled parts: `add_*` on an opened store, `load_catalog_only`,
`register_table`, chains of several pages, the in-place catalog of formats
before v8, `NOT NULL` and column types; the name and lock of the temporary file
of a replacement; block types in `SourcePatch` other than headings, text and
rules; hints from expressions and from prefix patterns; `LIKE`, `CASE`, scalar
functions, join keys of type float, `avg`, `group_concat`, subqueries in `ON` and nested `WITH
RECURSIVE`. Outside: the byte layout of blocks and rows in the codecs (what they
preserve is assumed), scoring and dates (floating point, formatting), the
terminal interface, output, search and the mq engine (stateless calls of a
library), the command line's printing, attached stores (read-only copies of
other files), and the server's limits, a layer in front of the shared store.

## 6. Plan

Next, as theorems: the type of `DocumentStore`, and of `SelectQuery` what stands
before the folds: that a `WHERE` keeps the rows it is true of. As models:
`LIKE` patterns against a reference definition, and the fixed windows of the rate
limiter.
