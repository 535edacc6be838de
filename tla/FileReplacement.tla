-------------------------- MODULE FileReplacement --------------------------
(***************************************************************************)
(* Store files as a whole: who may write to one, and how a new file takes  *)
(* the place of an old one (DatabaseLock and reopen_after_replace in       *)
(* src/storage.rs; save_inner, vacuum and migrate in src/store.rs;         *)
(* maybe_migrate and the index command in src/bin/mq-db.rs).               *)
(*                                                                         *)
(* A name of a file leads to an inode or, as a symbolic link, to another   *)
(* name; hard links are names of one inode.  A writer locks the name, then *)
(* the inode the name leads to: an advisory lock of the process, gone when *)
(* the process ends.  vacuum, save and migrate write a new file, rename it *)
(* over the name and sync the directory; until then a power failure may    *)
(* bring the old entry back.  A store is a set of commits; each is on the  *)
(* medium when it is acknowledged (module CatalogCommit).                  *)
(***************************************************************************)
EXTENDS Naturals, FiniteSets

CONSTANTS
  Procs,       \* processes
  Names,       \* file names, each in a directory of its own
  NoProc, NoName,
  Layouts,     \* where the names may lead at first
  MaxInodes,   \* bound on the files ever made
  MaxCommits   \* bound on the commits

VARIABLES
  entry,     \* what each name leads to: an inode, a name, or Absent
  disk,      \* the entries each name may have after a power failure
  content,   \* inode -> its commits, and whether its format is legacy
  pathLock,  \* name -> the process that holds <name>.lock
  inodeLock, \* inode -> the process that holds its sidecar
  proc,      \* what each process is at
  backup,    \* name -> its backup of before a migration
  commits,   \* number of commits
  acked,     \* history: <<name, commit>> acknowledged
  doubt,     \* history: names whose last replacement was broken off
  told,      \* history: names whose migration was reported as done
  raced,     \* history: two processes were migrating at one time
  stray      \* history: names replaced without their lock

files == <<entry, disk, content>>
locks == <<pathLock, inodeLock>>
history == <<acked, doubt, told, raced, stray>>
vars == <<files, locks, proc, backup, commits, history>>

Absent == 0
Inodes == 1..MaxInodes
NoBackup == [docs |-> {}, legacy |-> FALSE]
Original == 0     \* the commit of the files that are there at first

ASSUME NamesAssumption ==
  /\ NoProc \notin Procs /\ NoName \notin Names
  /\ MaxInodes \in Nat /\ MaxCommits \in Nat
  /\ Names \cap (0 .. MaxInodes) = {}

\* A symbolic link leads to a file, not to another link.
ASSUME LayoutsAssumption == \A l \in Layouts :
  /\ l \in [Names -> Names \cup Inodes \cup {Absent}]
  /\ \A n \in Names : l[n] \in Names => l[l[n]] \in Inodes

\* file is the inode the store writes to, ino the inode whose lock it
\* holds, seen the inode that was found before its lock is taken, temp the
\* new file, to the name it is for.
Idle == [pc |-> "idle", for |-> "none", name |-> NoName, to |-> NoName,
         key |-> NoName, seen |-> Absent, ino |-> Absent, file |-> Absent,
         temp |-> Absent, docs |-> {}, failed |-> FALSE]

IsLink(n) == entry[n] \in Names
Resolve(n) == IF IsLink(n) THEN entry[entry[n]] ELSE entry[n]
Canonical(n) == IF IsLink(n) THEN entry[n] ELSE n

\* The process drops its locks.
Release(p) ==
  /\ pathLock' = [n \in Names |->
                    IF pathLock[n] = p THEN NoProc ELSE pathLock[n]]
  /\ inodeLock' = [i \in Inodes |->
                     IF inodeLock[i] = p THEN NoProc ELSE inodeLock[i]]

\* A failed migration takes its backup away.
WithoutBackup(p) ==
  IF proc[p].for = "migrate" /\ proc[p].pc # "copy"
  THEN [backup EXCEPT ![proc[p].name] = NoBackup] ELSE backup

-----------------------------------------------------------------------------
(* Locking: DatabaseLock::acquire.                                         *)

Start(p, for, n, docs) ==
  proc' = [proc EXCEPT ![p] = [Idle EXCEPT !.pc = "path", !.for = for,
             !.name = n, !.to = n, !.key = Canonical(n), !.docs = docs]]

Open(p, n) ==
  /\ proc[p] = Idle
  /\ Start(p, "open", n, {})
  /\ UNCHANGED <<files, locks, backup, commits, history>>

LockPath(p) ==
  /\ proc[p].pc = "path" /\ pathLock[proc[p].key] = NoProc
  /\ pathLock' = [pathLock EXCEPT ![proc[p].key] = p]
  /\ proc' = [proc EXCEPT ![p].pc = "stat"]
  /\ UNCHANGED <<files, inodeLock, backup, commits, history>>

StatInode(p) ==
  /\ proc[p].pc = "stat"
  /\ proc' = [proc EXCEPT ![p].pc = "inode", ![p].seen = Resolve(proc[p].name)]
  /\ UNCHANGED <<files, locks, backup, commits, history>>

\* Mutated form: the lock of the inode is left out.
LockPathOnly(p) ==
  /\ proc[p].pc = "inode"
  /\ proc' = [proc EXCEPT ![p].pc = "locked"]
  /\ UNCHANGED <<files, locks, backup, commits, history>>

\* A file that is not there yet has no inode to lock.
LockInode(p) ==
  /\ proc[p].pc = "inode"
  /\ LET i == proc[p].seen
     IN  /\ i # Absent => inodeLock[i] = NoProc
         /\ inodeLock' = [j \in Inodes |-> IF j = i THEN p ELSE inodeLock[j]]
         /\ proc' = [proc EXCEPT ![p].pc = "locked", ![p].ino = i,
                            ![p].seen = Absent]
  /\ UNCHANGED <<files, pathLock, backup, commits, history>>

IsHeld(p) ==
  \/ proc[p].pc = "path" /\ pathLock[proc[p].key] # NoProc
  \/ proc[p].pc = "inode" /\ proc[p].seen # Absent
       /\ inodeLock[proc[p].seen] # NoProc

\* "database is already open for writing"
Refused(p) ==
  /\ IsHeld(p)
  /\ Release(p)
  /\ backup' = WithoutBackup(p)
  /\ proc' = [proc EXCEPT ![p] = Idle]
  /\ UNCHANGED <<files, commits, history>>

-----------------------------------------------------------------------------
(* A store that is open.                                                   *)

\* Only a file of the current format is opened for writing.
OpenFile(p) ==
  /\ proc[p].pc = "locked" /\ proc[p].for = "open"
  /\ LET i == Resolve(proc[p].name)
     IN  IF i # Absent /\ ~content[i].legacy
         THEN /\ proc' = [proc EXCEPT ![p].pc = "open", ![p].file = i,
                                      ![p].docs = content[i].docs]
              /\ UNCHANGED locks
         ELSE /\ proc' = [proc EXCEPT ![p] = Idle]
              /\ Release(p)
  /\ UNCHANGED <<files, backup, commits, history>>

\* A statement is published in the file that is open.
Commit(p) ==
  /\ proc[p].pc = "open" /\ commits < MaxCommits
  /\ commits' = commits + 1
  /\ content' = [content EXCEPT ![proc[p].file].docs = @ \cup {commits'}]
  /\ proc' = [proc EXCEPT ![p].docs = @ \cup {commits'}]
  /\ acked' =
       IF \/ proc[p].failed
          \/ \E n \in doubt \cup stray :
               n \in {proc[p].name, Canonical(proc[p].name)}
       THEN acked ELSE acked \cup {<<proc[p].name, commits'>>}
  /\ UNCHANGED <<entry, disk, locks, backup, doubt, told, raced, stray>>

\* After a vacuum that could not open the new file the store has no file.
CommitInMemory(p) ==
  /\ proc[p].pc = "memory" /\ commits < MaxCommits
  /\ commits' = commits + 1
  /\ proc' = [proc EXCEPT ![p].docs = @ \cup {commits'}]
  /\ UNCHANGED <<files, locks, backup, history>>

\* vacuum, given a name that leads to the file the store was opened from.
Vacuum(p, n) ==
  /\ proc[p].pc = "open" /\ Resolve(n) = Resolve(proc[p].name)
  /\ proc' = [proc EXCEPT ![p].pc = "build", ![p].for = "vacuum", ![p].to = n]
  /\ UNCHANGED <<files, locks, backup, commits, history>>

-----------------------------------------------------------------------------
(* New stores and legacy stores.                                           *)

\* The index command, where there is no file yet ...
IndexNew(p, n) ==
  /\ proc[p] = Idle /\ Resolve(n) = Absent /\ commits < MaxCommits
  /\ commits' = commits + 1
  /\ proc' = [proc EXCEPT ![p] = [Idle EXCEPT !.pc = "new", !.name = n,
                                              !.docs = {commits'}]]
  /\ UNCHANGED <<files, locks, backup, history>>

\* ... saves the store when its files are indexed.
Save(p) ==
  /\ proc[p].pc = "new"
  /\ Start(p, "save", proc[p].name, proc[p].docs)
  /\ UNCHANGED <<files, locks, backup, commits, history>>

\* maybe_migrate: the file is of a legacy format, and there is no backup.
Offer(p, n) ==
  /\ proc[p] = Idle /\ Resolve(n) # Absent
  /\ content[Resolve(n)].legacy /\ backup[n] = NoBackup
  /\ proc' = [proc EXCEPT ![p] = [Idle EXCEPT !.pc = "copy", !.name = n,
                                              !.for = "migrate"]]
  /\ raced' = (raced \/ \E q \in Procs : proc[q].for = "migrate")
  /\ UNCHANGED <<files, locks, backup, commits, acked, doubt, told, stray>>

\* Mutated form: the backup is left to a later step.
CopyBackupLater(p) ==
  /\ proc[p].pc = "copy"
  /\ Start(p, "migrate", proc[p].name, {})
  /\ UNCHANGED <<files, locks, backup, commits, history>>

CopyBackup(p) ==
  /\ proc[p].pc = "copy"
  /\ backup' = [backup EXCEPT ![proc[p].name] = content[Resolve(proc[p].name)]]
  /\ Start(p, "migrate", proc[p].name, {})
  /\ UNCHANGED <<files, locks, commits, history>>

\* migrate reads the file under the lock.
ReadLegacy(p) ==
  /\ proc[p].pc = "locked" /\ proc[p].for = "migrate"
  /\ LET store == content[Resolve(proc[p].name)]
     IN  IF store.legacy
         THEN /\ proc' = [proc EXCEPT ![p].pc = "build",
                                      ![p].docs = store.docs]
              /\ UNCHANGED <<locks, told>>
         ELSE /\ proc' = [proc EXCEPT ![p] = Idle]
              /\ Release(p)
              /\ told' = told \cup {proc[p].name}
  /\ UNCHANGED <<files, backup, commits, acked, doubt, raced, stray>>

-----------------------------------------------------------------------------
(* Replacing a file: save_inner.                                           *)

\* <name>.tmp is written from memory and synced, and its inode locked.
Build(p) ==
  /\ \/ proc[p].pc = "build"
     \/ proc[p].pc = "locked" /\ proc[p].for = "save"
  /\ \E i \in Inodes :
       /\ i \notin DOMAIN content
       /\ \A j \in Inodes : j < i => j \in DOMAIN content
       /\ content' = [j \in DOMAIN content \cup {i} |->
                        IF j = i THEN [docs |-> proc[p].docs, legacy |-> FALSE]
                        ELSE content[j]]
       /\ inodeLock' = [inodeLock EXCEPT ![i] = p]
       /\ proc' = [proc EXCEPT ![p].pc = "rename", ![p].temp = i]
  /\ UNCHANGED <<entry, disk, pathLock, backup, commits, history>>

\* The operation ends with an error: vacuum's store goes on as it was.
Fail(p, failed) ==
  IF proc[p].for = "vacuum"
  THEN /\ proc' = [proc EXCEPT ![p].pc = "open", ![p].for = "open",
                     ![p].temp = Absent, ![p].to = proc[p].name,
                     ![p].failed = failed]
       /\ inodeLock' = [i \in Inodes |-> IF i = proc[p].temp THEN NoProc
                                         ELSE inodeLock[i]]
       /\ UNCHANGED <<pathLock, backup>>
  ELSE /\ proc' = [proc EXCEPT ![p] = Idle]
       /\ Release(p)
       /\ backup' = WithoutBackup(p)

BuildFails(p) ==
  /\ proc[p].pc = "rename"
  /\ Fail(p, proc[p].failed)
  /\ UNCHANGED <<files, commits, history>>

\* A symbolic link is itself replaced, not what it leads to.  A saved store
\* takes the place of what the name holds.
Rename(p) ==
  /\ proc[p].pc = "rename"
  /\ entry' = [entry EXCEPT ![proc[p].to] = proc[p].temp]
  /\ disk' = [disk EXCEPT ![proc[p].to] = @ \cup {proc[p].temp}]
  /\ proc' = [proc EXCEPT ![p].pc = "sync"]
  /\ acked' = {a \in acked : proc[p].for = "save" =>
                               proc[p].to \notin {a[1], Canonical(a[1])}}
  /\ stray' = IF proc[p].to = proc[p].key THEN stray
              ELSE stray \cup {proc[p].to}
  /\ UNCHANGED <<content, locks, backup, commits, doubt, told, raced>>

\* What a replacement that is done acknowledges.
AckedBy(p) ==
  IF proc[p].for # "save" THEN acked
  ELSE acked \cup {<<proc[p].to, c>> : c \in proc[p].docs}

Done(p) ==
  IF proc[p].for = "vacuum"
  THEN /\ proc' = [proc EXCEPT ![p].pc = "reopen"]
       /\ UNCHANGED locks
  ELSE /\ proc' = [proc EXCEPT ![p] = Idle]
       /\ Release(p)

\* Mutated form: the directory is not synced.
SyncDirectorySkipped(p) ==
  /\ proc[p].pc = "sync"
  /\ Done(p)
  /\ acked' = AckedBy(p)
  /\ told' = IF proc[p].for = "migrate" THEN told \cup {proc[p].to} ELSE told
  /\ UNCHANGED <<files, backup, commits, doubt, raced, stray>>

SyncDirectory(p) ==
  /\ proc[p].pc = "sync"
  /\ disk' = [disk EXCEPT ![proc[p].to] = {entry[proc[p].to]}]
  /\ Done(p)
  /\ acked' = AckedBy(p)
  /\ doubt' = doubt \ {proc[p].to}
  /\ told' = IF proc[p].for = "migrate" THEN told \cup {proc[p].to} ELSE told
  /\ UNCHANGED <<entry, content, backup, commits, raced, stray>>

\* An error although the new file is in place: a store that is vacuumed
\* keeps writing to the old one.
SyncFails(p) ==
  /\ proc[p].pc = "sync"
  /\ Fail(p, TRUE)
  /\ doubt' = doubt \cup {proc[p].to}
  /\ UNCHANGED <<files, commits, acked, told, raced, stray>>

\* Mutated form: the store keeps the file it had open.
ReopenOld(p) ==
  /\ proc[p].pc = "reopen"
  /\ inodeLock' = [i \in Inodes |-> IF i = proc[p].temp THEN NoProc
                                    ELSE inodeLock[i]]
  /\ proc' = [proc EXCEPT ![p].pc = "open", ![p].for = "open",
                          ![p].temp = Absent]
  /\ UNCHANGED <<files, pathLock, backup, commits, history>>

\* Mutated form: the lock of the new inode is not taken over.
ReopenUnlocked(p) ==
  /\ proc[p].pc = "reopen"
  /\ LET s == proc[p]
     IN  /\ inodeLock' = [i \in Inodes |->
                            IF inodeLock[i] = p THEN NoProc ELSE inodeLock[i]]
         /\ proc' = [proc EXCEPT ![p] =
              [s EXCEPT !.pc = "open", !.for = "open", !.file = Resolve(s.to),
                        !.ino = Absent, !.temp = Absent, !.name = s.to]]
  /\ UNCHANGED <<files, pathLock, backup, commits, history>>

\* reopen_after_replace: the lock of the new inode takes the place of the
\* old one's, under the lock of the name the store was opened by.
Reopen(p) ==
  /\ proc[p].pc = "reopen"
  /\ LET s == proc[p]
     IN  /\ inodeLock' = [i \in Inodes |->
                            IF inodeLock[i] = p /\ i # s.temp THEN NoProc
                            ELSE inodeLock[i]]
         /\ proc' = [proc EXCEPT ![p] =
              [s EXCEPT !.pc = "open", !.for = "open", !.file = Resolve(s.to),
                        !.ino = s.temp, !.temp = Absent, !.name = s.to]]
  /\ UNCHANGED <<files, pathLock, backup, commits, history>>

ReopenFails(p) ==
  /\ proc[p].pc = "reopen"
  /\ Release(p)
  /\ proc' = [proc EXCEPT ![p] = [Idle EXCEPT !.pc = "memory",
                                              !.name = proc[p].to,
                                              !.docs = proc[p].docs]]
  /\ UNCHANGED <<files, backup, commits, history>>

-----------------------------------------------------------------------------
\* The process closes its store, or is killed, at any point.
ProcessEnds(p) ==
  /\ proc[p] # Idle
  /\ Release(p)
  /\ proc' = [proc EXCEPT ![p] = Idle]
  /\ doubt' = IF proc[p].pc = "sync" THEN doubt \cup {proc[p].to} ELSE doubt
  /\ UNCHANGED <<files, backup, commits, acked, told, raced, stray>>

\* Somebody makes a hard link, of a name that no process is about to open.
Link(n, m) ==
  /\ entry[n] = Absent /\ entry[m] \in Inodes
  /\ \A p \in Procs : proc[p].name # n
  /\ entry' = [entry EXCEPT ![n] = entry[m]]
  /\ disk' = [disk EXCEPT ![n] = {entry[m]}]
  /\ UNCHANGED <<content, locks, proc, backup, commits, history>>

\* A backup is not synced: it may be lost.
PowerFailure ==
  /\ entry' \in {e \in [Names -> UNION {disk[n] : n \in Names}] :
                   \A n \in Names : e[n] \in disk[n]}
  /\ disk' = [n \in Names |-> {entry'[n]}]
  /\ proc' = [p \in Procs |-> Idle]
  /\ pathLock' = [n \in Names |-> NoProc]
  /\ inodeLock' = [i \in Inodes |-> NoProc]
  /\ backup' \in {b \in [Names -> {backup[n] : n \in Names} \cup {NoBackup}] :
                   \A n \in Names : b[n] \in {backup[n], NoBackup}}
  /\ doubt' = {} /\ told' = {}
  /\ UNCHANGED <<content, commits, acked, raced, stray>>

Init ==
  /\ entry \in Layouts
  /\ disk = [n \in Names |-> {entry[n]}]
  /\ content \in [{entry[n] : n \in Names} \cap Inodes ->
                    [docs : {{Original}}, legacy : BOOLEAN]]
  /\ pathLock = [n \in Names |-> NoProc]
  /\ inodeLock = [i \in Inodes |-> NoProc]
  /\ proc = [p \in Procs |-> Idle]
  /\ backup = [n \in Names |-> NoBackup]
  /\ commits = 0
  /\ acked = {<<n, Original>> : n \in {m \in Names : Resolve(m) # Absent}}
  /\ doubt = {} /\ told = {} /\ raced = FALSE /\ stray = {}

Step(p) ==
  \/ \E n \in Names :
       Open(p, n) \/ Vacuum(p, n) \/ IndexNew(p, n) \/ Offer(p, n)
  \/ LockPath(p) \/ StatInode(p) \/ LockInode(p) \/ Refused(p)
  \/ OpenFile(p) \/ Commit(p) \/ CommitInMemory(p) \/ Save(p)
  \/ CopyBackup(p) \/ ReadLegacy(p)
  \/ Build(p) \/ BuildFails(p) \/ Rename(p) \/ SyncDirectory(p) \/ SyncFails(p)
  \/ Reopen(p) \/ ReopenFails(p) \/ ProcessEnds(p)

Next ==
  \/ \E p \in Procs : Step(p)
  \/ \E n, m \in Names : Link(n, m)
  \/ PowerFailure

Spec == Init /\ [][Next]_vars

-----------------------------------------------------------------------------
(* Properties.                                                             *)

\* What a process can be at.
Process ==
  [pc : {"idle", "path", "stat", "inode", "locked", "open", "memory", "new",
         "copy", "build", "rename", "sync", "reopen"},
   for : {"none", "open", "save", "migrate", "vacuum"},
   name : Names \cup {NoName}, to : Names \cup {NoName},
   key : Names \cup {NoName},
   seen : Inodes \cup {Absent}, ino : Inodes \cup {Absent},
   file : Inodes \cup {Absent}, temp : Inodes \cup {Absent},
   docs : SUBSET (0 .. MaxCommits), failed : BOOLEAN]

Stores == [docs : SUBSET (0 .. MaxCommits), legacy : BOOLEAN]

(* Every variable holds a value of its declared range.                     *)
TypeOK ==
  /\ entry \in [Names -> Names \cup Inodes \cup {Absent}]
  /\ disk \in [Names -> SUBSET (Names \cup Inodes \cup {Absent})]
  /\ DOMAIN content \subseteq Inodes /\ content \in [DOMAIN content -> Stores]
  /\ pathLock \in [Names -> Procs \cup {NoProc}]
  /\ inodeLock \in [Inodes -> Procs \cup {NoProc}]
  /\ proc \in [Procs -> Process]
  /\ backup \in [Names -> Stores]
  /\ commits \in 0 .. MaxCommits
  /\ acked \subseteq Names \X (0 .. MaxCommits)
  /\ doubt \subseteq Names /\ told \subseteq Names /\ stray \subseteq Names
  /\ raced \in BOOLEAN

\* The files that a name may lead to, now and after a power failure.
MayLeadTo(n) ==
  {Resolve(n)} \cup
    UNION {IF e \in Names THEN disk[e] ELSE {e} : e \in disk[n]}

IsWriter(p) == proc[p].file # Absent

(* No two processes have a store open for writing on one file, by whatever *)
(* names: "hard-link aliases (different paths, same inode) still contend   *)
(* for one lock" (DatabaseLock).  Left out are stores opened by a name, or *)
(* under the lock of a name, that was replaced by a process without that   *)
(* lock: a second hard link given to vacuum, or a symbolic link, whose     *)
(* lock is that of the name it leads to.  A second process may then be     *)
(* between finding the old inode and locking it.                           *)
SingleWriter ==
  \A p, q \in Procs :
    /\ p # q /\ IsWriter(p) /\ IsWriter(q)
    /\ {proc[p].name, proc[p].key, proc[q].name, proc[q].key} \cap stray = {}
    => proc[p].file # proc[q].file

(* What a store has acknowledged under a name is found under that name,    *)
(* through vacuums, migrations, crashes at any step of a replacement and   *)
(* power failures (save_inner, reopen_after_replace).  A save replaces     *)
(* what it overwrites: from its rename on it is the documents it saved     *)
(* that count, once it reports success.  No commit counts that was made by *)
(* a store whose vacuum failed behind the rename, or under a name whose    *)
(* replacement was broken off before the directory was synced; and of a    *)
(* name that was replaced without its lock (see SingleWriter), or leads to *)
(* such a name, nothing is said.                                           *)
AcknowledgedSurvive ==
  \A a \in {b \in acked : {b[1], Canonical(b[1])} \cap stray = {}} :
    \A i \in MayLeadTo(a[1]) : i # Absent /\ a[2] \in content[i].docs

(* "the original file backed up" (maybe_migrate): after a migration was    *)
(* reported as done, the backup is the file as it was, until the machine   *)
(* loses power and unless a second process was migrating at the same time. *)
BackupIsOriginal ==
  \A n \in told : ~raced => backup[n] = [docs |-> {Original}, legacy |-> TRUE]
=============================================================================
