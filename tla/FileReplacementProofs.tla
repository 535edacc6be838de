----------------------- MODULE FileReplacementProofs -----------------------
(***************************************************************************)
(* Proofs about module FileReplacement, in three layers:                   *)
(*   LockInv    who holds which lock, and that an inode locked by its name *)
(*              stays the one the name leads to;                           *)
(*   AckInv     who locked a name has read all that was acknowledged under *)
(*              it, and the file that replaces it is out of reach until    *)
(*              its rename;                                                *)
(*   BackupInv  a migration copies the original and has the backup from    *)
(*              then on.                                                   *)
(* Each is inductive with the ones before it.                              *)
(***************************************************************************)
EXTENDS FileReplacement, TLAPS

-----------------------------------------------------------------------------
(* The inductive invariant of the locks.                                   *)

(* The process is locking a name, or has locked it. *)
Keyed(p) == proc[p].pc \notin {"idle", "new", "copy", "memory"}
Held(p) == Keyed(p) /\ proc[p].pc # "path"

(* Neither the name a store was opened by nor the one that is locked has   *)
(* been replaced by a process without its lock.                            *)
Clean(p) == proc[p].name \notin stray /\ proc[p].key \notin stray

(* Which fields are in use in each phase. *)
Phase(p) ==
  LET s == proc[p] IN
  /\ s.pc \in {"idle", "memory"} => s.for = "none"
  /\ s.pc = "new" => s.for = "none" /\ s.name \in Names
  /\ s.pc = "copy" => s.for = "migrate" /\ s.name \in Names
  /\ s.pc \in {"path", "stat", "inode", "locked"} =>
       s.for \in {"open", "save", "migrate"}
  /\ s.pc = "open" => s.for = "open"
  /\ s.pc = "build" => s.for \in {"migrate", "vacuum"}
  /\ s.pc \in {"rename", "sync"} => s.for \in {"save", "migrate", "vacuum"}
  /\ s.pc = "reopen" => s.for = "vacuum"
  /\ Keyed(p) => /\ s.name \in Names /\ s.key \in Names /\ s.to \in Names
                 /\ s.for = "vacuum" \/ s.to = s.name
  /\ s.seen # Absent => s.pc = "inode"
  /\ s.ino # Absent => Keyed(p) /\ s.pc \notin {"path", "stat", "inode"}
  /\ s.file # Absent <=> s.for = "vacuum" \/ s.pc = "open"
  /\ s.temp # Absent <=> s.pc \in {"rename", "sync", "reopen"}

(* Only files that were made are found, locked and written. *)
Made(p) ==
  {proc[p].seen, proc[p].ino, proc[p].file, proc[p].temp}
    \subseteq DOMAIN content \cup {Absent}

(* What is migrated is there. *)
Leads(p) == proc[p].for = "migrate" => Resolve(proc[p].name) # Absent

(* The lock of a name is that of the file it leads to. *)
KeyOfName(p) ==
  Keyed(p) => /\ entry[proc[p].key] \notin Names
              /\ \/ Canonical(proc[p].name) = proc[p].key
                 \/ proc[p].name \in stray /\ entry[proc[p].name] \notin Names

(* What a process has locked. *)
HasLocks(p) ==
  LET s == proc[p] IN
  /\ Held(p) => pathLock[s.key] = p
  /\ s.ino # Absent => inodeLock[s.ino] = p
  /\ s.temp # Absent => inodeLock[s.temp] = p /\ s.temp # s.ino
  /\ Clean(p) /\ s.file # Absent => s.file = s.ino

(* The inode that was found is still the one its name leads to. *)
Found(p) ==
  LET s == proc[p] IN Clean(p) =>
    /\ s.pc = "inode" => s.seen = Resolve(s.name)
    /\ s.pc = "locked" => s.ino = Resolve(s.name)

(* A name that was replaced leads to a file, under its lock to the new one. *)
Replaced(p) ==
  LET s == proc[p] IN s.pc \in {"sync", "reopen"} =>
    /\ entry[s.to] \in DOMAIN content
    /\ s.to \notin stray => s.to = s.key /\ entry[s.to] = s.temp

(* Names lead to files that were made, links to files that are there. *)
FilesMade ==
  /\ \A n \in Names : /\ entry[n] \in disk[n]
                      /\ disk[n] \subseteq Names \cup DOMAIN content \cup {Absent}
                      /\ \A e \in disk[n] \cap Names : disk[e] \subseteq DOMAIN content
  /\ \A i \in Inodes : inodeLock[i] # NoProc => i \in DOMAIN content

Fine(p) ==
  /\ Phase(p) /\ Made(p) /\ Leads(p) /\ KeyOfName(p) /\ HasLocks(p) /\ Found(p)
  /\ Replaced(p)

LockInv == TypeOK /\ FilesMade /\ \A p \in Procs : Fine(p)

-----------------------------------------------------------------------------
(* The inductive invariant of what was acknowledged.                       *)

(* No name becomes a link, and no link leads elsewhere, without being      *)
(* replaced under another name's lock.                                     *)
StableLinks ==
  \A n \in Names \ stray : disk[n] \cap Names = {} \/ disk[n] = {entry[n]}

(* A name whose entry was not synced is in doubt or about to be synced. *)
Unsynced ==
  \A n \in Names : \/ disk[n] = {entry[n]} \/ n \in doubt
                   \/ \E p \in Procs : proc[p].pc = "sync" /\ proc[p].to = n

(* The process has read all that is acknowledged under the name it locked. *)
KnowsAll(p) ==
  \A a \in acked : a[1] \notin stray /\ Canonical(a[1]) = proc[p].key =>
                     a[2] \in proc[p].docs

Knows(p) ==
  LET s == proc[p] IN s.key \notin stray =>
    /\ s.file # Absent => KnowsAll(p) \/ Resolve(s.name) # entry[s.key]
    /\ s.pc \in {"build", "rename", "sync", "reopen"} =>
         s.for = "save" \/ s.to # s.key \/ KnowsAll(p)
    /\ s.pc \in {"sync", "reopen"} => s.to = s.key \/ entry[s.to] # entry[s.key]

(* The file whose lock is taken over from a link is there. *)
KeyThere(p) ==
  LET s == proc[p] IN
  Keyed(p) /\ (s.file # Absent \/ s.name # s.key) => entry[s.key] # Absent

(* The new file holds what the process knows, and no name leads to it yet. *)
Written(p) ==
  LET s == proc[p] IN
  /\ s.temp # Absent => s.docs \subseteq content[s.temp].docs
  /\ s.pc = "rename" => \A n \in Names : s.temp \notin disk[n]

(* A store whose commits are acknowledged writes where its name leads. *)
Steady(p) ==
  LET s == proc[p] IN
  s.pc \in {"open", "build", "rename"} /\ s.file # Absent /\ ~s.failed /\ Clean(p)
    => s.file = Resolve(s.name)

Sure(p) == Knows(p) /\ KeyThere(p) /\ Written(p) /\ Steady(p)

AckInv ==
  /\ StableLinks /\ Unsynced /\ AcknowledgedSurvive
  /\ \A p \in Procs : Sure(p)

-----------------------------------------------------------------------------
(* The inductive invariant of backups. *)

OriginalBackup == [docs |-> {Original}, legacy |-> TRUE]

(* The name leads to a file of the current format. *)
Current(n) == Resolve(n) # Absent /\ ~content[Resolve(n)].legacy

(* What a process works on is of the format it takes it for. *)
Known(p) ==
  LET s == proc[p] IN
  /\ s.file # Absent => ~content[s.file].legacy /\ Current(s.name) /\ Current(s.to)
  /\ s.temp # Absent => ~content[s.temp].legacy
  /\ s.pc = "new" \/ s.for = "save" => Resolve(s.name) = Absent \/ Current(s.name)
  /\ ~raced /\ s.pc = "copy" =>
       Resolve(s.name) # Absent /\ content[Resolve(s.name)].legacy

(* Legacy files are as they were at first. *)
LegacyIsOriginal ==
  \A i \in DOMAIN content : content[i].legacy => content[i].docs = {Original}

FormatsKnown == LegacyIsOriginal /\ \A p \in Procs : Known(p)

(* One process at a time migrates, and has the backup of what it migrates. *)
Migrating ==
  ~raced =>
    /\ \A p, q \in Procs :
         proc[p].for = "migrate" /\ proc[q].for = "migrate" => p = q
    /\ \A p \in Procs : proc[p].for = "migrate" =>
         /\ proc[p].name \notin told
         /\ proc[p].pc # "copy" => backup[proc[p].name] = OriginalBackup
    /\ \A n \in told : backup[n] = OriginalBackup

BackupInv == FormatsKnown /\ Migrating

-----------------------------------------------------------------------------
(* Processes as values.                                                    *)

LEMMA AbsentIs == Absent \notin Inodes /\ Absent \notin Names /\ Inodes \cap Names = {}
BY NamesAssumption DEF Absent, Inodes

(* A process that does nothing. *)
LEMMA IdleIs ==
  /\ Idle \in Process
  /\ Idle = [pc |-> Idle.pc, for |-> Idle.for, name |-> Idle.name,
             to |-> Idle.to, key |-> Idle.key, seen |-> Idle.seen,
             ino |-> Idle.ino, file |-> Idle.file, temp |-> Idle.temp,
             docs |-> Idle.docs, failed |-> Idle.failed]
  /\ Idle.pc = "idle" /\ Idle.for = "none" /\ Idle.name = NoName
  /\ Idle.to = NoName /\ Idle.key = NoName /\ Idle.seen = Absent
  /\ Idle.ino = Absent /\ Idle.file = Absent /\ Idle.temp = Absent
  /\ Idle.docs = {}
BY DEF Idle, Process

(* A process that begins to lock the file of name n. *)
LEMMA StartIs ==
  ASSUME TypeOK, NEW p, NEW for, NEW n, NEW docs, Start(p, for, n, docs),
         p \in Procs, for \in {"open", "save", "migrate"}, n \in Names,
         Canonical(n) \in Names, docs \subseteq 0 .. MaxCommits
  PROVE /\ proc' \in [Procs -> Process]
        /\ \A q \in Procs \ {p} : proc'[q] = proc[q]
        /\ proc'[p].pc = "path" /\ proc'[p].for = for /\ proc'[p].name = n
        /\ proc'[p].to = n /\ proc'[p].key = Canonical(n)
        /\ proc'[p].seen = Absent /\ proc'[p].ino = Absent
        /\ proc'[p].file = Absent /\ proc'[p].temp = Absent
        /\ proc'[p].docs = docs
<1> DEFINE k == Canonical(n)
           st == [Idle EXCEPT !.pc = "path", !.for = for, !.name = n, !.to = n,
                              !.key = k, !.docs = docs]
<1>1. proc' = [proc EXCEPT ![p] = st]
  BY DEF Start
<1> HIDE DEF k
<1>2. st \in Process
  BY IdleIs DEF Process, k
<1>3. /\ st.pc = "path" /\ st.for = for /\ st.name = n /\ st.to = n /\ st.key = k
      /\ st.seen = Absent /\ st.ino = Absent /\ st.file = Absent
      /\ st.temp = Absent /\ st.docs = docs
  BY IdleIs
<1> HIDE DEF st
<1>4. /\ proc' \in [Procs -> Process] /\ proc'[p] = st
      /\ \A q \in Procs \ {p} : proc'[q] = proc[q]
  BY <1>1, <1>2 DEF TypeOK
<1>5. QED  BY <1>3, <1>4 DEF k

(* A process that does nothing, or has a store in memory only. *)
LEMMA RestingFine ==
  ASSUME NEW p \in Procs,
         proc'[p].pc \in {"idle", "memory", "new", "copy"},
         proc'[p].for = IF proc'[p].pc = "copy" THEN "migrate" ELSE "none",
         proc'[p].pc \in {"new", "copy"} => proc'[p].name \in Names,
         proc'[p].seen = Absent, proc'[p].ino = Absent,
         proc'[p].file = Absent, proc'[p].temp = Absent, Leads(p)'
  PROVE Fine(p)'
BY DEF Fine, Phase, Made, KeyOfName, HasLocks, Found, Replaced, Keyed, Held

(* The locks when a process drops its own. *)
LEMMA ReleaseIs ==
  ASSUME TypeOK, NEW p \in Procs, Release(p)
  PROVE /\ pathLock' \in [Names -> Procs \cup {NoProc}]
        /\ inodeLock' \in [Inodes -> Procs \cup {NoProc}]
        /\ \A q \in Procs \ {p} :
             /\ \A n \in Names : pathLock[n] = q => pathLock'[n] = q
             /\ \A i \in Inodes : inodeLock[i] = q => inodeLock'[i] = q
        /\ \A i \in Inodes : inodeLock'[i] # NoProc => inodeLock'[i] = inodeLock[i]
BY NamesAssumption DEF TypeOK, Release

-----------------------------------------------------------------------------
(* Steps that leave the names alone. *)

Quiet(p) ==
  /\ UNCHANGED <<entry, stray>>
  /\ \A n \in Names : disk'[n] \in {disk[n], {entry[n]}}
  /\ DOMAIN content \subseteq DOMAIN content'
  /\ \A q \in Procs \ {p} :
       /\ proc'[q] = proc[q]
       /\ \A n \in Names : pathLock[n] = q => pathLock'[n] = q
       /\ \A i \in Inodes : inodeLock[i] = q => inodeLock'[i] = q
  /\ \A i \in Inodes : inodeLock'[i] # NoProc =>
       inodeLock'[i] = inodeLock[i] \/ i \in DOMAIN content'

LEMMA QuietOthers ==
  ASSUME LockInv, NEW p \in Procs, Quiet(p), NEW q \in Procs \ {p}
  PROVE Fine(q)'
<1>1. /\ UNCHANGED <<entry, stray>> /\ DOMAIN content \subseteq DOMAIN content'
      /\ proc'[q] = proc[q]
      /\ \A n \in Names : pathLock[n] = q => pathLock'[n] = q
      /\ \A i \in Inodes : inodeLock[i] = q => inodeLock'[i] = q
  BY DEF Quiet
<1>2. Fine(q) /\ TypeOK /\ proc[q] \in Process
  BY DEF LockInv, TypeOK
<1>3. Phase(q)' /\ Made(q)'
  BY <1>1, <1>2 DEF Fine, Phase, Made, Keyed
<1>4. Leads(q)' /\ KeyOfName(q)' /\ Found(q)' /\ Replaced(q)'
  BY <1>1, <1>2 DEF Fine, Leads, KeyOfName, Found, Replaced, Keyed, Clean, Canonical,
                    Resolve, IsLink
<1>5. HasLocks(q)'
  <2>1. /\ Held(q) => proc[q].key \in Names
        /\ proc[q].ino \in Inodes \cup {Absent} /\ proc[q].temp \in Inodes \cup {Absent}
    BY <1>2 DEF Fine, Phase, Held, Process
  <2>2. QED  BY <1>1, <1>2, <2>1 DEF Fine, HasLocks, Held, Keyed, Clean
<1>6. QED  BY <1>3, <1>4, <1>5 DEF Fine

LEMMA QuietKeeps ==
  ASSUME LockInv, NEW p \in Procs, Quiet(p), TypeOK', Fine(p)'
  PROVE LockInv'
<1>1. \A q \in Procs : Fine(q)'
  BY QuietOthers
<1>2. FilesMade'
  <2>1. /\ UNCHANGED entry /\ DOMAIN content \subseteq DOMAIN content'
        /\ \A n \in Names : disk'[n] \in {disk[n], {entry[n]}}
        /\ \A i \in Inodes : inodeLock'[i] # NoProc =>
             inodeLock'[i] = inodeLock[i] \/ i \in DOMAIN content'
    BY DEF Quiet
  <2>2. FilesMade
    BY DEF LockInv
  <2>3. \A n \in Names : entry[n] \in disk[n] /\ disk'[n] \subseteq disk[n]
    BY <2>1, <2>2 DEF FilesMade
  <2>4. QED  BY <2>1, <2>2, <2>3 DEF FilesMade
<1>3. QED  BY <1>1, <1>2 DEF LockInv

(* Where a name leads. *)
LEMMA LinksLead ==
  ASSUME TypeOK, FilesMade, NEW n \in Names
  PROVE /\ Canonical(n) \in Names /\ entry[Canonical(n)] \notin Names
        /\ Resolve(n) = entry[Canonical(n)]
        /\ Resolve(n) \in DOMAIN content \cup {Absent}
        /\ Resolve(n) \in Inodes \cup {Absent}
<1>1. DOMAIN content \subseteq Inodes
  BY DEF TypeOK
<1>2. CASE entry[n] \in Names
  <2>1. entry[n] \in disk[n] \cap Names /\ entry[entry[n]] \in disk[entry[n]]
    BY <1>2 DEF FilesMade
  <2>2. entry[entry[n]] \in DOMAIN content
    BY <2>1 DEF FilesMade
  <2>3. QED  BY <1>1, <1>2, <2>2, AbsentIs DEF Canonical, Resolve, IsLink
<1>3. CASE entry[n] \notin Names
  <2>1. entry[n] \in DOMAIN content \cup {Absent}
    BY <1>3 DEF FilesMade
  <2>2. QED  BY <1>1, <1>3, <2>1 DEF Canonical, Resolve, IsLink
<1>4. QED  BY <1>2, <1>3

-----------------------------------------------------------------------------
(* The steps of a process that locks a name and its file. *)

(* A process is about to lock. *)
LEMMA StartKeeps ==
  ASSUME LockInv, NEW p \in Procs, NEW for \in {"open", "save", "migrate"},
         NEW n \in Names, NEW docs \in SUBSET (0 .. MaxCommits),
         Start(p, for, n, docs), for = "migrate" => Resolve(n) # Absent,
         backup' \in [Names -> Stores],
         UNCHANGED <<files, locks, commits, history>>
  PROVE LockInv'
<1>1. /\ UNCHANGED <<entry, disk, content, pathLock, inodeLock, commits>>
      /\ UNCHANGED <<acked, doubt, told, raced, stray>>
  BY DEF files, locks, history
<1>2. TypeOK /\ FilesMade
  BY DEF LockInv
<1>3. Canonical(n) \in Names /\ entry[Canonical(n)] \notin Names
  BY <1>2, LinksLead
<1>4. /\ proc' \in [Procs -> Process]
      /\ \A q \in Procs \ {p} : proc'[q] = proc[q]
      /\ proc'[p].pc = "path" /\ proc'[p].for = for /\ proc'[p].name = n
      /\ proc'[p].to = n /\ proc'[p].key = Canonical(n)
      /\ proc'[p].seen = Absent /\ proc'[p].ino = Absent
      /\ proc'[p].file = Absent /\ proc'[p].temp = Absent
  BY <1>2, <1>3, StartIs, ZenonT(60)
<1>5. TypeOK'
  BY <1>1, <1>2, <1>4 DEF TypeOK
<1>6. Canonical(n)' = Canonical(n)
  BY <1>1 DEF Canonical, IsLink
<1>7. Fine(p)'
  <2>1. Leads(p)'
    BY <1>1, <1>4 DEF Leads, Resolve, IsLink
  <2>2. QED
    BY <1>1, <1>3, <1>4, <1>6, <2>1 DEF Fine, Phase, Made, KeyOfName, HasLocks, Found,
                                        Replaced, Keyed, Held
<1>8. Quiet(p)
  BY <1>1, <1>4 DEF Quiet
<1>9. QED  BY <1>5, <1>7, <1>8, QuietKeeps

LEMMA LockPathKeeps ==
  ASSUME LockInv, NEW p \in Procs, LockPath(p)
  PROVE LockInv'
<1>1. /\ proc[p].pc = "path" /\ pathLock[proc[p].key] = NoProc
      /\ pathLock' = [pathLock EXCEPT ![proc[p].key] = p]
      /\ proc' = [proc EXCEPT ![p].pc = "stat"]
      /\ UNCHANGED <<entry, disk, content, inodeLock, backup, commits>>
      /\ UNCHANGED <<acked, doubt, told, raced, stray>>
  BY DEF LockPath, files, history
<1>2. TypeOK /\ Fine(p) /\ proc[p] \in Process /\ proc[p].key \in Names
  BY <1>1 DEF LockInv, TypeOK, Fine, Phase, Keyed
<1>3. /\ proc' \in [Procs -> Process]
      /\ \A q \in Procs \ {p} : proc'[q] = proc[q]
      /\ proc'[p].pc = "stat" /\ proc'[p].for = proc[p].for
      /\ proc'[p].name = proc[p].name /\ proc'[p].to = proc[p].to
      /\ proc'[p].key = proc[p].key /\ proc'[p].seen = proc[p].seen
      /\ proc'[p].ino = proc[p].ino /\ proc'[p].file = proc[p].file
      /\ proc'[p].temp = proc[p].temp
  BY <1>1, <1>2 DEF TypeOK, Process
<1>4. /\ pathLock' \in [Names -> Procs \cup {NoProc}]
      /\ pathLock'[proc[p].key] = p
      /\ \A q \in Procs, n \in Names : pathLock[n] = q => pathLock'[n] = q
  BY <1>1, <1>2, NamesAssumption DEF TypeOK
<1>5. TypeOK'
  BY <1>1, <1>2, <1>3, <1>4 DEF TypeOK
<1>6. Fine(p)'
  BY <1>1, <1>2, <1>3, <1>4 DEF Fine, Phase, Made, Leads, KeyOfName, HasLocks, Found,
       Replaced, Keyed, Held, Clean, Canonical, Resolve, IsLink
<1>7. Quiet(p)
  BY <1>1, <1>3, <1>4 DEF Quiet
<1>8. QED  BY <1>5, <1>6, <1>7, QuietKeeps

LEMMA StatInodeKeeps ==
  ASSUME LockInv, NEW p \in Procs, StatInode(p)
  PROVE LockInv'
<1> DEFINE i == Resolve(proc[p].name)
<1>1. /\ proc[p].pc = "stat"
      /\ proc' = [proc EXCEPT ![p].pc = "inode", ![p].seen = i]
      /\ UNCHANGED <<entry, disk, content, pathLock, inodeLock, backup, commits>>
      /\ UNCHANGED <<acked, doubt, told, raced, stray>>
  BY DEF StatInode, files, locks, history
<1>2. TypeOK /\ FilesMade /\ Fine(p) /\ proc[p] \in Process /\ proc[p].name \in Names
  BY <1>1 DEF LockInv, TypeOK, Fine, Phase, Keyed
<1>3. i \in DOMAIN content \cup {Absent} /\ i \in Inodes \cup {Absent}
  BY <1>2, LinksLead
<1> HIDE DEF i
<1>4. /\ proc' \in [Procs -> Process]
      /\ \A q \in Procs \ {p} : proc'[q] = proc[q]
      /\ proc'[p].pc = "inode" /\ proc'[p].for = proc[p].for
      /\ proc'[p].name = proc[p].name /\ proc'[p].to = proc[p].to
      /\ proc'[p].key = proc[p].key /\ proc'[p].seen = i
      /\ proc'[p].ino = proc[p].ino /\ proc'[p].file = proc[p].file
      /\ proc'[p].temp = proc[p].temp
  BY <1>1, <1>2, <1>3, ZenonT(60) DEF TypeOK, Process
<1>5. TypeOK'
  BY <1>1, <1>2, <1>4 DEF TypeOK
<1>6. Phase(p)' /\ Made(p)' /\ HasLocks(p)' /\ Replaced(p)'
  BY <1>1, <1>2, <1>3, <1>4 DEF Fine, Phase, Made, HasLocks, Replaced, Keyed, Held,
       Clean
<1>7. KeyOfName(p)' /\ Leads(p)'
  BY <1>1, <1>2, <1>4 DEF Fine, KeyOfName, Leads, Keyed, Canonical, Resolve, IsLink
<1>8. Found(p)'
  <2>1. /\ proc'[p].pc = "inode" /\ proc'[p].seen = i
        /\ proc'[p].name = proc[p].name /\ entry' = entry
    BY <1>1, <1>4
  <2>2. QED  BY <2>1 DEF Found, Resolve, IsLink, i
<1>9. Quiet(p)
  BY <1>1, <1>4 DEF Quiet
<1>10. QED  BY <1>5, <1>6, <1>7, <1>8, <1>9, QuietKeeps DEF Fine

LEMMA LockInodeKeeps ==
  ASSUME LockInv, NEW p \in Procs, LockInode(p)
  PROVE LockInv'
<1> DEFINE i == proc[p].seen
<1>1. /\ proc[p].pc = "inode" /\ (i # Absent => inodeLock[i] = NoProc)
      /\ inodeLock' = [j \in Inodes |-> IF j = i THEN p ELSE inodeLock[j]]
      /\ proc' = [proc EXCEPT ![p].pc = "locked", ![p].ino = i, ![p].seen = Absent]
      /\ UNCHANGED <<entry, disk, content, pathLock, backup, commits>>
      /\ UNCHANGED <<acked, doubt, told, raced, stray>>
  BY DEF LockInode, files, history
<1>2. /\ TypeOK /\ FilesMade /\ Fine(p) /\ proc[p] \in Process
      /\ i \in Inodes \cup {Absent} /\ i \in DOMAIN content \cup {Absent}
  BY <1>1 DEF LockInv, TypeOK, Fine, Made, Process
<1> HIDE DEF i
<1>3. /\ proc' \in [Procs -> Process]
      /\ \A q \in Procs \ {p} : proc'[q] = proc[q]
      /\ proc'[p].pc = "locked" /\ proc'[p].for = proc[p].for
      /\ proc'[p].name = proc[p].name /\ proc'[p].to = proc[p].to
      /\ proc'[p].key = proc[p].key /\ proc'[p].seen = Absent
      /\ proc'[p].ino = i /\ proc'[p].file = proc[p].file
      /\ proc'[p].temp = proc[p].temp
  BY <1>1, <1>2, ZenonT(60) DEF TypeOK, Process
<1>4. /\ inodeLock' \in [Inodes -> Procs \cup {NoProc}]
      /\ i # Absent => inodeLock'[i] = p
      /\ \A q \in Procs \ {p}, j \in Inodes : inodeLock[j] = q => inodeLock'[j] = q
      /\ \A j \in Inodes : inodeLock'[j] # NoProc =>
           inodeLock'[j] = inodeLock[j] \/ j \in DOMAIN content
  BY <1>1, <1>2, AbsentIs, NamesAssumption DEF TypeOK
<1>5. TypeOK'
  BY <1>1, <1>2, <1>3, <1>4 DEF TypeOK
<1>6. Phase(p)' /\ Made(p)' /\ KeyOfName(p)' /\ Replaced(p)'
  BY <1>1, <1>2, <1>3 DEF Fine, Phase, Made, KeyOfName, Replaced, Keyed, Canonical,
       IsLink
<1>7. HasLocks(p)'
  <2>1. proc[p].temp = Absent /\ proc[p].file = Absent
    BY <1>1, <1>2 DEF Fine, Phase
  <2>2. QED  BY <1>1, <1>2, <1>3, <1>4, <2>1 DEF Fine, HasLocks, Keyed, Held
<1>8. Found(p)' /\ Leads(p)'
  <2>1. Clean(p) => i = Resolve(proc[p].name)
    BY <1>1, <1>2 DEF Fine, Found, i
  <2>2. Leads(p)
    BY <1>2 DEF Fine
  <2>3. QED  BY <1>1, <1>3, <2>1, <2>2 DEF Found, Leads, Clean, Resolve, IsLink
<1>9. Quiet(p)
  BY <1>1, <1>3, <1>4 DEF Quiet
<1>10. QED  BY <1>5, <1>6, <1>7, <1>8, <1>9, QuietKeeps DEF Fine

(* The process drops its locks, and ends or gives up its file. *)
LEMMA EndKeeps ==
  ASSUME LockInv, NEW p, NEW st, Release(p), proc' = [proc EXCEPT ![p] = st],
         p \in Procs, st \in Process, st.pc \in {"idle", "memory"}, st.for = "none",
         st.seen = Absent, st.ino = Absent, st.file = Absent, st.temp = Absent,
         \A n \in Names : disk'[n] \in {disk[n], {entry[n]}},
         disk' \in [Names -> SUBSET (Names \cup Inodes \cup {Absent})],
         backup' \in [Names -> Stores],
         acked' \subseteq Names \X (0 .. MaxCommits),
         doubt' \subseteq Names, told' \subseteq Names,
         UNCHANGED <<entry, content, commits, raced, stray>>
  PROVE LockInv'
<1>1. TypeOK
  BY DEF LockInv
<1>2. /\ proc' \in [Procs -> Process] /\ proc'[p] = st
      /\ \A q \in Procs \ {p} : proc'[q] = proc[q]
  BY <1>1 DEF TypeOK
<1>3. /\ pathLock' \in [Names -> Procs \cup {NoProc}]
      /\ inodeLock' \in [Inodes -> Procs \cup {NoProc}]
      /\ \A q \in Procs \ {p} :
           /\ \A n \in Names : pathLock[n] = q => pathLock'[n] = q
           /\ \A i \in Inodes : inodeLock[i] = q => inodeLock'[i] = q
      /\ \A i \in Inodes : inodeLock'[i] # NoProc => inodeLock'[i] = inodeLock[i]
  BY <1>1, ReleaseIs
<1>4. TypeOK'
  BY <1>1, <1>2, <1>3 DEF TypeOK
<1>5. Fine(p)'
  BY <1>2, RestingFine DEF Leads
<1>6. Quiet(p)
  BY <1>2, <1>3 DEF Quiet
<1>7. QED  BY <1>4, <1>5, <1>6, QuietKeeps

LEMMA BackupTyped ==
  ASSUME TypeOK, NEW p
  PROVE backup \in [Names -> Stores] /\ WithoutBackup(p) \in [Names -> Stores]
<1>1. NoBackup \in Stores
  BY DEF NoBackup, Stores
<1>2. QED  BY <1>1 DEF TypeOK, WithoutBackup

LEMMA RefusedKeeps ==
  ASSUME LockInv, NEW p \in Procs, Refused(p)
  PROVE LockInv'
<1>1. TypeOK
  BY DEF LockInv
<1>2. /\ Release(p) /\ backup' = WithoutBackup(p)
      /\ proc' = [proc EXCEPT ![p] = Idle]
      /\ UNCHANGED <<entry, disk, content, commits>>
      /\ UNCHANGED <<acked, doubt, told, raced, stray>>
  BY DEF Refused, files, history
<1>3. backup' \in [Names -> Stores]
  BY <1>1, <1>2, BackupTyped
<1>4. QED  BY <1>1, <1>2, <1>3, IdleIs, EndKeeps DEF TypeOK

-----------------------------------------------------------------------------
(* The steps of a store that is open, and those before it is.              *)

(* Only what a process is at changes, and it keeps its locks. *)
Moves(p) ==
  /\ proc' \in [Procs -> Process]
  /\ \A q \in Procs \ {p} : proc'[q] = proc[q]
  /\ proc'[p].name = proc[p].name /\ proc'[p].key = proc[p].key
  /\ UNCHANGED <<entry, disk, pathLock, inodeLock, stray>>

LEMMA MovesKeeps ==
  ASSUME LockInv, NEW p, Moves(p), p \in Procs, TypeOK', Phase(p)', Made(p)',
         Keyed(p), Held(p)' => Held(p), DOMAIN content' = DOMAIN content,
         proc'[p].ino = proc[p].ino, proc'[p].temp = proc[p].temp,
         Clean(p) /\ proc'[p].file # Absent => proc'[p].file = proc[p].ino,
         proc'[p].for = proc[p].for \/ proc'[p].for # "migrate",
         proc'[p].pc \notin {"inode", "locked", "sync", "reopen"}
  PROVE LockInv'
<1>1. Fine(p)
  BY DEF LockInv
<1>2. Leads(p)' /\ KeyOfName(p)' /\ Found(p)' /\ Replaced(p)'
  BY <1>1 DEF Moves, Fine, Leads, KeyOfName, Found, Replaced, Keyed, Canonical,
              Resolve, IsLink
<1>3. HasLocks(p)'
  BY <1>1 DEF Moves, Fine, HasLocks, Clean
<1>4. Quiet(p)
  BY DEF Quiet, Moves
<1>5. QED  BY <1>2, <1>3, <1>4, QuietKeeps DEF Fine

LEMMA OpenFileKeeps ==
  ASSUME LockInv, NEW p \in Procs, OpenFile(p)
  PROVE LockInv'
<1> DEFINE i == Resolve(proc[p].name)
<1>1. /\ proc[p].pc = "locked" /\ proc[p].for = "open"
      /\ UNCHANGED <<entry, disk, content, backup, commits>>
      /\ UNCHANGED <<acked, doubt, told, raced, stray>>
  BY DEF OpenFile, files, history
<1>2. /\ TypeOK /\ FilesMade /\ Fine(p) /\ proc[p] \in Process /\ proc[p].name \in Names
      /\ DOMAIN content \subseteq Inodes
  BY <1>1 DEF LockInv, TypeOK, Fine, Phase, Keyed
<1>3. i \in DOMAIN content \cup {Absent}
  BY <1>2, LinksLead
<1>4. CASE i # Absent /\ ~content[i].legacy
  <2>1. /\ proc' = [proc EXCEPT ![p].pc = "open", ![p].file = i,
                                ![p].docs = content[i].docs]
        /\ UNCHANGED <<pathLock, inodeLock>>
    BY <1>4 DEF OpenFile, locks
  <2>2. i \in Inodes /\ i \in DOMAIN content /\ content[i].docs \subseteq 0 .. MaxCommits
    BY <1>2, <1>3, <1>4 DEF TypeOK, Stores
  <2>3. Clean(p) => i = proc[p].ino
    BY <1>1, <1>2 DEF Fine, Found
  <2> HIDE DEF i
  <2>4. /\ proc' \in [Procs -> Process]
        /\ \A q \in Procs \ {p} : proc'[q] = proc[q]
        /\ proc'[p].pc = "open" /\ proc'[p].for = "open"
        /\ proc'[p].name = proc[p].name /\ proc'[p].to = proc[p].to
        /\ proc'[p].key = proc[p].key /\ proc'[p].seen = proc[p].seen
        /\ proc'[p].ino = proc[p].ino /\ proc'[p].file = i
        /\ proc'[p].temp = proc[p].temp
    BY <1>1, <1>2, <2>1, <2>2, ZenonT(60) DEF TypeOK, Process
  <2>5. TypeOK'
    BY <1>1, <1>2, <2>1, <2>4 DEF TypeOK
  <2>6. Phase(p)' /\ Made(p)'
    BY <1>1, <1>2, <1>4, <2>2, <2>4 DEF Fine, Phase, Made, Keyed
  <2>7. Moves(p)
    BY <1>1, <2>1, <2>4 DEF Moves
  <2>8. Keyed(p) /\ Held(p)
    BY <1>1 DEF Keyed, Held
  <2>9. QED  BY <1>1, <2>3, <2>4, <2>5, <2>6, <2>7, <2>8, MovesKeeps
<1>5. CASE ~(i # Absent /\ ~content[i].legacy)
  <2>1. proc' = [proc EXCEPT ![p] = Idle] /\ Release(p)
    BY <1>5 DEF OpenFile
  <2>2. QED  BY <1>1, <1>2, <2>1, IdleIs, EndKeeps DEF TypeOK
<1>6. QED  BY <1>4, <1>5

LEMMA CommitKeeps ==
  ASSUME LockInv, NEW p \in Procs, Commit(p)
  PROVE LockInv'
<1> DEFINE f == proc[p].file
<1>1. /\ proc[p].pc = "open" /\ commits < MaxCommits /\ commits' = commits + 1
      /\ content' = [content EXCEPT ![f].docs = @ \cup {commits'}]
      /\ proc' = [proc EXCEPT ![p].docs = @ \cup {commits'}]
      /\ acked' \in {acked, acked \cup {<<proc[p].name, commits'>>}}
      /\ UNCHANGED <<entry, disk, pathLock, inodeLock, backup>>
      /\ UNCHANGED <<doubt, told, raced, stray>>
  BY DEF Commit, locks
<1>2. /\ TypeOK /\ Fine(p) /\ proc[p] \in Process /\ proc[p].name \in Names
      /\ f \in DOMAIN content
  BY <1>1 DEF LockInv, TypeOK, Fine, Phase, Keyed, Made
<1>3. commits' \in 0 .. MaxCommits
  BY <1>1, <1>2, NamesAssumption DEF TypeOK
<1> DEFINE c == commits'
<1> HIDE DEF c, f
<1>4. /\ DOMAIN content' = DOMAIN content
      /\ content' \in [DOMAIN content' -> Stores]
  BY <1>1, <1>2, <1>3 DEF TypeOK, Stores, c
<1>5. /\ proc' \in [Procs -> Process]
      /\ \A q \in Procs \ {p} : proc'[q] = proc[q]
      /\ proc'[p].pc = "open" /\ proc'[p].for = proc[p].for
      /\ proc'[p].name = proc[p].name /\ proc'[p].to = proc[p].to
      /\ proc'[p].key = proc[p].key /\ proc'[p].seen = proc[p].seen
      /\ proc'[p].ino = proc[p].ino /\ proc'[p].file = f
      /\ proc'[p].temp = proc[p].temp
  BY <1>1, <1>2, <1>3, ZenonT(60) DEF TypeOK, Process, c, f
<1>6. TypeOK'
  BY <1>1, <1>2, <1>3, <1>4, <1>5 DEF TypeOK
<1>7. Phase(p)' /\ Made(p)'
  BY <1>1, <1>2, <1>4, <1>5 DEF Fine, Phase, Made, Keyed, f
<1>8. Moves(p) /\ Keyed(p) /\ Held(p)
  BY <1>1, <1>5 DEF Moves, Keyed, Held
<1>9. Clean(p) /\ f # Absent => f = proc[p].ino
  BY <1>2 DEF Fine, HasLocks, f
<1>10. QED  BY <1>4, <1>5, <1>6, <1>7, <1>8, <1>9, MovesKeeps

LEMMA VacuumKeeps ==
  ASSUME LockInv, NEW p \in Procs, NEW n \in Names, Vacuum(p, n)
  PROVE LockInv'
<1> DEFINE st == [proc[p] EXCEPT !.pc = "build", !.for = "vacuum", !.to = n]
<1>1. /\ proc[p].pc = "open" /\ proc' = [proc EXCEPT ![p] = st]
      /\ UNCHANGED <<entry, disk, content, pathLock, inodeLock, backup, commits>>
      /\ UNCHANGED <<acked, doubt, told, raced, stray>>
  BY DEF Vacuum, files, locks, history
<1>2. TypeOK /\ Fine(p) /\ proc[p] \in Process
  BY DEF LockInv, TypeOK
<1>3. /\ proc' \in [Procs -> Process]
      /\ \A q \in Procs \ {p} : proc'[q] = proc[q]
      /\ proc'[p].pc = "build" /\ proc'[p].for = "vacuum" /\ proc'[p].to = n
      /\ proc'[p].name = proc[p].name
      /\ proc'[p].key = proc[p].key /\ proc'[p].seen = proc[p].seen
      /\ proc'[p].ino = proc[p].ino /\ proc'[p].file = proc[p].file
      /\ proc'[p].temp = proc[p].temp
  <2>1. /\ st \in Process /\ st.pc = "build" /\ st.for = "vacuum" /\ st.to = n
        /\ st.name = proc[p].name /\ st.key = proc[p].key /\ st.seen = proc[p].seen
        /\ st.ino = proc[p].ino /\ st.file = proc[p].file /\ st.temp = proc[p].temp
    BY <1>2, ZenonT(60) DEF Process
  <2> HIDE DEF st
  <2>2. /\ proc' \in [Procs -> Process] /\ proc'[p] = st
        /\ \A q \in Procs \ {p} : proc'[q] = proc[q]
    BY <1>1, <1>2, <2>1 DEF TypeOK
  <2>3. QED  BY <2>1, <2>2
<1>4. TypeOK'
  BY <1>1, <1>2, <1>3 DEF TypeOK
<1>5. Phase(p)' /\ Made(p)'
  BY <1>1, <1>2, <1>3 DEF Fine, Phase, Made, Keyed
<1>6. Moves(p) /\ Keyed(p) /\ Held(p)
  BY <1>1, <1>3 DEF Moves, Keyed, Held
<1>7. Clean(p) /\ proc[p].file # Absent => proc[p].file = proc[p].ino
  BY <1>2 DEF Fine, HasLocks
<1>8. QED  BY <1>1, <1>3, <1>4, <1>5, <1>6, <1>7, MovesKeeps

(* A process without locks goes on without any. *)
LEMMA UnlockedKeeps ==
  ASSUME LockInv, NEW p, NEW st, proc' = [proc EXCEPT ![p] = st],
         p \in Procs, st \in Process,
         st.pc \in {"idle", "memory", "new", "copy"},
         st.for = IF st.pc = "copy" THEN "migrate" ELSE "none",
         st.pc \in {"new", "copy"} => st.name \in Names,
         st.pc = "copy" => Resolve(st.name) # Absent,
         st.seen = Absent, st.ino = Absent, st.file = Absent, st.temp = Absent,
         commits' \in 0 .. MaxCommits, raced' \in BOOLEAN,
         UNCHANGED <<files, locks, backup, acked, doubt, told, stray>>
  PROVE LockInv'
<1>1. TypeOK
  BY DEF LockInv
<1>2. UNCHANGED <<entry, disk, content, pathLock, inodeLock>>
  BY DEF files, locks
<1>3. /\ proc' \in [Procs -> Process] /\ proc'[p] = st
      /\ \A q \in Procs \ {p} : proc'[q] = proc[q]
  BY <1>1 DEF TypeOK
<1>4. TypeOK'
  BY <1>1, <1>2, <1>3 DEF TypeOK
<1>5. Fine(p)'
  <2>1. Leads(p)'
    BY <1>2, <1>3 DEF Leads, Resolve, IsLink
  <2>2. QED  BY <1>3, <2>1, RestingFine
<1>6. Quiet(p)
  BY <1>2, <1>3 DEF Quiet
<1>7. QED  BY <1>4, <1>5, <1>6, QuietKeeps

LEMMA CommitInMemoryKeeps ==
  ASSUME LockInv, NEW p \in Procs, CommitInMemory(p)
  PROVE LockInv'
<1> DEFINE st == [proc[p] EXCEPT !.docs = @ \cup {commits'}]
<1>1. /\ proc[p].pc = "memory" /\ commits < MaxCommits /\ commits' = commits + 1
      /\ proc' = [proc EXCEPT ![p] = st]
      /\ UNCHANGED <<files, locks, backup, acked, doubt, told, raced, stray>>
  BY DEF CommitInMemory, history
<1>2. TypeOK /\ Fine(p) /\ proc[p] \in Process
  BY DEF LockInv, TypeOK
<1>3. commits' \in 0 .. MaxCommits /\ raced' \in BOOLEAN
  BY <1>1, <1>2, NamesAssumption DEF TypeOK
<1>4. /\ proc[p].for = "none" /\ proc[p].seen = Absent /\ proc[p].ino = Absent
      /\ proc[p].file = Absent /\ proc[p].temp = Absent
  BY <1>1, <1>2 DEF Fine, Phase, Keyed
<1>5. /\ st \in Process /\ st.pc = "memory" /\ st.for = "none" /\ st.seen = Absent
      /\ st.ino = Absent /\ st.file = Absent /\ st.temp = Absent
  BY <1>1, <1>2, <1>3, <1>4 DEF Process
<1> HIDE DEF st
<1>6. QED  BY <1>1, <1>3, <1>5, UnlockedKeeps

LEMMA IndexNewKeeps ==
  ASSUME LockInv, NEW p \in Procs, NEW n \in Names, IndexNew(p, n)
  PROVE LockInv'
<1> DEFINE c == commits'
           st == [Idle EXCEPT !.pc = "new", !.name = n, !.docs = {c}]
<1>1. /\ commits < MaxCommits /\ commits' = commits + 1
      /\ proc' = [proc EXCEPT ![p] = st]
      /\ UNCHANGED <<files, locks, backup, acked, doubt, told, raced, stray>>
  BY DEF IndexNew, history
<1>2. c \in 0 .. MaxCommits /\ raced' \in BOOLEAN
  BY <1>1, NamesAssumption DEF LockInv, TypeOK
<1> HIDE DEF c
<1>3. /\ st \in Process /\ st.pc = "new" /\ st.for = "none" /\ st.name = n
      /\ st.seen = Absent /\ st.ino = Absent /\ st.file = Absent /\ st.temp = Absent
  <2>1. st \in Process
    BY <1>2, IdleIs DEF Process
  <2>2. QED  BY <2>1, IdleIs
<1> HIDE DEF st
<1>4. QED  BY <1>1, <1>2, <1>3, UnlockedKeeps DEF c

LEMMA OfferKeeps ==
  ASSUME LockInv, NEW p \in Procs, NEW n \in Names, Offer(p, n)
  PROVE LockInv'
<1> DEFINE st == [Idle EXCEPT !.pc = "copy", !.name = n, !.for = "migrate"]
<1>1. /\ Resolve(n) # Absent
      /\ proc' = [proc EXCEPT ![p] = st]
      /\ raced' = (raced \/ \E q \in Procs : proc[q].for = "migrate")
      /\ UNCHANGED <<files, locks, backup, commits, acked, doubt, told, stray>>
  BY DEF Offer
<1>2. commits' \in 0 .. MaxCommits
  BY <1>1 DEF LockInv, TypeOK
<1>3. raced' \in BOOLEAN
  BY <1>1
<1>4. /\ st \in Process /\ st.pc = "copy" /\ st.for = "migrate" /\ st.name = n
      /\ st.seen = Absent /\ st.ino = Absent /\ st.file = Absent /\ st.temp = Absent
  <2>1. st \in Process
    BY IdleIs DEF Process
  <2>2. QED  BY <2>1, IdleIs
<1> HIDE DEF st
<1>5. QED  BY <1>1, <1>2, <1>3, <1>4, UnlockedKeeps

(* What is migrated is a store. *)
LEMMA MigratesStore ==
  ASSUME LockInv, NEW p, proc[p].for = "migrate", p \in Procs
  PROVE /\ proc[p].name \in Names
        /\ Resolve(proc[p].name) \in DOMAIN content
        /\ content[Resolve(proc[p].name)] \in Stores
<1>1. TypeOK /\ FilesMade /\ Fine(p) /\ proc[p] \in Process
  BY DEF LockInv, TypeOK
<1>2. proc[p].name \in Names
  BY <1>1 DEF Fine, Phase, Keyed, Process
<1>3. Resolve(proc[p].name) \in DOMAIN content
  BY <1>1, <1>2, LinksLead DEF Fine, Leads
<1>4. QED  BY <1>1, <1>2, <1>3 DEF TypeOK

LEMMA OpenKeeps ==
  ASSUME LockInv, NEW p \in Procs, NEW n \in Names, Open(p, n)
  PROVE LockInv'
BY StartKeeps DEF Open, LockInv, TypeOK

LEMMA SaveKeeps ==
  ASSUME LockInv, NEW p \in Procs, Save(p)
  PROVE LockInv'
<1>1. /\ proc[p].pc = "new" /\ Start(p, "save", proc[p].name, proc[p].docs)
      /\ UNCHANGED <<files, locks, backup, commits, history>>
  BY DEF Save
<1>2. /\ proc[p].name \in Names /\ proc[p].docs \subseteq 0 .. MaxCommits
      /\ backup \in [Names -> Stores]
  BY <1>1 DEF LockInv, Fine, Phase, TypeOK, Process
<1>3. QED  BY <1>1, <1>2, StartKeeps

LEMMA CopyBackupKeeps ==
  ASSUME LockInv, NEW p \in Procs, CopyBackup(p)
  PROVE LockInv'
<1> DEFINE store == content[Resolve(proc[p].name)]
<1>1. /\ proc[p].pc = "copy" /\ backup' = [backup EXCEPT ![proc[p].name] = store]
      /\ Start(p, "migrate", proc[p].name, {})
      /\ UNCHANGED <<files, locks, commits, history>>
  BY DEF CopyBackup
<1>2. proc[p].for = "migrate" /\ Fine(p) /\ TypeOK
  BY <1>1 DEF LockInv, Fine, Phase
<1>3. proc[p].name \in Names /\ store \in Stores /\ Resolve(proc[p].name) # Absent
  BY <1>2, MigratesStore DEF Fine, Leads
<1> HIDE DEF store
<1>4. backup' \in [Names -> Stores]
  BY <1>1, <1>2, <1>3 DEF TypeOK
<1>5. QED  BY <1>1, <1>3, <1>4, StartKeeps

LEMMA ReadLegacyKeeps ==
  ASSUME LockInv, NEW p \in Procs, ReadLegacy(p)
  PROVE LockInv'
<1> DEFINE store == content[Resolve(proc[p].name)]
<1>1. /\ proc[p].pc = "locked" /\ proc[p].for = "migrate"
      /\ UNCHANGED <<entry, disk, content, backup, commits>>
      /\ UNCHANGED <<acked, doubt, raced, stray>>
  BY DEF ReadLegacy, files
<1>2. TypeOK /\ Fine(p) /\ proc[p] \in Process
  BY DEF LockInv, TypeOK
<1>3. proc[p].name \in Names /\ store \in Stores
  BY <1>1, MigratesStore
<1>4. CASE store.legacy
  <2>1. /\ proc' = [proc EXCEPT ![p].pc = "build", ![p].docs = store.docs]
        /\ UNCHANGED <<pathLock, inodeLock, told>>
    BY <1>4 DEF ReadLegacy, locks
  <2>2. store.docs \subseteq 0 .. MaxCommits
    BY <1>3 DEF Stores
  <2> HIDE DEF store
  <2>3. /\ proc' \in [Procs -> Process]
        /\ \A q \in Procs \ {p} : proc'[q] = proc[q]
        /\ proc'[p].pc = "build" /\ proc'[p].for = "migrate"
        /\ proc'[p].name = proc[p].name /\ proc'[p].to = proc[p].to
        /\ proc'[p].key = proc[p].key /\ proc'[p].seen = proc[p].seen
        /\ proc'[p].ino = proc[p].ino /\ proc'[p].file = proc[p].file
        /\ proc'[p].temp = proc[p].temp
    BY <1>1, <1>2, <2>1, <2>2, ZenonT(60) DEF TypeOK, Process
  <2>4. TypeOK'
    BY <1>1, <1>2, <2>1, <2>3 DEF TypeOK
  <2>5. Phase(p)' /\ Made(p)' /\ proc[p].file = Absent
    BY <1>1, <1>2, <2>3 DEF Fine, Phase, Made, Keyed
  <2>6. Moves(p) /\ Keyed(p) /\ Held(p)
    BY <1>1, <2>1, <2>3 DEF Moves, Keyed, Held
  <2>7. QED  BY <1>1, <2>3, <2>4, <2>5, <2>6, MovesKeeps
<1>5. CASE ~store.legacy
  <2>1. /\ proc' = [proc EXCEPT ![p] = Idle] /\ Release(p)
        /\ told' = told \cup {proc[p].name}
    BY <1>5 DEF ReadLegacy
  <2>2. told' \subseteq Names
    BY <1>2, <1>3, <2>1 DEF TypeOK
  <2>3. QED  BY <1>1, <1>2, <2>1, <2>2, IdleIs, EndKeeps DEF TypeOK
<1>6. QED  BY <1>4, <1>5

-----------------------------------------------------------------------------
(* The steps that replace a file. *)

LEMMA BuildKeeps ==
  ASSUME LockInv, NEW p \in Procs, Build(p)
  PROVE LockInv'
<1>1. /\ proc[p].pc = "build" \/ (proc[p].pc = "locked" /\ proc[p].for = "save")
      /\ UNCHANGED <<entry, disk, pathLock, backup, commits>>
      /\ UNCHANGED <<acked, doubt, told, raced, stray>>
  BY DEF Build, history
<1>2. PICK i \in Inodes :
        /\ i \notin DOMAIN content
        /\ content' = [j \in DOMAIN content \cup {i} |->
                         IF j = i THEN [docs |-> proc[p].docs, legacy |-> FALSE]
                         ELSE content[j]]
        /\ inodeLock' = [inodeLock EXCEPT ![i] = p]
        /\ proc' = [proc EXCEPT ![p].pc = "rename", ![p].temp = i]
  BY DEF Build
<1>3. TypeOK /\ FilesMade /\ Fine(p) /\ proc[p] \in Process
  BY DEF LockInv, TypeOK
<1>4. /\ DOMAIN content' = DOMAIN content \cup {i} /\ DOMAIN content' \subseteq Inodes
      /\ content' \in [DOMAIN content' -> Stores]
  <2> DEFINE s == [docs |-> proc[p].docs, legacy |-> FALSE]
  <2>1. s \in Stores
    BY <1>3 DEF Process, Stores
  <2>2. content' = [j \in DOMAIN content \cup {i} |-> IF j = i THEN s ELSE content[j]]
    BY <1>2
  <2> HIDE DEF s
  <2>3. QED  BY <1>3, <2>1, <2>2 DEF TypeOK
<1>5. /\ proc' \in [Procs -> Process]
      /\ \A q \in Procs \ {p} : proc'[q] = proc[q]
      /\ proc'[p].pc = "rename" /\ proc'[p].for = proc[p].for
      /\ proc'[p].name = proc[p].name /\ proc'[p].to = proc[p].to
      /\ proc'[p].key = proc[p].key /\ proc'[p].seen = proc[p].seen
      /\ proc'[p].ino = proc[p].ino /\ proc'[p].file = proc[p].file
      /\ proc'[p].temp = i
  BY <1>2, <1>3, ZenonT(60) DEF TypeOK, Process
<1>6. /\ inodeLock[i] = NoProc
      /\ inodeLock' \in [Inodes -> Procs \cup {NoProc}] /\ inodeLock'[i] = p
      /\ \A j \in Inodes \ {i} : inodeLock'[j] = inodeLock[j]
  BY <1>2, <1>3 DEF TypeOK, FilesMade
<1>7. TypeOK'
  BY <1>1, <1>3, <1>4, <1>5, <1>6 DEF TypeOK
<1>8. Phase(p)' /\ Made(p)'
  BY <1>1, <1>3, <1>4, <1>5, AbsentIs DEF Fine, Phase, Made, Keyed
<1>9. Leads(p)' /\ KeyOfName(p)' /\ Found(p)' /\ Replaced(p)'
  BY <1>1, <1>3, <1>5 DEF Fine, Leads, KeyOfName, Found, Replaced, Keyed, Canonical,
                          Resolve, IsLink
<1>10. HasLocks(p)'
  <2>1. proc[p].ino \in Inodes \cup {Absent} /\ proc[p].ino # i
    BY <1>2, <1>3, AbsentIs DEF Fine, Made, Process
  <2>2. QED
    BY <1>1, <1>3, <1>5, <1>6, <2>1 DEF Fine, HasLocks, Keyed, Held, Clean
<1>11. Quiet(p)
  <2>1. \A q \in Procs \ {p}, j \in Inodes : inodeLock[j] = q => inodeLock'[j] = q
    BY <1>6, NamesAssumption
  <2>2. QED  BY <1>1, <1>4, <1>5, <1>6, <2>1 DEF Quiet
<1>12. QED  BY <1>7, <1>8, <1>9, <1>10, <1>11, QuietKeeps DEF Fine

(* A vacuum that fails leaves the store open as it was. *)
LEMMA VacuumFails ==
  ASSUME LockInv, NEW p, NEW failed, Fail(p, failed), proc[p].for = "vacuum",
         p \in Procs, failed \in BOOLEAN, proc[p].pc \in {"rename", "sync"}
  PROVE /\ proc' \in [Procs -> Process]
        /\ \A q \in Procs \ {p} : proc'[q] = proc[q]
        /\ proc'[p].pc = "open" /\ proc'[p].for = "open" /\ proc'[p].temp = Absent
        /\ proc'[p].name = proc[p].name /\ proc'[p].to = proc[p].name
        /\ proc'[p].key = proc[p].key /\ proc'[p].seen = proc[p].seen
        /\ proc'[p].ino = proc[p].ino /\ proc'[p].file = proc[p].file
        /\ proc'[p].docs = proc[p].docs /\ (proc'[p].failed <=> failed)
        /\ inodeLock' = [i \in Inodes |-> IF i = proc[p].temp THEN NoProc
                                          ELSE inodeLock[i]]
        /\ UNCHANGED <<pathLock, backup>>
<1> DEFINE n == proc[p].name
           st == [proc[p] EXCEPT !.pc = "open", !.for = "open", !.temp = Absent,
                                 !.to = n, !.failed = failed]
<1>1. proc[p] \in Process /\ n \in Names
  BY DEF LockInv, TypeOK, Fine, Phase, Keyed
<1>2. /\ proc' = [proc EXCEPT ![p] = st]
      /\ inodeLock' = [i \in Inodes |-> IF i = proc[p].temp THEN NoProc
                                        ELSE inodeLock[i]]
      /\ UNCHANGED <<pathLock, backup>>
  BY DEF Fail
<1> HIDE DEF n
<1>3. st \in Process
  BY <1>1 DEF Process
<1>4. /\ st.pc = "open" /\ st.for = "open" /\ st.temp = Absent
      /\ st.name = proc[p].name /\ st.to = n /\ st.key = proc[p].key
      /\ st.seen = proc[p].seen /\ st.ino = proc[p].ino /\ st.file = proc[p].file
      /\ st.docs = proc[p].docs
  BY <1>1 DEF Process
<1>5. st.failed = failed
  BY <1>1, Zenon DEF Process
<1> HIDE DEF st
<1>6. /\ proc' \in [Procs -> Process] /\ proc'[p] = st
      /\ \A q \in Procs \ {p} : proc'[q] = proc[q]
  BY <1>2, <1>3 DEF LockInv, TypeOK
<1>7. QED  BY <1>2, <1>4, <1>5, <1>6 DEF n

LEMMA FailKeeps ==
  ASSUME LockInv, NEW p, NEW failed, Fail(p, failed),
         p \in Procs, failed \in BOOLEAN, proc[p].pc \in {"rename", "sync"},
         doubt' \subseteq Names,
         UNCHANGED <<entry, disk, content, commits, acked, told, raced, stray>>
  PROVE LockInv'
<1>1. TypeOK /\ Fine(p) /\ proc[p] \in Process
  BY DEF LockInv, TypeOK
<1>2. CASE proc[p].for = "vacuum"
  <2>1. /\ proc' \in [Procs -> Process]
        /\ \A q \in Procs \ {p} : proc'[q] = proc[q]
        /\ proc'[p].pc = "open" /\ proc'[p].for = "open" /\ proc'[p].temp = Absent
        /\ proc'[p].name = proc[p].name /\ proc'[p].to = proc[p].name
        /\ proc'[p].key = proc[p].key /\ proc'[p].seen = proc[p].seen
        /\ proc'[p].ino = proc[p].ino /\ proc'[p].file = proc[p].file
        /\ inodeLock' = [i \in Inodes |-> IF i = proc[p].temp THEN NoProc
                                          ELSE inodeLock[i]]
        /\ UNCHANGED <<pathLock, backup>>
    BY <1>2, VacuumFails
  <2>2. proc[p].temp \in Inodes /\ inodeLock[proc[p].temp] = p
          /\ proc[p].ino # proc[p].temp
    BY <1>1 DEF Fine, Phase, HasLocks, Process
  <2>3. /\ inodeLock' \in [Inodes -> Procs \cup {NoProc}]
        /\ \A i \in Inodes : i # proc[p].temp => inodeLock'[i] = inodeLock[i]
        /\ \A i \in Inodes : inodeLock'[i] # NoProc => inodeLock'[i] = inodeLock[i]
        /\ \A q \in Procs \ {p}, i \in Inodes : inodeLock[i] = q => inodeLock'[i] = q
    BY <1>1, <2>1, <2>2, NamesAssumption DEF TypeOK
  <2>4. TypeOK'
    BY <1>1, <2>1, <2>3 DEF TypeOK
  <2>5. Phase(p)' /\ Made(p)'
    BY <1>1, <1>2, <2>1 DEF Fine, Phase, Made, Keyed
  <2>6. Leads(p)' /\ KeyOfName(p)' /\ Found(p)' /\ Replaced(p)'
    BY <1>1, <2>1 DEF Fine, Leads, KeyOfName, Found, Replaced, Keyed, Canonical,
                      IsLink
  <2>7. HasLocks(p)'
    <3>1. proc[p].ino \in Inodes \cup {Absent}
      BY <1>1 DEF Process
    <3>2. QED
      BY <1>1, <2>1, <2>2, <2>3, <3>1 DEF Fine, HasLocks, Keyed, Held, Clean
  <2>8. Quiet(p)
    BY <2>1, <2>3 DEF Quiet
  <2>9. QED  BY <2>4, <2>5, <2>6, <2>7, <2>8, QuietKeeps DEF Fine
<1>3. CASE proc[p].for # "vacuum"
  <2>1. /\ proc' = [proc EXCEPT ![p] = Idle] /\ Release(p)
        /\ backup' = WithoutBackup(p)
    BY <1>3 DEF Fail
  <2>2. backup' \in [Names -> Stores]
    BY <1>1, <2>1, BackupTyped
  <2>3. QED  BY <1>1, <2>1, <2>2, IdleIs, EndKeeps DEF TypeOK
<1>4. QED  BY <1>2, <1>3

LEMMA BuildFailsKeeps ==
  ASSUME LockInv, NEW p \in Procs, BuildFails(p)
  PROVE LockInv'
<1>1. /\ proc[p].pc = "rename" /\ Fail(p, proc[p].failed)
      /\ UNCHANGED <<entry, disk, content, commits>>
      /\ UNCHANGED <<acked, doubt, told, raced, stray>>
  BY DEF BuildFails, files, history
<1>2. proc[p].failed \in BOOLEAN /\ doubt' \subseteq Names
  BY <1>1 DEF LockInv, TypeOK, Process
<1>3. QED  BY <1>1, <1>2, FailKeeps

LEMMA SyncFailsKeeps ==
  ASSUME LockInv, NEW p \in Procs, SyncFails(p)
  PROVE LockInv'
<1>1. /\ proc[p].pc = "sync" /\ Fail(p, TRUE) /\ doubt' = doubt \cup {proc[p].to}
      /\ UNCHANGED <<entry, disk, content, commits>>
      /\ UNCHANGED <<acked, told, raced, stray>>
  BY DEF SyncFails, files
<1>2. proc[p].to \in Names
  BY <1>1 DEF LockInv, Fine, Phase, Keyed
<1>3. doubt' \subseteq Names
  BY <1>1, <1>2 DEF LockInv, TypeOK
<1> DEFINE failed == TRUE
<1>4. failed \in BOOLEAN /\ Fail(p, failed)
  BY <1>1
<1> HIDE DEF failed
<1>5. QED  BY <1>1, <1>3, <1>4, FailKeeps

LEMMA SyncDirectoryKeeps ==
  ASSUME LockInv, NEW p \in Procs, SyncDirectory(p)
  PROVE LockInv'
<1>1. /\ proc[p].pc = "sync" /\ Done(p)
      /\ disk' = [disk EXCEPT ![proc[p].to] = {entry[proc[p].to]}]
      /\ acked' = AckedBy(p) /\ doubt' = doubt \ {proc[p].to}
      /\ told' = IF proc[p].for = "migrate" THEN told \cup {proc[p].to} ELSE told
      /\ UNCHANGED <<entry, content, backup, commits, raced, stray>>
  BY DEF SyncDirectory
<1>2. /\ TypeOK /\ Fine(p) /\ proc[p] \in Process /\ proc[p].to \in Names
      /\ entry[proc[p].to] \in DOMAIN content
  BY <1>1 DEF LockInv, TypeOK, Fine, Phase, Keyed, Replaced
<1>3. /\ disk' \in [Names -> SUBSET (Names \cup Inodes \cup {Absent})]
      /\ \A n \in Names : disk'[n] \in {disk[n], {entry[n]}}
  <2> DEFINE e == {entry[proc[p].to]}
  <2>1. e \in SUBSET (Names \cup Inodes \cup {Absent})
    BY <1>2 DEF TypeOK
  <2>2. disk' = [disk EXCEPT ![proc[p].to] = e]
    BY <1>1
  <2> HIDE DEF e
  <2>3. /\ disk' \in [Names -> SUBSET (Names \cup Inodes \cup {Absent})]
        /\ \A n \in Names : disk'[n] = IF n = proc[p].to THEN e ELSE disk[n]
    BY <1>2, <2>1, <2>2 DEF TypeOK
  <2>4. QED  BY <2>3 DEF e
<1>4. /\ acked' \subseteq Names \X (0 .. MaxCommits)
      /\ doubt' \subseteq Names /\ told' \subseteq Names
  BY <1>1, <1>2 DEF TypeOK, AckedBy, Process
<1>5. CASE proc[p].for = "vacuum"
  <2>1. /\ proc' = [proc EXCEPT ![p].pc = "reopen"]
        /\ UNCHANGED <<pathLock, inodeLock>>
    BY <1>1, <1>5 DEF Done, locks
  <2>2. /\ proc' \in [Procs -> Process]
        /\ \A q \in Procs \ {p} : proc'[q] = proc[q]
        /\ proc'[p].pc = "reopen" /\ proc'[p].for = proc[p].for
        /\ proc'[p].name = proc[p].name /\ proc'[p].to = proc[p].to
        /\ proc'[p].key = proc[p].key /\ proc'[p].seen = proc[p].seen
        /\ proc'[p].ino = proc[p].ino /\ proc'[p].file = proc[p].file
        /\ proc'[p].temp = proc[p].temp
    BY <1>2, <2>1, ZenonT(60) DEF TypeOK, Process
  <2>3. TypeOK'
    BY <1>1, <1>2, <1>3, <1>4, <2>1, <2>2 DEF TypeOK
  <2>4. Phase(p)' /\ Made(p)' /\ Leads(p)' /\ KeyOfName(p)' /\ Found(p)'
    BY <1>1, <1>2, <1>5, <2>2 DEF Fine, Phase, Made, Leads, KeyOfName, Found, Keyed,
                                  Canonical, Resolve, IsLink
  <2>5. HasLocks(p)' /\ Replaced(p)'
    BY <1>1, <1>2, <2>1, <2>2 DEF Fine, HasLocks, Replaced, Keyed, Held, Clean
  <2>6. Quiet(p)
    BY <1>1, <1>3, <2>1, <2>2 DEF Quiet
  <2>7. QED  BY <2>3, <2>4, <2>5, <2>6, QuietKeeps DEF Fine
<1>6. CASE proc[p].for # "vacuum"
  <2>1. proc' = [proc EXCEPT ![p] = Idle] /\ Release(p)
    BY <1>1, <1>6 DEF Done
  <2>2. backup' \in [Names -> Stores]
    BY <1>1, <1>2 DEF TypeOK
  <2>3. QED  BY <1>1, <1>3, <1>4, <2>1, <2>2, IdleIs, EndKeeps
<1>7. QED  BY <1>5, <1>6

LEMMA RenameKeeps ==
  ASSUME LockInv, NEW p \in Procs, Rename(p)
  PROVE LockInv'
<1> DEFINE t == proc[p].to
           i == proc[p].temp
<1>1. /\ proc[p].pc = "rename" /\ entry' = [entry EXCEPT ![t] = i]
      /\ disk' = [disk EXCEPT ![t] = @ \cup {i}]
      /\ proc' = [proc EXCEPT ![p].pc = "sync"]
      /\ acked' \subseteq acked
      /\ stray' = IF t = proc[p].key THEN stray ELSE stray \cup {t}
      /\ UNCHANGED <<content, pathLock, inodeLock, backup, commits>>
      /\ UNCHANGED <<doubt, told, raced>>
  BY DEF Rename, locks
<1>2. /\ TypeOK /\ FilesMade /\ proc[p] \in Process
      /\ t \in Names /\ proc[p].key \in Names /\ proc[p].name \in Names
      /\ i \in Inodes /\ i \in DOMAIN content /\ i # Absent /\ i \notin Names
      /\ \A q \in Procs : Fine(q)
  <2>1. TypeOK /\ FilesMade /\ Fine(p) /\ proc[p] \in Process
    BY DEF LockInv, TypeOK
  <2>2. i # Absent /\ i \in Inodes \cup {Absent} /\ i \in DOMAIN content \cup {Absent}
    BY <1>1, <2>1 DEF Fine, Phase, Made, Process
  <2>3. QED  BY <1>1, <2>1, <2>2, AbsentIs DEF LockInv, Fine, Phase, Keyed
<1> HIDE DEF t, i
<1>3. /\ entry' \in [Names -> Names \cup Inodes \cup {Absent}]
      /\ entry'[t] = i /\ \A n \in Names \ {t} : entry'[n] = entry[n]
      /\ disk' \in [Names -> SUBSET (Names \cup Inodes \cup {Absent})]
      /\ disk'[t] = disk[t] \cup {i} /\ \A n \in Names \ {t} : disk'[n] = disk[n]
      /\ stray \subseteq stray' /\ stray' \subseteq Names
      /\ t \notin stray' => t = proc[p].key
  BY <1>1, <1>2 DEF TypeOK
<1>4. /\ proc' \in [Procs -> Process]
      /\ \A q \in Procs \ {p} : proc'[q] = proc[q]
      /\ proc'[p].pc = "sync" /\ proc'[p].for = proc[p].for
      /\ proc'[p].name = proc[p].name /\ proc'[p].to = t
      /\ proc'[p].key = proc[p].key /\ proc'[p].seen = proc[p].seen
      /\ proc'[p].ino = proc[p].ino /\ proc'[p].file = proc[p].file
      /\ proc'[p].temp = i
  BY <1>1, <1>2 DEF TypeOK, Process, t, i
<1>5. TypeOK'
  BY <1>1, <1>2, <1>3, <1>4 DEF TypeOK
<1>6. FilesMade'
  <2>1. \A n \in Names :
          /\ entry'[n] \in disk'[n]
          /\ disk'[n] \subseteq Names \cup DOMAIN content' \cup {Absent}
    BY <1>1, <1>2, <1>3 DEF FilesMade
  <2>2. \A n \in Names : disk'[n] \cap Names = disk[n] \cap Names
    BY <1>2, <1>3
  <2>3. \A n \in Names : \A e \in disk'[n] \cap Names : disk'[e] \subseteq DOMAIN content'
    BY <1>1, <1>2, <1>3, <2>2 DEF FilesMade
  <2>4. QED  BY <1>1, <1>2, <2>1, <2>3 DEF FilesMade
<1>7. ASSUME NEW q \in Procs
      PROVE Phase(q)' /\ Made(q)' /\ Leads(q)' /\ KeyOfName(q)' /\ HasLocks(q)'
  <2>1. /\ proc'[q].for = proc[q].for /\ proc'[q].name = proc[q].name
        /\ proc'[q].to = proc[q].to /\ proc'[q].key = proc[q].key
        /\ proc'[q].seen = proc[q].seen /\ proc'[q].ino = proc[q].ino
        /\ proc'[q].file = proc[q].file /\ proc'[q].temp = proc[q].temp
        /\ proc'[q].pc = IF q = p THEN "sync" ELSE proc[q].pc
        /\ Keyed(q)' <=> Keyed(q)
        /\ Held(q)' <=> Held(q)
    BY <1>1, <1>4 DEF Keyed, Held, t, i
  <2>2. Fine(q) /\ proc[q] \in Process
    BY <1>2 DEF TypeOK
  <2>3. Phase(q)' /\ Made(q)'
    BY <1>1, <1>2, <2>1, <2>2 DEF Fine, Phase, Made, Keyed
  <2>4. Leads(q)'
    <3>1. CASE proc[q].for = "migrate"
      <4>1. proc[q].name \in Names /\ Resolve(proc[q].name) # Absent
        BY <2>2, <3>1 DEF Fine, Leads, Phase, Keyed, Process
      <4>2. entry[proc[q].name] # Absent
            /\ (entry[proc[q].name] \in Names => entry[entry[proc[q].name]] # Absent)
        BY <4>1, AbsentIs DEF Resolve, IsLink
      <4>3. QED  BY <1>2, <1>3, <2>1, <4>1, <4>2 DEF Leads, Resolve, IsLink
    <3>2. QED  BY <2>1, <3>1 DEF Leads
  <2>5. KeyOfName(q)'
    <3>1. CASE Keyed(q)
      <4>1. /\ proc[q].key \in Names /\ proc[q].name \in Names
            /\ entry[proc[q].key] \notin Names
            /\ \/ Canonical(proc[q].name) = proc[q].key
               \/ proc[q].name \in stray /\ entry[proc[q].name] \notin Names
        BY <2>2, <3>1 DEF Fine, Phase, KeyOfName
      <4>2. entry[proc[p].key] \notin Names
        BY <1>1, <1>2 DEF Fine, KeyOfName, Keyed
      <4>3. proc[q].name = t /\ entry[t] \in Names => t \in stray'
        BY <1>3, <4>2
      <4>4. QED
        BY <1>2, <1>3, <2>1, <4>1, <4>3 DEF KeyOfName, Canonical, IsLink
    <3>2. QED  BY <2>1, <3>1 DEF KeyOfName
  <2>6. HasLocks(q)'
    BY <1>1, <1>3, <2>1, <2>2 DEF Fine, HasLocks, Clean
  <2>7. QED  BY <2>3, <2>4, <2>5, <2>6
<1>8. Found(p)' /\ Replaced(p)'
  BY <1>1, <1>2, <1>3, <1>4 DEF Found, Replaced
<1>9. ASSUME NEW q \in Procs \ {p}
      PROVE Found(q)' /\ Replaced(q)'
  <2>1. proc'[q] = proc[q] /\ Fine(q) /\ proc[q] \in Process
    BY <1>2, <1>4 DEF TypeOK
  <2>2. t \notin stray' /\ Held(q) => proc[q].key # t
    <3>1. pathLock[proc[p].key] = p
      BY <1>1, <1>2 DEF Fine, HasLocks, Held, Keyed
    <3>2. QED  BY <1>3, <2>1, <3>1 DEF Fine, HasLocks
  <2>3. Found(q)'
    <3>1. CASE Clean(q)' /\ proc[q].pc \in {"inode", "locked"}
      <4>1. /\ proc[q].key \in Names /\ proc[q].name \in Names /\ Held(q) /\ Keyed(q)
            /\ Clean(q) /\ proc[q].key \notin stray' /\ proc[q].name \notin stray'
        BY <1>3, <2>1, <3>1 DEF Fine, Phase, Keyed, Held, Clean
      <4>2. Canonical(proc[q].name) = proc[q].key /\ entry[proc[q].key] \notin Names
        BY <2>1, <4>1 DEF Fine, KeyOfName, Clean
      <4>3. entry[proc[p].key] \notin Names
        BY <1>1, <1>2 DEF Fine, KeyOfName, Keyed
      <4>4. proc[q].key # t
        BY <2>2, <4>1
      <4>5. proc[q].name # t
        BY <1>3, <4>1, <4>2, <4>3, <4>4 DEF Canonical, IsLink
      <4>6. Resolve(proc[q].name)' = Resolve(proc[q].name)
        BY <1>3, <2>1, <4>1, <4>2, <4>4, <4>5 DEF Resolve, IsLink, Canonical
      <4>7. QED  BY <2>1, <4>1, <4>6 DEF Fine, Found
    <3>2. QED  BY <2>1, <3>1 DEF Found
  <2>4. Replaced(q)'
    <3>1. CASE proc[q].pc \in {"sync", "reopen"}
      <4>1. proc[q].to \in Names /\ Held(q)
        BY <2>1, <3>1 DEF Fine, Phase, Keyed, Held
      <4>2. QED  BY <1>1, <1>2, <1>3, <2>1, <2>2, <4>1 DEF Fine, Replaced
    <3>2. QED  BY <2>1, <3>1 DEF Replaced
  <2>5. QED  BY <2>3, <2>4
<1>10. QED  BY <1>5, <1>6, <1>7, <1>8, <1>9 DEF LockInv, Fine

LEMMA ReopenKeeps ==
  ASSUME LockInv, NEW p \in Procs, Reopen(p)
  PROVE LockInv'
<1> DEFINE t == proc[p].to
           i == proc[p].temp
           f == Resolve(t)
           st == [proc[p] EXCEPT !.pc = "open", !.for = "open", !.file = f,
                                 !.ino = i, !.temp = Absent, !.name = t]
<1>1. /\ proc[p].pc = "reopen" /\ proc' = [proc EXCEPT ![p] = st]
      /\ inodeLock' = [j \in Inodes |-> IF inodeLock[j] = p /\ j # i THEN NoProc
                                        ELSE inodeLock[j]]
      /\ UNCHANGED <<entry, disk, content, pathLock, backup, commits>>
      /\ UNCHANGED <<acked, doubt, told, raced, stray>>
  BY DEF Reopen, files, history
<1>2. /\ TypeOK /\ FilesMade /\ Fine(p) /\ proc[p] \in Process
      /\ DOMAIN content \subseteq Inodes
  BY DEF LockInv, TypeOK
<1>3. /\ t \in Names /\ proc[p].key \in Names
      /\ i \in Inodes /\ i \in DOMAIN content /\ inodeLock[i] = p
  BY <1>1, <1>2 DEF Fine, Phase, Made, Keyed, HasLocks, Process
<1>4. /\ entry[t] \in DOMAIN content /\ entry[t] \notin Names /\ f = entry[t]
      /\ t \notin stray => t = proc[p].key /\ f = i
  BY <1>1, <1>2, AbsentIs DEF Fine, Replaced, Resolve, IsLink
<1>5. f \in Inodes /\ f # Absent
  BY <1>2, <1>4, AbsentIs
<1>6. /\ proc' \in [Procs -> Process]
      /\ \A q \in Procs \ {p} : proc'[q] = proc[q]
      /\ proc'[p].pc = "open" /\ proc'[p].for = "open"
      /\ proc'[p].name = t /\ proc'[p].to = t
      /\ proc'[p].key = proc[p].key /\ proc'[p].seen = proc[p].seen
      /\ proc'[p].ino = i /\ proc'[p].file = f
      /\ proc'[p].temp = Absent
  <2> HIDE DEF f, i
  <2>1. /\ st \in Process /\ st.pc = "open" /\ st.for = "open" /\ st.name = t
        /\ st.to = t /\ st.key = proc[p].key /\ st.seen = proc[p].seen
        /\ st.ino = i /\ st.file = f /\ st.temp = Absent
    BY <1>2, <1>3, <1>5, ZenonT(60) DEF Process
  <2> HIDE DEF st, t
  <2>2. /\ proc' \in [Procs -> Process] /\ proc'[p] = st
        /\ \A q \in Procs \ {p} : proc'[q] = proc[q]
    BY <1>1, <1>2, <2>1 DEF TypeOK
  <2>3. QED  BY <2>1, <2>2
<1> HIDE DEF st, f, i, t
<1>7. /\ inodeLock' \in [Inodes -> Procs \cup {NoProc}] /\ inodeLock'[i] = p
      /\ \A q \in Procs \ {p}, j \in Inodes : inodeLock[j] = q => inodeLock'[j] = q
      /\ \A j \in Inodes : inodeLock'[j] # NoProc => inodeLock'[j] = inodeLock[j]
  BY <1>1, <1>2, <1>3 DEF TypeOK
<1>8. TypeOK'
  BY <1>1, <1>2, <1>6, <1>7 DEF TypeOK
<1>9. Phase(p)' /\ Made(p)'
  BY <1>1, <1>2, <1>3, <1>4, <1>5, <1>6 DEF Fine, Phase, Made, Keyed
<1>10. Leads(p)' /\ Found(p)' /\ Replaced(p)'
  BY <1>6 DEF Leads, Found, Replaced
<1>11. KeyOfName(p)'
  <2>1. entry[proc[p].key] \notin Names
    BY <1>1, <1>2 DEF Fine, KeyOfName, Keyed
  <2>2. QED  BY <1>1, <1>4, <1>6, <2>1 DEF KeyOfName, Keyed, Canonical, IsLink
<1>12. HasLocks(p)'
  <2>1. pathLock[proc[p].key] = p
    BY <1>1, <1>2 DEF Fine, HasLocks, Held, Keyed
  <2>2. QED  BY <1>1, <1>4, <1>6, <1>7, <2>1 DEF HasLocks, Clean
<1>13. Quiet(p)
  BY <1>1, <1>6, <1>7 DEF Quiet
<1>14. QED  BY <1>8, <1>9, <1>10, <1>11, <1>12, <1>13, QuietKeeps DEF Fine

LEMMA ReopenFailsKeeps ==
  ASSUME LockInv, NEW p \in Procs, ReopenFails(p)
  PROVE LockInv'
<1> DEFINE n == proc[p].to
           d == proc[p].docs
           st == [Idle EXCEPT !.pc = "memory", !.name = n, !.docs = d]
<1>1. /\ Release(p) /\ proc' = [proc EXCEPT ![p] = st]
      /\ UNCHANGED <<entry, disk, content, backup, commits>>
      /\ UNCHANGED <<acked, doubt, told, raced, stray>>
  BY DEF ReopenFails, files, history
<1>2. TypeOK /\ proc[p] \in Process
  BY DEF LockInv, TypeOK
<1>3. /\ st \in Process /\ st.pc = "memory" /\ st.for = "none"
      /\ st.seen = Absent /\ st.ino = Absent /\ st.file = Absent /\ st.temp = Absent
  <2>1. n \in Names \cup {NoName} /\ d \subseteq 0 .. MaxCommits
    BY <1>2 DEF Process
  <2> HIDE DEF n, d
  <2>2. st \in Process
    BY <2>1, IdleIs DEF Process
  <2>3. QED  BY <2>2, IdleIs
<1> HIDE DEF st
<1>4. QED  BY <1>1, <1>2, <1>3, EndKeeps DEF TypeOK

LEMMA ProcessEndsKeeps ==
  ASSUME LockInv, NEW p \in Procs, ProcessEnds(p)
  PROVE LockInv'
<1>1. /\ Release(p) /\ proc' = [proc EXCEPT ![p] = Idle]
      /\ doubt' = IF proc[p].pc = "sync" THEN doubt \cup {proc[p].to} ELSE doubt
      /\ UNCHANGED <<entry, disk, content, backup, commits>>
      /\ UNCHANGED <<acked, told, raced, stray>>
  BY DEF ProcessEnds, files
<1>2. TypeOK /\ Fine(p)
  BY DEF LockInv
<1>3. doubt' \subseteq Names
  BY <1>1, <1>2 DEF TypeOK, Fine, Phase, Keyed
<1>4. QED  BY <1>1, <1>2, <1>3, IdleIs, EndKeeps DEF TypeOK

-----------------------------------------------------------------------------
(* The steps of others: a new link, a power failure.                       *)

LEMMA LinkKeeps ==
  ASSUME LockInv, NEW n \in Names, NEW m \in Names, Link(n, m)
  PROVE LockInv'
<1>1. /\ entry[n] = Absent /\ entry[m] \in Inodes
      /\ \A p \in Procs : proc[p].name # n
      /\ entry' = [entry EXCEPT ![n] = entry[m]]
      /\ disk' = [disk EXCEPT ![n] = {entry[m]}]
      /\ UNCHANGED <<content, pathLock, inodeLock, proc, backup, commits>>
      /\ UNCHANGED <<acked, doubt, told, raced, stray>>
  BY DEF Link, locks, history
<1>2. TypeOK /\ FilesMade /\ \A q \in Procs : Fine(q) /\ proc[q] \in Process
  BY DEF LockInv, TypeOK
<1> DEFINE i == entry[m]
<1>3. i \in DOMAIN content /\ i \in Inodes /\ i \notin Names /\ i # Absent
  BY <1>1, <1>2, AbsentIs DEF FilesMade
<1> HIDE DEF i
<1>4. /\ entry' \in [Names -> Names \cup Inodes \cup {Absent}]
      /\ entry'[n] = i /\ \A x \in Names \ {n} : entry'[x] = entry[x]
      /\ disk' \in [Names -> SUBSET (Names \cup Inodes \cup {Absent})]
      /\ disk'[n] = {i} /\ \A x \in Names \ {n} : disk'[x] = disk[x]
  BY <1>1, <1>2, <1>3 DEF TypeOK, i
<1>5. TypeOK'
  BY <1>1, <1>2, <1>4 DEF TypeOK
<1>6. FilesMade'
  <2>1. \A x \in Names :
          /\ entry'[x] \in disk'[x]
          /\ disk'[x] \subseteq Names \cup DOMAIN content' \cup {Absent}
    BY <1>1, <1>2, <1>3, <1>4 DEF FilesMade
  <2>2. \A x \in Names : \A e \in disk'[x] \cap Names : disk'[e] \subseteq DOMAIN content'
    BY <1>1, <1>2, <1>3, <1>4 DEF FilesMade
  <2>3. QED  BY <1>1, <1>2, <2>1, <2>2 DEF FilesMade
<1>7. ASSUME NEW q \in Procs
      PROVE Fine(q)'
  <2>1. Fine(q) /\ proc[q] \in Process /\ proc'[q] = proc[q] /\ proc[q].name # n
    BY <1>1, <1>2
  <2>2. Phase(q)' /\ Made(q)' /\ HasLocks(q)'
    BY <1>1, <2>1 DEF Fine, Phase, Made, HasLocks, Keyed, Held, Clean
  <2>3. proc[q].name \in Names =>
          /\ IsLink(proc[q].name)' <=> IsLink(proc[q].name)
          /\ Canonical(proc[q].name)' = Canonical(proc[q].name)
          /\ Canonical(proc[q].name) # n
             => Resolve(proc[q].name)' = Resolve(proc[q].name)
          /\ Canonical(proc[q].name) = n => Resolve(proc[q].name) = Absent
    BY <1>1, <1>4, <2>1 DEF Canonical, Resolve, IsLink
  <2>4. proc[q].name \in Names => Canonical(proc[q].name) # n
    <3>1. ASSUME NEW x \in Names, entry[x] = n
          PROVE FALSE
      <4>1. n \in disk[x] \cap Names /\ Absent \in disk[n]
        BY <1>1, <1>2, <3>1 DEF FilesMade
      <4>2. Absent \in DOMAIN content
        BY <1>2, <4>1 DEF FilesMade
      <4>3. QED  BY <1>2, <4>2, AbsentIs DEF TypeOK
    <3>2. QED  BY <2>1, <3>1 DEF Canonical, IsLink
  <2>5. Leads(q)'
    BY <1>2, <2>1, <2>3, <2>4 DEF Fine, Leads, Phase, Keyed, Process
  <2>6. KeyOfName(q)'
    <3>1. CASE Keyed(q)
      <4>1. proc[q].key \in Names /\ proc[q].name \in Names
        BY <2>1, <3>1 DEF Fine, Phase
      <4>2. entry'[proc[q].key] \notin Names
        BY <1>3, <1>4, <2>1, <3>1, <4>1 DEF Fine, KeyOfName
      <4>3. Keyed(q)' /\ stray' = stray /\ entry'[proc[q].name] = entry[proc[q].name]
        BY <1>1, <1>4, <2>1, <3>1, <4>1 DEF Keyed
      <4>4. QED
        BY <2>1, <2>3, <3>1, <4>1, <4>2, <4>3 DEF Fine, KeyOfName
    <3>2. CASE ~Keyed(q)
      BY <2>1, <3>2 DEF Keyed, KeyOfName
    <3>3. QED  BY <3>1, <3>2
  <2>7. Found(q)'
    <3>1. CASE proc[q].name \in Names
      BY <1>1, <2>1, <2>3, <2>4, <3>1 DEF Fine, Found, Clean
    <3>2. CASE proc[q].name \notin Names
      BY <2>1, <3>2 DEF Fine, Phase, Found, Keyed
    <3>3. QED  BY <3>1, <3>2
  <2>8. Replaced(q)'
    <3>1. CASE proc[q].pc \in {"sync", "reopen"}
      <4>1. proc[q].to \in Names /\ entry[proc[q].to] \in DOMAIN content
        BY <2>1, <3>1 DEF Fine, Phase, Keyed, Replaced
      <4>2. proc[q].to # n
        BY <1>1, <1>2, <4>1, AbsentIs DEF TypeOK
      <4>3. QED  BY <1>1, <1>4, <2>1, <4>1, <4>2 DEF Fine, Replaced
    <3>2. CASE proc[q].pc \notin {"sync", "reopen"}
      BY <2>1, <3>2 DEF Replaced
    <3>3. QED  BY <3>1, <3>2
  <2>9. QED  BY <2>2, <2>5, <2>6, <2>7, <2>8 DEF Fine
<1>8. QED  BY <1>5, <1>6, <1>7 DEF LockInv

LEMMA PowerFailureKeeps ==
  ASSUME LockInv, PowerFailure
  PROVE LockInv'
<1>1. /\ entry' \in {e \in [Names -> UNION {disk[n] : n \in Names}] :
                       \A n \in Names : e[n] \in disk[n]}
      /\ disk' = [n \in Names |-> {entry'[n]}]
      /\ proc' = [p \in Procs |-> Idle]
      /\ pathLock' = [n \in Names |-> NoProc]
      /\ inodeLock' = [i \in Inodes |-> NoProc]
      /\ backup' \in {b \in [Names -> {backup[n] : n \in Names} \cup {NoBackup}] :
                       \A n \in Names : b[n] \in {backup[n], NoBackup}}
      /\ doubt' = {} /\ told' = {}
      /\ UNCHANGED <<content, commits, acked, raced, stray>>
  BY DEF PowerFailure
<1>2. TypeOK /\ FilesMade
  BY DEF LockInv
<1>3. \A n \in Names : entry'[n] \in disk[n] /\ disk'[n] = {entry'[n]}
  BY <1>1
<1>4. \A p \in Procs : proc'[p] = Idle
  BY <1>1
<1>5. /\ entry' \in [Names -> Names \cup Inodes \cup {Absent}]
      /\ disk' \in [Names -> SUBSET (Names \cup Inodes \cup {Absent})]
  BY <1>1, <1>2, <1>3 DEF TypeOK
<1>6. backup' \in [Names -> Stores]
  <2>1. NoBackup \in Stores
    BY DEF NoBackup, Stores
  <2>2. QED  BY <1>1, <1>2, <2>1 DEF TypeOK
<1>7. /\ proc' \in [Procs -> Process] /\ pathLock' \in [Names -> Procs \cup {NoProc}]
      /\ inodeLock' \in [Inodes -> Procs \cup {NoProc}]
  BY <1>1, IdleIs
<1>8. TypeOK'
  BY <1>1, <1>2, <1>5, <1>6, <1>7 DEF TypeOK
<1>9. FilesMade'
  <2>1. \A n \in Names :
          /\ entry'[n] \in disk'[n]
          /\ disk'[n] \subseteq Names \cup DOMAIN content' \cup {Absent}
    BY <1>1, <1>2, <1>3 DEF FilesMade
  <2>2. \A n \in Names : \A e \in disk'[n] \cap Names : disk'[e] \subseteq DOMAIN content'
    BY <1>1, <1>2, <1>3 DEF FilesMade
  <2>3. \A i \in Inodes : inodeLock'[i] = NoProc
    BY <1>1
  <2>4. QED  BY <2>1, <2>2, <2>3 DEF FilesMade
<1>10. \A p \in Procs : Fine(p)'
  BY <1>4, IdleIs, RestingFine DEF Leads
<1>11. QED  BY <1>8, <1>9, <1>10 DEF LockInv

-----------------------------------------------------------------------------
(* Who holds what, in every state.                                         *)

LEMMA InitKeeps == Init => LockInv
<1> SUFFICES ASSUME Init PROVE LockInv
  OBVIOUS
<1>1. /\ entry \in Layouts /\ disk = [n \in Names |-> {entry[n]}]
      /\ content \in [{entry[n] : n \in Names} \cap Inodes ->
                        [docs : {{Original}}, legacy : BOOLEAN]]
      /\ pathLock = [n \in Names |-> NoProc]
      /\ inodeLock = [i \in Inodes |-> NoProc]
      /\ proc = [p \in Procs |-> Idle]
      /\ backup = [n \in Names |-> NoBackup]
      /\ commits = 0
      /\ acked = {<<n, Original>> : n \in {m \in Names : Resolve(m) # Absent}}
      /\ doubt = {} /\ told = {} /\ raced = FALSE /\ stray = {}
  BY DEF Init
<1>2. /\ entry \in [Names -> Names \cup Inodes \cup {Absent}]
      /\ \A n \in Names : entry[n] \in Names => entry[entry[n]] \in Inodes
  BY <1>1, LayoutsAssumption
<1>3. /\ DOMAIN content = {entry[n] : n \in Names} \cap Inodes
      /\ content \in [DOMAIN content -> Stores]
  <2>1. [docs : {{Original}}, legacy : BOOLEAN] \subseteq Stores
    BY NamesAssumption DEF Stores, Original
  <2>2. QED  BY <1>1, <2>1
<1>4. TypeOK
  <2>1. Original \in 0 .. MaxCommits
    BY NamesAssumption DEF Original
  <2>2. NoBackup \in Stores
    BY DEF NoBackup, Stores
  <2>3. acked \subseteq Names \X (0 .. MaxCommits)
    BY <1>1, <2>1
  <2>4. disk \in [Names -> SUBSET (Names \cup Inodes \cup {Absent})]
    BY <1>1, <1>2
  <2>5. proc \in [Procs -> Process]
    BY <1>1, IdleIs
  <2>6. QED
    BY <1>1, <1>2, <1>3, <2>1, <2>2, <2>3, <2>4, <2>5 DEF TypeOK, Original
<1>5. FilesMade
  BY <1>1, <1>2, <1>3 DEF FilesMade
<1>6. \A p \in Procs : Fine(p)
  BY <1>1, IdleIs DEF Fine, Phase, Made, Leads, KeyOfName, HasLocks, Found, Replaced,
                      Keyed, Held
<1>7. QED  BY <1>4, <1>5, <1>6 DEF LockInv

LEMMA NextKeeps == LockInv /\ [Next]_vars => LockInv'
<1> SUFFICES ASSUME LockInv, [Next]_vars PROVE LockInv'
  OBVIOUS
<1>1. CASE \E p \in Procs : Step(p)
  <2> PICK p \in Procs : Step(p)
    BY <1>1
  <2>1. ASSUME NEW n \in Names, Open(p, n) \/ Vacuum(p, n) \/ IndexNew(p, n) \/ Offer(p, n)
        PROVE LockInv'
    BY <2>1, OpenKeeps, VacuumKeeps, IndexNewKeeps, OfferKeeps
  <2>2. CASE LockPath(p) \/ StatInode(p) \/ LockInode(p) \/ Refused(p)
    BY <2>2, LockPathKeeps, StatInodeKeeps, LockInodeKeeps, RefusedKeeps
  <2>3. CASE OpenFile(p) \/ Commit(p) \/ CommitInMemory(p) \/ Save(p)
    BY <2>3, OpenFileKeeps, CommitKeeps, CommitInMemoryKeeps, SaveKeeps
  <2>4. CASE CopyBackup(p) \/ ReadLegacy(p)
    BY <2>4, CopyBackupKeeps, ReadLegacyKeeps
  <2>5. CASE Build(p) \/ BuildFails(p) \/ Rename(p) \/ SyncDirectory(p) \/ SyncFails(p)
    BY <2>5, BuildKeeps, BuildFailsKeeps, RenameKeeps, SyncDirectoryKeeps, SyncFailsKeeps
  <2>6. CASE Reopen(p) \/ ReopenFails(p) \/ ProcessEnds(p)
    BY <2>6, ReopenKeeps, ReopenFailsKeeps, ProcessEndsKeeps
  <2>7. QED  BY <2>1, <2>2, <2>3, <2>4, <2>5, <2>6 DEF Step
<1>2. CASE \E n, m \in Names : Link(n, m)
  BY <1>2, LinkKeeps
<1>3. CASE PowerFailure
  BY <1>3, PowerFailureKeeps
<1>4. CASE UNCHANGED vars
  <2>1. /\ UNCHANGED <<entry, disk, content, pathLock, inodeLock, proc, backup>>
        /\ UNCHANGED <<commits, acked, doubt, told, raced, stray>>
    BY <1>4 DEF vars, files, locks, history
  <2>2. TypeOK' /\ FilesMade'
    BY <2>1 DEF LockInv, TypeOK, FilesMade
  <2>3. ASSUME NEW p \in Procs
        PROVE Fine(p)'
    <3>1. Fine(p)
      BY DEF LockInv
    <3>2. Phase(p)' /\ Made(p)' /\ HasLocks(p)'
      BY <2>1, <3>1 DEF Fine, Phase, Made, HasLocks, Keyed, Held, Clean
    <3>3. Leads(p)' /\ KeyOfName(p)' /\ Found(p)' /\ Replaced(p)'
      BY <2>1, <3>1 DEF Fine, Leads, KeyOfName, Found, Replaced, Keyed, Clean,
                        Canonical, Resolve, IsLink
    <3>4. QED  BY <3>2, <3>3 DEF Fine
  <2>4. QED  BY <2>2, <2>3 DEF LockInv
<1>5. QED  BY <1>1, <1>2, <1>3, <1>4 DEF Next

(* In every state each process holds the locks of the files it writes and  *)
(* makes, and of the name it opened them by.                               *)
THEOREM LockInvariance == Spec => []LockInv
BY InitKeeps, NextKeeps, PTL DEF Spec

(* Every variable always holds a value of its declared range.              *)
THEOREM TypeCorrect == Spec => []TypeOK
<1>1. LockInv => TypeOK
  BY DEF LockInv
<1>2. QED  BY <1>1, LockInvariance, PTL

(* However many processes open, vacuum, save and migrate files, by         *)
(* whatever hard and symbolic links, no two have one file open for         *)
(* writing, unless one of their names was replaced by a process that did   *)
(* not hold its lock.                                                      *)
THEOREM OneWriter == Spec => []SingleWriter
<1>1. LockInv => SingleWriter
  <2> SUFFICES ASSUME LockInv, NEW p \in Procs, NEW q \in Procs, p # q,
                      IsWriter(p), IsWriter(q), proc[p].file = proc[q].file,
                      {proc[p].name, proc[p].key, proc[q].name, proc[q].key}
                        \cap stray = {}
               PROVE FALSE
    BY DEF SingleWriter
  <2>1. Clean(p) /\ Clean(q) /\ proc[p].file # Absent /\ proc[q].file # Absent
    BY DEF Clean, IsWriter
  <2>2. proc[p].ino = proc[p].file /\ inodeLock[proc[p].ino] = p
    BY <2>1 DEF LockInv, Fine, HasLocks
  <2>3. proc[q].ino = proc[q].file /\ inodeLock[proc[q].ino] = q
    BY <2>1 DEF LockInv, Fine, HasLocks
  <2>4. QED  BY <2>2, <2>3
<1>2. QED  BY <1>1, LockInvariance, PTL

-----------------------------------------------------------------------------
(* What a step that leaves the names alone keeps of what was acknowledged. *)

(* The files a name may lead to are those of its entries. *)
LEMMA EntriesLead ==
  LockInv => \A n \in Names :
    /\ \A i : i \in MayLeadTo(n) <=>
                \E e \in disk[n] : IF e \in Names THEN i \in disk[e] ELSE i = e
    /\ MayLeadTo(n) \subseteq DOMAIN content \cup {Absent}
    /\ Resolve(n) \in MayLeadTo(n)
<1> SUFFICES ASSUME LockInv, NEW n \in Names
             PROVE /\ \A i : i \in MayLeadTo(n) <=>
                        \E e \in disk[n] : IF e \in Names THEN i \in disk[e] ELSE i = e
                   /\ MayLeadTo(n) \subseteq DOMAIN content \cup {Absent}
                   /\ Resolve(n) \in MayLeadTo(n)
  OBVIOUS
<1>1. FilesMade
  BY DEF LockInv
<1> DEFINE W(e) == IF e \in Names THEN disk[e] ELSE {e}
<1>2. \A i : i \in UNION {W(e) : e \in disk[n]} <=> \E e \in disk[n] : i \in W(e)
  OBVIOUS
<1>3. Resolve(n) \in W(entry[n]) /\ entry[n] \in disk[n]
  BY <1>1 DEF FilesMade, Resolve, IsLink
<1>4. \A e \in disk[n] : W(e) \subseteq DOMAIN content \cup {Absent}
  BY <1>1 DEF FilesMade
<1>5. \A i : i \in MayLeadTo(n) <=> \E e \in disk[n] : i \in W(e)
  BY <1>2, <1>3 DEF MayLeadTo
<1> DEFINE M == MayLeadTo(n)
<1> HIDE DEF M
<1>6. M \subseteq DOMAIN content \cup {Absent} /\ Resolve(n) \in M
  BY <1>3, <1>4, <1>5 DEF M
<1>7. QED  BY <1>5, <1>6 DEF M

LEMMA EntriesLeadNext ==
  LockInv' => \A n \in Names :
    /\ \A i : i \in MayLeadTo(n)' <=>
                \E e \in disk'[n] : IF e \in Names THEN i \in disk'[e] ELSE i = e
    /\ MayLeadTo(n)' \subseteq DOMAIN content' \cup {Absent}
    /\ Resolve(n)' \in MayLeadTo(n)'
<1> DEFINE Says == \A n \in Names :
             /\ \A i : i \in MayLeadTo(n) <=>
                         \E e \in disk[n] : IF e \in Names THEN i \in disk[e] ELSE i = e
             /\ MayLeadTo(n) \subseteq DOMAIN content \cup {Absent}
             /\ Resolve(n) \in MayLeadTo(n)
<1>1. LockInv => Says
  BY EntriesLead
<1> HIDE DEF Says
<1>2. LockInv' => Says'
  BY <1>1, PTL
<1>3. QED  BY <1>2 DEF Says

(* No name leads elsewhere, no file loses a commit, and at most process p  *)
(* goes on.                                                                *)
Calm(p) ==
  /\ UNCHANGED <<entry, stray>>
  /\ \A n \in Names : disk'[n] \in {disk[n], {entry[n]}}
  /\ DOMAIN content \subseteq DOMAIN content'
  /\ \A i \in DOMAIN content : content[i].docs \subseteq content'[i].docs
  /\ \A q \in Procs \ {p} : proc'[q] = proc[q]

(* What the step acknowledges is under the name the process has locked, and *)
(* is found there.                                                          *)
Acknowledges(p) == \A a \in acked' \ acked :
  a[1] \in stray \/
    /\ Canonical(a[1]) = proc[p].key /\ Held(p)
    /\ \A i \in MayLeadTo(a[1])' : i # Absent /\ a[2] \in content'[i].docs

LEMMA SureOthers ==
  ASSUME LockInv, AckInv, NEW p \in Procs, Calm(p), Acknowledges(p),
         NEW q \in Procs \ {p}
  PROVE Sure(q)'
<1>1. /\ proc'[q] = proc[q] /\ UNCHANGED <<entry, stray>>
      /\ \A n \in Names : disk'[n] \in {disk[n], {entry[n]}}
      /\ \A i \in DOMAIN content : content[i].docs \subseteq content'[i].docs
  BY DEF Calm
<1>2. /\ Fine(q) /\ Fine(p) /\ Sure(q) /\ TypeOK /\ FilesMade /\ proc[q] \in Process
  BY DEF LockInv, AckInv, TypeOK
<1>3. KnowsAll(q) /\ Held(q) => KnowsAll(q)'
  <2> SUFFICES ASSUME KnowsAll(q), Held(q), NEW a \in acked', a[1] \notin stray,
                      Canonical(a[1]) = proc[q].key
               PROVE a[2] \in proc[q].docs
    BY <1>1 DEF KnowsAll, Canonical, IsLink
  <2>1. CASE a \in acked
    BY <2>1 DEF KnowsAll
  <2>2. CASE a \notin acked
    <3>1. Held(p) /\ proc[p].key = proc[q].key
      BY <2>2 DEF Acknowledges
    <3>2. QED  BY <1>2, <3>1 DEF Fine, HasLocks
  <2>3. QED  BY <2>1, <2>2
<1>4. Knows(q)'
  <2>1. proc[q].file # Absent => Held(q)
    BY <1>2 DEF Fine, Phase, Held, Keyed
  <2>2. proc[q].pc \in {"build", "rename", "sync", "reopen"} => Held(q)
    BY DEF Held, Keyed
  <2>3. QED  BY <1>1, <1>2, <1>3, <2>1, <2>2 DEF Sure, Knows, Resolve, IsLink
<1>5. KeyThere(q)'
  BY <1>1, <1>2 DEF Sure, KeyThere, Keyed
<1>6. Written(q)'
  <2>1. proc[q].temp # Absent => proc[q].temp \in DOMAIN content
    BY <1>2 DEF Fine, Made
  <2>2. \A n \in Names : disk'[n] \subseteq disk[n]
    BY <1>1, <1>2 DEF FilesMade
  <2>3. QED  BY <1>1, <1>2, <2>1, <2>2 DEF Sure, Written
<1>7. Steady(q)'
  BY <1>1, <1>2 DEF Sure, Steady, Clean, Resolve, IsLink
<1>8. QED  BY <1>4, <1>5, <1>6, <1>7 DEF Sure

LEMMA CalmKeeps ==
  ASSUME LockInv, AckInv, LockInv', NEW p \in Procs, Calm(p), Acknowledges(p),
         Unsynced', Sure(p)'
  PROVE AckInv'
<1>1. /\ UNCHANGED <<entry, stray>>
      /\ \A n \in Names : disk'[n] \in {disk[n], {entry[n]}}
      /\ \A i \in DOMAIN content : content[i].docs \subseteq content'[i].docs
  BY DEF Calm
<1>2. StableLinks'
  BY <1>1 DEF AckInv, StableLinks
<1>3. \A n \in Names : disk'[n] \subseteq disk[n]
  BY <1>1 DEF LockInv, FilesMade
<1>4. AcknowledgedSurvive'
  <2> SUFFICES ASSUME NEW a \in acked', a[1] \notin stray, Canonical(a[1]) \notin stray,
                      NEW i \in MayLeadTo(a[1])'
               PROVE i # Absent /\ a[2] \in content'[i].docs
    BY <1>1 DEF AcknowledgedSurvive, Canonical, IsLink
  <2>1. CASE a \in acked
    <3>1. a[1] \in Names
      BY <2>1 DEF LockInv, TypeOK
    <3>2. \E e \in disk'[a[1]] : IF e \in Names THEN i \in disk'[e] ELSE i = e
      BY <3>1, EntriesLeadNext
    <3>3. \E e \in disk[a[1]] : IF e \in Names THEN i \in disk[e] ELSE i = e
      BY <1>3, <3>1, <3>2
    <3>4. i \in MayLeadTo(a[1]) /\ i \in DOMAIN content \cup {Absent}
      BY <3>1, <3>3, EntriesLead
    <3>5. i # Absent /\ a[2] \in content[i].docs
      BY <2>1, <3>4 DEF AckInv, AcknowledgedSurvive
    <3>6. QED  BY <1>1, <3>4, <3>5
  <2>2. CASE a \notin acked
    BY <2>2 DEF Acknowledges
  <2>3. QED  BY <2>1, <2>2
<1>5. \A q \in Procs : Sure(q)'
  BY SureOthers
<1>6. QED  BY <1>2, <1>4, <1>5 DEF AckInv

LEMMA UnsyncedKept ==
  ASSUME AckInv, NEW p \in Procs, UNCHANGED <<entry, disk>>, doubt \subseteq doubt',
         \A q \in Procs \ {p} : proc'[q] = proc[q],
         proc[p].pc = "sync" => proc[p].to \in doubt'
  PROVE Unsynced'
<1> SUFFICES ASSUME NEW n \in Names, disk[n] # {entry[n]}, n \notin doubt'
             PROVE \E q \in Procs : proc'[q].pc = "sync" /\ proc'[q].to = n
  BY DEF Unsynced
<1>1. PICK q \in Procs : proc[q].pc = "sync" /\ proc[q].to = n
  BY DEF AckInv, Unsynced
<1>2. QED  BY <1>1

(* A step that changes nothing but locks and what process p is at. *)
LEMMA StillKeeps ==
  ASSUME LockInv, AckInv, LockInv', NEW p, p \in Procs,
         \A q \in Procs \ {p} : proc'[q] = proc[q],
         UNCHANGED <<entry, disk, content, acked, stray>>,
         doubt \subseteq doubt', proc[p].pc = "sync" => proc[p].to \in doubt',
         Sure(p)'
  PROVE AckInv'
<1>1. Calm(p) /\ Acknowledges(p)
  BY DEF Calm, Acknowledges
<1>2. Unsynced'
  BY UnsyncedKept
<1>3. QED  BY <1>1, <1>2, CalmKeeps

LEMMA RestingSure ==
  ASSUME NEW p, proc'[p].pc \in {"idle", "memory", "new", "copy"},
         proc'[p].file = Absent, proc'[p].temp = Absent
  PROVE Sure(p)'
BY DEF Sure, Knows, KeyThere, Written, Steady, Keyed

LEMMA EndKeepsAcked ==
  ASSUME LockInv, AckInv, LockInv', NEW p, NEW st, proc' = [proc EXCEPT ![p] = st],
         p \in Procs, st.pc \in {"idle", "memory", "new", "copy"},
         st.file = Absent, st.temp = Absent,
         UNCHANGED <<entry, disk, content, acked, stray>>,
         doubt \subseteq doubt', proc[p].pc = "sync" => proc[p].to \in doubt'
  PROVE AckInv'
<1>1. proc'[p] = st /\ \A q \in Procs \ {p} : proc'[q] = proc[q]
  BY DEF LockInv, TypeOK
<1>2. Sure(p)'
  BY <1>1, RestingSure
<1>3. QED  BY <1>1, <1>2, StillKeeps

LEMMA StartKeepsAcked ==
  ASSUME LockInv, AckInv, LockInv', NEW p, NEW for, NEW n, NEW docs,
         Start(p, for, n, docs), p \in Procs, for \in {"open", "save", "migrate"},
         n \in Names, docs \subseteq 0 .. MaxCommits, proc[p].pc # "sync",
         UNCHANGED <<files, history>>
  PROVE AckInv'
<1>1. TypeOK /\ FilesMade
  BY DEF LockInv
<1>2. Canonical(n) \in Names
  BY <1>1, LinksLead
<1>3. /\ \A q \in Procs \ {p} : proc'[q] = proc[q]
      /\ proc'[p].pc = "path" /\ proc'[p].name = n /\ proc'[p].key = Canonical(n)
      /\ proc'[p].file = Absent /\ proc'[p].temp = Absent
  <2>1. /\ proc' \in [Procs -> Process]
        /\ \A q \in Procs \ {p} : proc'[q] = proc[q]
        /\ proc'[p].pc = "path" /\ proc'[p].for = for /\ proc'[p].name = n
        /\ proc'[p].to = n /\ proc'[p].key = Canonical(n)
        /\ proc'[p].seen = Absent /\ proc'[p].ino = Absent
        /\ proc'[p].file = Absent /\ proc'[p].temp = Absent
        /\ proc'[p].docs = docs
    BY <1>1, <1>2, StartIs, Zenon
  <2>2. QED  BY <2>1
<1>4. UNCHANGED <<entry, disk, content>> /\ UNCHANGED <<acked, doubt, stray>>
  BY DEF files, history
<1>5. n # Canonical(n) => entry[Canonical(n)] # Absent
  <2>1. CASE entry[n] \in Names
    <3>1. entry[n] \in disk[n] \cap Names /\ entry[entry[n]] \in disk[entry[n]]
      BY <1>1, <2>1 DEF FilesMade
    <3>2. entry[entry[n]] \in DOMAIN content
      BY <1>1, <3>1 DEF FilesMade
    <3>3. QED  BY <1>1, <2>1, <3>2, AbsentIs DEF TypeOK, Canonical, IsLink
  <2>2. QED  BY <2>1 DEF Canonical, IsLink
<1>6. Sure(p)'
  BY <1>3, <1>4, <1>5 DEF Sure, Knows, KeyThere, Written, Steady
<1>7. QED  BY <1>3, <1>4, <1>6, StillKeeps

(* A process that has not opened its file yet. *)
LEMMA LockingKeepsAcked ==
  ASSUME LockInv, AckInv, LockInv', NEW p, p \in Procs,
         \A q \in Procs \ {p} : proc'[q] = proc[q],
         proc[p].pc \in {"path", "stat", "inode", "locked"},
         proc'[p].pc \in {"path", "stat", "inode", "locked"},
         proc'[p].name = proc[p].name, proc'[p].key = proc[p].key,
         proc'[p].file = proc[p].file, proc'[p].temp = proc[p].temp,
         UNCHANGED <<files, history>>
  PROVE AckInv'
<1>1. UNCHANGED <<entry, disk, content>> /\ UNCHANGED <<acked, doubt, stray>>
  BY DEF files, history
<1>2. proc[p].file = Absent /\ proc[p].temp = Absent /\ KeyThere(p)
  BY DEF LockInv, Fine, Phase, AckInv, Sure
<1>3. Sure(p)'
  BY <1>1, <1>2 DEF Sure, Knows, KeyThere, Written, Steady, Keyed
<1>4. QED  BY <1>1, <1>3, StillKeeps

LEMMA LockPathKeepsAcked ==
  ASSUME LockInv, AckInv, LockInv', NEW p \in Procs,
         LockPath(p) \/ StatInode(p) \/ LockInode(p)
  PROVE AckInv'
<1>1. /\ proc[p].pc \in {"path", "stat", "inode"} /\ UNCHANGED <<files, history>>
      /\ \/ proc' = [proc EXCEPT ![p].pc = "stat"]
         \/ proc' = [proc EXCEPT ![p].pc = "inode", ![p].seen = Resolve(proc[p].name)]
         \/ proc' = [proc EXCEPT ![p].pc = "locked", ![p].ino = proc[p].seen,
                                 ![p].seen = Absent]
  BY DEF LockPath, StatInode, LockInode
<1>2. proc[p] \in Process /\ proc \in [Procs -> Process]
  BY DEF LockInv, TypeOK
<1>3. /\ \A q \in Procs \ {p} : proc'[q] = proc[q]
      /\ proc'[p].pc \in {"path", "stat", "inode", "locked"}
      /\ proc'[p].name = proc[p].name /\ proc'[p].key = proc[p].key
      /\ proc'[p].file = proc[p].file /\ proc'[p].temp = proc[p].temp
  BY <1>1, <1>2 DEF Process
<1>4. QED  BY <1>1, <1>3, LockingKeepsAcked

(* The steps after which a process holds no lock, or none yet. *)
LEMMA UnlockedKeepsAcked ==
  ASSUME LockInv, AckInv, LockInv', NEW p \in Procs,
         \/ \E n \in Names : Open(p, n) \/ IndexNew(p, n) \/ Offer(p, n)
         \/ Refused(p) \/ Save(p) \/ CommitInMemory(p) \/ CopyBackup(p)
         \/ ReopenFails(p) \/ ProcessEnds(p)
  PROVE AckInv'
<1>1. TypeOK /\ Fine(p) /\ proc[p] \in Process
  BY DEF LockInv, TypeOK
<1>2. ASSUME NEW n \in Names, Open(p, n)
      PROVE AckInv'
  <2>1. Start(p, "open", n, {}) /\ UNCHANGED <<files, history>> /\ proc[p].pc # "sync"
    BY <1>2, IdleIs DEF Open
  <2>2. QED  BY <2>1, StartKeepsAcked
<1>3. CASE Save(p)
  <2>1. /\ Start(p, "save", proc[p].name, proc[p].docs)
        /\ UNCHANGED <<files, history>> /\ proc[p].pc = "new"
    BY <1>3 DEF Save
  <2>2. proc[p].name \in Names /\ proc[p].docs \subseteq 0 .. MaxCommits
    BY <1>1, <2>1 DEF Fine, Phase, Process
  <2>3. QED  BY <2>1, <2>2, StartKeepsAcked
<1>4. CASE CopyBackup(p)
  <2>1. /\ Start(p, "migrate", proc[p].name, {})
        /\ UNCHANGED <<files, history>> /\ proc[p].pc = "copy"
    BY <1>4 DEF CopyBackup
  <2>2. proc[p].name \in Names
    BY <1>1, <2>1 DEF Fine, Phase
  <2>3. QED  BY <2>1, <2>2, StartKeepsAcked
<1>5. ASSUME NEW n \in Names, IndexNew(p, n)
      PROVE AckInv'
  <2> DEFINE st == [Idle EXCEPT !.pc = "new", !.name = n, !.docs = {commits'}]
  <2>1. /\ proc' = [proc EXCEPT ![p] = st] /\ proc[p].pc # "sync"
        /\ UNCHANGED <<entry, disk, content, acked, stray, doubt>>
    BY <1>5, IdleIs DEF IndexNew, files, history
  <2>2. st.pc = "new" /\ st.file = Absent /\ st.temp = Absent
    BY IdleIs
  <2> HIDE DEF st
  <2>3. QED  BY <2>1, <2>2, EndKeepsAcked
<1>6. ASSUME NEW n \in Names, Offer(p, n)
      PROVE AckInv'
  <2> DEFINE st == [Idle EXCEPT !.pc = "copy", !.name = n, !.for = "migrate"]
  <2>1. /\ proc' = [proc EXCEPT ![p] = st] /\ proc[p].pc # "sync"
        /\ UNCHANGED <<entry, disk, content, acked, stray, doubt>>
    BY <1>6, IdleIs DEF Offer, files
  <2>2. st.pc = "copy" /\ st.file = Absent /\ st.temp = Absent
    BY IdleIs
  <2> HIDE DEF st
  <2>3. QED  BY <2>1, <2>2, EndKeepsAcked
<1>7. CASE Refused(p)
  <2>1. /\ proc' = [proc EXCEPT ![p] = Idle] /\ proc[p].pc # "sync"
        /\ UNCHANGED <<entry, disk, content, acked, stray, doubt>>
    BY <1>7 DEF Refused, IsHeld, files, history
  <2>2. QED  BY <2>1, IdleIs, EndKeepsAcked
<1>8. CASE CommitInMemory(p)
  <2> DEFINE st == [proc[p] EXCEPT !.docs = @ \cup {commits'}]
  <2>1. /\ proc' = [proc EXCEPT ![p] = st] /\ proc[p].pc = "memory"
        /\ UNCHANGED <<entry, disk, content, acked, stray, doubt>>
    BY <1>8 DEF CommitInMemory, files, history
  <2>2. st.pc = "memory" /\ st.file = Absent /\ st.temp = Absent
    BY <1>1, <2>1 DEF Fine, Phase, Process
  <2> HIDE DEF st
  <2>3. QED  BY <2>1, <2>2, EndKeepsAcked
<1>9. CASE ReopenFails(p)
  <2> DEFINE st == [Idle EXCEPT !.pc = "memory", !.name = proc[p].to,
                                !.docs = proc[p].docs]
  <2>1. /\ proc' = [proc EXCEPT ![p] = st] /\ proc[p].pc = "reopen"
        /\ UNCHANGED <<entry, disk, content, acked, stray, doubt>>
    BY <1>9 DEF ReopenFails, files, history
  <2>2. st.pc = "memory" /\ st.file = Absent /\ st.temp = Absent
    BY IdleIs
  <2> HIDE DEF st
  <2>3. QED  BY <2>1, <2>2, EndKeepsAcked
<1>10. CASE ProcessEnds(p)
  <2>1. /\ proc' = [proc EXCEPT ![p] = Idle]
        /\ doubt' = IF proc[p].pc = "sync" THEN doubt \cup {proc[p].to} ELSE doubt
        /\ UNCHANGED <<entry, disk, content, acked, stray>>
    BY <1>10 DEF ProcessEnds, files
  <2>2. QED  BY <2>1, IdleIs, EndKeepsAcked
<1>11. QED  BY <1>2, <1>3, <1>4, <1>5, <1>6, <1>7, <1>8, <1>9, <1>10

(* What is acknowledged is in the file that is there now. *)
LEMMA AckedIsThere ==
  ASSUME LockInv, AckInv, NEW a \in acked, a[1] \notin stray,
         Canonical(a[1]) \notin stray
  PROVE /\ Resolve(a[1]) \in DOMAIN content
        /\ Resolve(a[1]) = entry[Canonical(a[1])]
        /\ a[2] \in content[Resolve(a[1])].docs
<1>1. a[1] \in Names /\ TypeOK /\ FilesMade
  BY DEF LockInv, TypeOK
<1>2. Resolve(a[1]) = entry[Canonical(a[1])]
  BY <1>1, LinksLead
<1>3. /\ Resolve(a[1]) \in MayLeadTo(a[1])
      /\ MayLeadTo(a[1]) \subseteq DOMAIN content \cup {Absent}
  BY <1>1, EntriesLead
<1>4. Resolve(a[1]) # Absent /\ a[2] \in content[Resolve(a[1])].docs
  BY <1>3 DEF AckInv, AcknowledgedSurvive
<1>5. QED  BY <1>2, <1>3, <1>4

LEMMA OpenFileKeepsAcked ==
  ASSUME LockInv, AckInv, LockInv', NEW p \in Procs, OpenFile(p)
  PROVE AckInv'
<1> DEFINE i == Resolve(proc[p].name)
           k == proc[p].key
<1>1. /\ proc[p].pc = "locked" /\ proc[p].for = "open"
      /\ UNCHANGED <<entry, disk, content>> /\ UNCHANGED <<acked, doubt, stray>>
  BY DEF OpenFile, files, history
<1>2. /\ TypeOK /\ FilesMade /\ Fine(p) /\ Sure(p) /\ proc[p] \in Process
      /\ proc[p].name \in Names /\ k \in Names
  BY <1>1 DEF LockInv, TypeOK, Fine, Phase, Keyed, AckInv
<1>3. CASE i # Absent /\ ~content[i].legacy
  <2> DEFINE d == content[i].docs
  <2>1. proc' = [proc EXCEPT ![p].pc = "open", ![p].file = i, ![p].docs = d]
    BY <1>3 DEF OpenFile
  <2>2. k \notin stray /\ i = entry[k] =>
          \A a \in acked : a[1] \notin stray /\ Canonical(a[1]) = k => a[2] \in d
    BY AckedIsThere
  <2>3. k # proc[p].name \/ entry[k] = i
    BY <1>1, <1>2 DEF Fine, KeyOfName, Keyed, Resolve, IsLink
  <2> HIDE DEF d
  <2>4. /\ \A q \in Procs \ {p} : proc'[q] = proc[q]
        /\ proc'[p].pc = "open" /\ proc'[p].name = proc[p].name /\ proc'[p].key = k
        /\ proc'[p].file = i /\ proc'[p].temp = proc[p].temp /\ proc'[p].docs = d
    <3> HIDE DEF i
    <3>1. QED  BY <1>2, <2>1 DEF TypeOK, Process
  <2>5. proc[p].temp = Absent
    BY <1>1, <1>2 DEF Fine, Phase
  <2>6. Resolve(proc[p].name)' = i
    BY <1>1, <2>4 DEF Resolve, IsLink
  <2>7. Knows(p)'
    BY <1>1, <2>2, <2>4 DEF Knows, KnowsAll, Resolve, Canonical, IsLink
  <2>8. KeyThere(p)'
    BY <1>1, <1>2, <1>3, <2>3, <2>4 DEF Sure, KeyThere, Keyed
  <2>9. Written(p)' /\ Steady(p)'
    BY <1>1, <2>4, <2>5 DEF Written, Steady, Resolve, IsLink
  <2>10. QED  BY <1>1, <2>4, <2>7, <2>8, <2>9, StillKeeps DEF Sure
<1>4. CASE ~(i # Absent /\ ~content[i].legacy)
  <2>1. proc' = [proc EXCEPT ![p] = Idle]
    BY <1>4 DEF OpenFile
  <2>2. QED  BY <1>1, <2>1, IdleIs, EndKeepsAcked
<1>5. QED  BY <1>3, <1>4

LEMMA ReadLegacyKeepsAcked ==
  ASSUME LockInv, AckInv, LockInv', NEW p \in Procs, ReadLegacy(p)
  PROVE AckInv'
<1> DEFINE i == Resolve(proc[p].name)
           k == proc[p].key
<1>1. /\ proc[p].pc = "locked" /\ proc[p].for = "migrate"
      /\ UNCHANGED <<entry, disk, content>> /\ UNCHANGED <<acked, doubt, stray>>
  BY DEF ReadLegacy, files
<1>2. /\ TypeOK /\ FilesMade /\ Fine(p) /\ Sure(p) /\ proc[p] \in Process
      /\ proc[p].name \in Names /\ k \in Names /\ proc[p].to = proc[p].name
  BY <1>1 DEF LockInv, TypeOK, Fine, Phase, Keyed, AckInv
<1>3. CASE content[i].legacy
  <2> DEFINE d == content[i].docs
  <2>1. proc' = [proc EXCEPT ![p].pc = "build", ![p].docs = d]
    BY <1>3 DEF ReadLegacy
  <2>2. k \notin stray /\ k = proc[p].name =>
          \A a \in acked : a[1] \notin stray /\ Canonical(a[1]) = k => a[2] \in d
    <3>1. k = proc[p].name => i = entry[k]
      BY <1>1, <1>2 DEF Fine, KeyOfName, Keyed, Resolve, IsLink
    <3>2. QED  BY <3>1, AckedIsThere
  <2> HIDE DEF d, i
  <2>3. /\ \A q \in Procs \ {p} : proc'[q] = proc[q]
        /\ proc'[p].pc = "build" /\ proc'[p].name = proc[p].name
        /\ proc'[p].key = k /\ proc'[p].to = proc[p].to
        /\ proc'[p].file = proc[p].file /\ proc'[p].temp = proc[p].temp
        /\ proc'[p].docs = d
    BY <1>2, <2>1 DEF TypeOK, Process
  <2>4. proc[p].temp = Absent /\ proc[p].file = Absent
    BY <1>1, <1>2 DEF Fine, Phase
  <2>5. Knows(p)'
    BY <1>1, <1>2, <2>2, <2>3, <2>4 DEF Knows, KnowsAll, Canonical, IsLink
  <2>6. KeyThere(p)'
    BY <1>1, <1>2, <2>3, <2>4 DEF Sure, KeyThere, Keyed
  <2>7. Written(p)' /\ Steady(p)'
    BY <1>1, <2>3, <2>4 DEF Written, Steady
  <2>8. QED  BY <1>1, <2>3, <2>5, <2>6, <2>7, StillKeeps DEF Sure
<1>4. CASE ~content[i].legacy
  <2>1. proc' = [proc EXCEPT ![p] = Idle]
    BY <1>4 DEF ReadLegacy
  <2>2. QED  BY <1>1, <2>1, IdleIs, EndKeepsAcked
<1>5. QED  BY <1>3, <1>4

LEMMA VacuumKeepsAcked ==
  ASSUME LockInv, AckInv, LockInv', NEW p \in Procs, NEW n \in Names, Vacuum(p, n)
  PROVE AckInv'
<1> DEFINE st == [proc[p] EXCEPT !.pc = "build", !.for = "vacuum", !.to = n]
<1>1. /\ proc[p].pc = "open" /\ Resolve(n) = Resolve(proc[p].name)
      /\ proc' = [proc EXCEPT ![p] = st]
      /\ UNCHANGED <<entry, disk, content>> /\ UNCHANGED <<acked, doubt, stray>>
  BY DEF Vacuum, files, history
<1>2. TypeOK /\ FilesMade /\ Fine(p) /\ Sure(p) /\ proc[p] \in Process
  BY DEF LockInv, AckInv, TypeOK
<1>3. /\ \A q \in Procs \ {p} : proc'[q] = proc[q]
      /\ proc'[p].pc = "build" /\ proc'[p].for = "vacuum" /\ proc'[p].to = n
      /\ proc'[p].name = proc[p].name /\ proc'[p].key = proc[p].key
      /\ proc'[p].file = proc[p].file /\ proc'[p].temp = proc[p].temp
      /\ proc'[p].docs = proc[p].docs /\ proc'[p].failed = proc[p].failed
  <2>1. /\ st.pc = "build" /\ st.for = "vacuum" /\ st.to = n
        /\ st.name = proc[p].name /\ st.key = proc[p].key /\ st.file = proc[p].file
        /\ st.temp = proc[p].temp /\ st.docs = proc[p].docs
        /\ st.failed = proc[p].failed
    BY <1>2 DEF Process
  <2> HIDE DEF st
  <2>2. QED  BY <1>1, <1>2, <2>1 DEF TypeOK
<1>4. proc[p].file # Absent /\ proc[p].temp = Absent
  BY <1>1, <1>2 DEF Fine, Phase
<1>5. proc[p].key \notin stray /\ n = proc[p].key => KnowsAll(p)
  <2>1. entry[proc[p].key] \notin Names
    BY <1>1, <1>2 DEF Fine, KeyOfName, Keyed
  <2>2. n = proc[p].key => Resolve(n) = entry[proc[p].key]
    BY <2>1 DEF Resolve, IsLink
  <2>3. QED  BY <1>1, <1>2, <1>4, <2>2 DEF Sure, Knows
<1>6. KnowsAll(p) => KnowsAll(p)'
  BY <1>1, <1>3 DEF KnowsAll, Canonical, IsLink
<1>7. Knows(p)'
  BY <1>1, <1>2, <1>3, <1>4, <1>5, <1>6 DEF Sure, Knows, Resolve, IsLink
<1>8. KeyThere(p)'
  BY <1>1, <1>2, <1>3 DEF Sure, KeyThere, Keyed
<1>9. Written(p)' /\ Steady(p)'
  BY <1>1, <1>2, <1>3, <1>4 DEF Sure, Written, Steady, Clean, Resolve, IsLink
<1>10. QED  BY <1>1, <1>3, <1>7, <1>8, <1>9, StillKeeps DEF Sure

LEMMA BuildKeepsAcked ==
  ASSUME LockInv, AckInv, LockInv', NEW p \in Procs, Build(p)
  PROVE AckInv'
<1>1. /\ proc[p].pc = "build" \/ (proc[p].pc = "locked" /\ proc[p].for = "save")
      /\ UNCHANGED <<entry, disk>> /\ UNCHANGED <<acked, doubt, stray>>
  BY DEF Build, history
<1>2. PICK i \in Inodes :
        /\ i \notin DOMAIN content
        /\ content' = [j \in DOMAIN content \cup {i} |->
                         IF j = i THEN [docs |-> proc[p].docs, legacy |-> FALSE]
                         ELSE content[j]]
        /\ proc' = [proc EXCEPT ![p].pc = "rename", ![p].temp = i]
  BY DEF Build
<1>3. TypeOK /\ FilesMade /\ Fine(p) /\ Sure(p) /\ proc[p] \in Process
  BY DEF LockInv, AckInv, TypeOK
<1>4. /\ \A q \in Procs \ {p} : proc'[q] = proc[q]
      /\ proc'[p].pc = "rename" /\ proc'[p].for = proc[p].for
      /\ proc'[p].name = proc[p].name /\ proc'[p].to = proc[p].to
      /\ proc'[p].key = proc[p].key /\ proc'[p].file = proc[p].file
      /\ proc'[p].temp = i /\ proc'[p].docs = proc[p].docs
      /\ proc'[p].failed = proc[p].failed
  BY <1>2, <1>3 DEF TypeOK, Process
<1>5. /\ DOMAIN content \subseteq DOMAIN content'
      /\ \A j \in DOMAIN content : content'[j] = content[j]
      /\ content'[i].docs = proc[p].docs
  BY <1>2
<1>6. Calm(p) /\ Acknowledges(p)
  BY <1>1, <1>4, <1>5 DEF Calm, Acknowledges
<1>7. Unsynced'
  BY <1>1, <1>4, UnsyncedKept
<1>8. Knows(p)' /\ KeyThere(p)'
  <2>1. KnowsAll(p) => KnowsAll(p)'
    BY <1>1, <1>4 DEF KnowsAll, Canonical, IsLink
  <2>2. Knows(p)'
    BY <1>1, <1>3, <1>4, <2>1 DEF Sure, Knows, Resolve, IsLink
  <2>3. QED  BY <1>1, <1>3, <1>4, <2>2 DEF Sure, KeyThere, Keyed
<1>9. Written(p)'
  <2>1. \A n \in Names : i \notin disk[n]
    BY <1>2, <1>3, AbsentIs DEF FilesMade
  <2>2. QED  BY <1>1, <1>4, <1>5, <2>1 DEF Written
<1>10. Steady(p)'
  <2>1. proc[p].pc = "locked" => proc[p].file = Absent
    BY <1>3 DEF Fine, Phase
  <2>2. QED
    BY <1>1, <1>3, <1>4, <2>1 DEF Sure, Steady, Clean, Resolve, IsLink
<1>11. QED  BY <1>6, <1>7, <1>8, <1>9, <1>10, CalmKeeps DEF Sure

LEMMA FailKeepsAcked ==
  ASSUME LockInv, AckInv, LockInv', NEW p, NEW failed, Fail(p, failed),
         p \in Procs, failed \in BOOLEAN, proc[p].pc \in {"rename", "sync"},
         proc[p].failed \/ proc[p].pc = "sync" => failed,
         doubt \subseteq doubt', proc[p].pc = "sync" => proc[p].to \in doubt',
         UNCHANGED <<entry, disk, content, acked, stray>>
  PROVE AckInv'
<1>1. TypeOK /\ Fine(p) /\ Sure(p) /\ proc[p] \in Process
  BY DEF LockInv, AckInv, TypeOK
<1>2. CASE proc[p].for = "vacuum"
  <2>1. /\ \A q \in Procs \ {p} : proc'[q] = proc[q]
        /\ proc'[p].pc = "open" /\ proc'[p].temp = Absent
        /\ proc'[p].name = proc[p].name /\ proc'[p].key = proc[p].key
        /\ proc'[p].file = proc[p].file /\ proc'[p].docs = proc[p].docs
        /\ (proc'[p].failed <=> failed)
    BY <1>2, VacuumFails
  <2>2. KnowsAll(p) => KnowsAll(p)'
    BY <2>1 DEF KnowsAll, Canonical, IsLink
  <2>3. Knows(p)'
    BY <1>1, <2>1, <2>2 DEF Sure, Knows, Resolve, IsLink
  <2>4. KeyThere(p)'
    BY <1>1, <2>1 DEF Sure, KeyThere, Keyed
  <2>5. Written(p)' /\ Steady(p)'
    BY <1>1, <2>1 DEF Sure, Written, Steady, Clean, Resolve, IsLink
  <2>6. QED  BY <2>1, <2>3, <2>4, <2>5, StillKeeps DEF Sure
<1>3. CASE proc[p].for # "vacuum"
  <2>1. proc' = [proc EXCEPT ![p] = Idle]
    BY <1>3 DEF Fail
  <2>2. QED  BY <2>1, IdleIs, EndKeepsAcked
<1>4. QED  BY <1>2, <1>3

LEMMA BuildFailsKeepsAcked ==
  ASSUME LockInv, AckInv, LockInv', NEW p \in Procs, BuildFails(p)
  PROVE AckInv'
<1>1. /\ proc[p].pc = "rename" /\ Fail(p, proc[p].failed)
      /\ UNCHANGED <<entry, disk, content, acked, stray>> /\ doubt' = doubt
  BY DEF BuildFails, files, history
<1>2. proc[p].failed \in BOOLEAN
  BY DEF LockInv, TypeOK, Process
<1> DEFINE failed == proc[p].failed
<1>3. failed \in BOOLEAN /\ Fail(p, failed) /\ (proc[p].failed => failed)
  BY <1>1, <1>2
<1> HIDE DEF failed
<1>4. QED  BY <1>1, <1>3, FailKeepsAcked

LEMMA SyncFailsKeepsAcked ==
  ASSUME LockInv, AckInv, LockInv', NEW p \in Procs, SyncFails(p)
  PROVE AckInv'
<1>1. /\ proc[p].pc = "sync" /\ Fail(p, TRUE) /\ doubt' = doubt \cup {proc[p].to}
      /\ UNCHANGED <<entry, disk, content, acked, stray>>
  BY DEF SyncFails, files
<1> DEFINE failed == TRUE
<1>2. failed \in BOOLEAN /\ Fail(p, failed) /\ failed
  BY <1>1
<1> HIDE DEF failed
<1>3. QED  BY <1>1, <1>2, FailKeepsAcked

LEMMA ReopenKeepsAcked ==
  ASSUME LockInv, AckInv, LockInv', NEW p \in Procs, Reopen(p)
  PROVE AckInv'
<1> DEFINE t == proc[p].to
           i == proc[p].temp
           f == Resolve(t)
           st == [proc[p] EXCEPT !.pc = "open", !.for = "open", !.file = f,
                                 !.ino = i, !.temp = Absent, !.name = t]
<1>1. /\ proc[p].pc = "reopen" /\ proc' = [proc EXCEPT ![p] = st]
      /\ UNCHANGED <<entry, disk, content>> /\ UNCHANGED <<acked, doubt, stray>>
  BY DEF Reopen, files, history
<1>2. TypeOK /\ FilesMade /\ Fine(p) /\ Sure(p) /\ proc[p] \in Process
  BY DEF LockInv, AckInv, TypeOK
<1>3. /\ proc[p].for = "vacuum" /\ proc[p].file # Absent
      /\ entry[t] \in DOMAIN content /\ entry[t] \notin Names /\ f = entry[t]
  BY <1>1, <1>2, AbsentIs DEF Fine, Phase, Replaced, TypeOK, Resolve, IsLink
<1>4. /\ \A q \in Procs \ {p} : proc'[q] = proc[q]
      /\ proc'[p].pc = "open" /\ proc'[p].name = t
      /\ proc'[p].key = proc[p].key /\ proc'[p].file = f
      /\ proc'[p].temp = Absent /\ proc'[p].docs = proc[p].docs
  <2> HIDE DEF f, i
  <2>1. /\ st.pc = "open" /\ st.name = t /\ st.key = proc[p].key
        /\ st.file = f /\ st.temp = Absent /\ st.docs = proc[p].docs
    BY <1>2 DEF Process
  <2> HIDE DEF st, t
  <2>2. QED  BY <1>1, <1>2, <2>1 DEF TypeOK
<1> HIDE DEF st, f
<1>5. KnowsAll(p) => KnowsAll(p)'
  BY <1>1, <1>4 DEF KnowsAll, Canonical, IsLink
<1>6. Knows(p)'
  <2>1. entry' = entry /\ stray' = stray
    BY <1>1
  <2>2. Resolve(proc[p].name)' = f
    BY <1>3, <1>4, <2>1 DEF Resolve, IsLink, t
  <2>3. proc[p].key \notin stray => KnowsAll(p) \/ f # entry[proc[p].key]
    BY <1>1, <1>2, <1>3 DEF Sure, Knows, t
  <2>4. QED  BY <1>4, <1>5, <2>1, <2>2, <2>3 DEF Knows
<1>7. KeyThere(p)'
  BY <1>1, <1>2, <1>3, <1>4 DEF Sure, KeyThere, Keyed
<1>8. Written(p)' /\ Steady(p)'
  BY <1>1, <1>3, <1>4 DEF Written, Steady, Resolve, IsLink, t
<1>9. QED  BY <1>1, <1>4, <1>6, <1>7, <1>8, StillKeeps DEF Sure

(* Under its lock a name whose entry is synced leads to one file. *)
LEMMA LeadsToOneFile ==
  ASSUME LockInv, AckInv, NEW p \in Procs, Held(p), proc[p].pc # "sync", Clean(p),
         proc[p].name \notin doubt, proc[p].key \notin doubt
  PROVE /\ Canonical(proc[p].name) = proc[p].key
        /\ MayLeadTo(proc[p].name) = {Resolve(proc[p].name)}
<1> DEFINE n == proc[p].name
           k == proc[p].key
<1>1. /\ n \in Names /\ k \in Names /\ Canonical(n) = k /\ entry[k] \notin Names
      /\ pathLock[k] = p
  BY DEF LockInv, Fine, Phase, KeyOfName, HasLocks, Held, Clean
<1>2. ASSUME disk[k] # {entry[k]}
      PROVE FALSE
  <2>1. PICK q \in Procs : proc[q].pc = "sync" /\ proc[q].to = k
    BY <1>1, <1>2 DEF AckInv, Unsynced
  <2>2. proc[q].key = k /\ pathLock[k] = q
    BY <2>1 DEF LockInv, Fine, Replaced, HasLocks, Held, Keyed, Clean
  <2>3. QED  BY <1>1, <2>1, <2>2
<1>3. ASSUME disk[n] # {entry[n]}, n # k
      PROVE FALSE
  <2>1. PICK q \in Procs : proc[q].pc = "sync" /\ proc[q].to = n
    BY <1>1, <1>3 DEF AckInv, Unsynced
  <2>2. proc[q].key = n /\ entry[n] \notin Names
    BY <2>1 DEF LockInv, Fine, Replaced, KeyOfName, Keyed, Clean
  <2>3. QED  BY <1>1, <1>3, <2>2 DEF Canonical, IsLink
<1>4. disk[n] = {entry[n]} /\ disk[k] = {entry[k]}
  BY <1>2, <1>3
<1>5. \A i : i \in MayLeadTo(n) <=> i = Resolve(n)
  <2>1. entry[n] \in Names => entry[n] = k
    BY <1>1 DEF Canonical, IsLink
  <2>2. QED  BY <1>1, <1>4, <2>1, EntriesLead DEF Resolve, IsLink
<1>6. QED  BY <1>1, <1>5

LEMMA CommitKeepsAcked ==
  ASSUME LockInv, AckInv, LockInv', NEW p \in Procs, Commit(p)
  PROVE AckInv'
<1> DEFINE f == proc[p].file
           c == commits'
           n == proc[p].name
<1>1. /\ proc[p].pc = "open"
      /\ content' = [content EXCEPT ![f].docs = @ \cup {c}]
      /\ proc' = [proc EXCEPT ![p].docs = @ \cup {c}]
      /\ acked' = IF \/ proc[p].failed
                     \/ \E x \in doubt \cup stray : x \in {n, Canonical(n)}
                  THEN acked ELSE acked \cup {<<n, c>>}
      /\ UNCHANGED <<entry, disk, doubt, stray>>
  BY DEF Commit
<1>2. /\ TypeOK /\ FilesMade /\ Fine(p) /\ Sure(p) /\ proc[p] \in Process
      /\ n \in Names /\ f \in DOMAIN content /\ f # Absent /\ Held(p)
      /\ proc[p].temp = Absent
  BY <1>1 DEF LockInv, AckInv, TypeOK, Fine, Phase, Keyed, Held, Made
<1> HIDE DEF f, c, n
<1>3. /\ \A q \in Procs \ {p} : proc'[q] = proc[q]
      /\ proc'[p].pc = "open" /\ proc'[p].name = proc[p].name
      /\ proc'[p].key = proc[p].key /\ proc'[p].file = f
      /\ proc'[p].temp = Absent /\ proc'[p].docs = proc[p].docs \cup {c}
      /\ proc'[p].failed = proc[p].failed
  BY <1>1, <1>2 DEF TypeOK, Process, f
<1>4. /\ DOMAIN content' = DOMAIN content
      /\ \A i \in DOMAIN content : content[i].docs \subseteq content'[i].docs
      /\ c \in content'[f].docs
  BY <1>1, <1>2 DEF TypeOK, Stores
<1>5. Calm(p)
  BY <1>1, <1>3, <1>4 DEF Calm
<1>6. Acknowledges(p)
  <2> SUFFICES ASSUME NEW a \in acked' \ acked
               PROVE /\ Canonical(a[1]) = proc[p].key /\ Held(p)
                     /\ \A i \in MayLeadTo(a[1])' : i # Absent /\ a[2] \in content'[i].docs
    BY DEF Acknowledges
  <2>1. /\ a = <<n, c>> /\ ~proc[p].failed
        /\ n \notin doubt \cup stray /\ Canonical(n) \notin doubt \cup stray
    BY <1>1
  <2>2. Canonical(n) = proc[p].key
    BY <1>1, <1>2, <2>1 DEF Fine, KeyOfName, Keyed, n
  <2>3. Clean(p)
    BY <2>1, <2>2 DEF Clean, n
  <2>4. Resolve(n) = f
    BY <1>1, <1>2, <2>1, <2>3 DEF Sure, Steady, n, f
  <2>5. MayLeadTo(n) = {f}
    BY <1>1, <1>2, <2>1, <2>2, <2>3, <2>4, LeadsToOneFile DEF n
  <2>6. \A x \in Names : \A i : i \in MayLeadTo(x)' => i \in MayLeadTo(x)
    BY <1>1, EntriesLead, EntriesLeadNext
  <2>7. QED  BY <1>2, <1>4, <2>1, <2>2, <2>5, <2>6
<1>7. Unsynced'
  BY <1>1, <1>3, UnsyncedKept
<1>8. Sure(p)'
  <2>1. KnowsAll(p) => KnowsAll(p)'
    BY <1>1, <1>3 DEF KnowsAll, Canonical, IsLink
  <2>2. Knows(p)'
    BY <1>1, <1>2, <1>3, <2>1 DEF Sure, Knows, Resolve, IsLink, f
  <2>3. KeyThere(p)'
    BY <1>1, <1>2, <1>3 DEF Sure, KeyThere, Keyed, f
  <2>4. Written(p)' /\ Steady(p)'
    BY <1>1, <1>2, <1>3 DEF Sure, Written, Steady, Clean, Resolve, IsLink, f
  <2>5. QED  BY <2>2, <2>3, <2>4 DEF Sure
<1>9. QED  BY <1>5, <1>6, <1>7, <1>8, CalmKeeps

LEMMA SyncDirectoryKeepsAcked ==
  ASSUME LockInv, AckInv, LockInv', NEW p \in Procs, SyncDirectory(p)
  PROVE AckInv'
<1> DEFINE t == proc[p].to
<1>1. /\ proc[p].pc = "sync" /\ Done(p)
      /\ disk' = [disk EXCEPT ![t] = {entry[t]}]
      /\ acked' = AckedBy(p) /\ doubt' = doubt \ {t}
      /\ UNCHANGED <<entry, content, stray>>
  BY DEF SyncDirectory
<1>2. /\ TypeOK /\ FilesMade /\ Fine(p) /\ Sure(p) /\ proc[p] \in Process /\ t \in Names
      /\ Held(p)
  BY <1>1 DEF LockInv, AckInv, TypeOK, Fine, Phase, Keyed, Held
<1>3. \A n \in Names : disk'[n] = IF n = t THEN {entry[n]} ELSE disk[n]
  BY <1>1, <1>2 DEF TypeOK
<1>4. \A q \in Procs \ {p} : proc'[q] = proc[q]
  BY <1>1, <1>2 DEF Done, TypeOK
<1>5. Calm(p)
  BY <1>1, <1>3, <1>4 DEF Calm
<1>6. Acknowledges(p)
  <2> SUFFICES ASSUME NEW a \in acked' \ acked, a[1] \notin stray
               PROVE /\ Canonical(a[1]) = proc[p].key
                     /\ \A i \in MayLeadTo(a[1])' : i # Absent /\ a[2] \in content'[i].docs
    BY <1>2 DEF Acknowledges
  <2>1. PICK c \in proc[p].docs : a = <<t, c>> /\ proc[p].for = "save"
    BY <1>1 DEF AckedBy
  <2>2. t = proc[p].key /\ entry[t] = proc[p].temp /\ entry[t] \notin Names
    BY <1>1, <1>2, <2>1 DEF Fine, Replaced, KeyOfName, Keyed
  <2>3. \A i : i \in MayLeadTo(a[1])' => i = proc[p].temp
    <3>1. /\ a[1] \in Names /\ disk'[a[1]] = {proc[p].temp}
          /\ proc[p].temp \notin Names
      BY <1>2, <1>3, <2>1, <2>2
    <3>2. QED  BY <3>1, EntriesLeadNext
  <2>4. proc[p].temp # Absent /\ c \in content[proc[p].temp].docs
    BY <1>1, <1>2 DEF Fine, Phase, Sure, Written
  <2>5. QED  BY <1>1, <2>1, <2>2, <2>3, <2>4 DEF Canonical, IsLink
<1>7. Unsynced'
  <2> SUFFICES ASSUME NEW n \in Names, disk'[n] # {entry'[n]}, n \notin doubt'
               PROVE \E q \in Procs : proc'[q].pc = "sync" /\ proc'[q].to = n
    BY DEF Unsynced
  <2>1. n # t /\ disk[n] # {entry[n]} /\ n \notin doubt
    BY <1>1, <1>3
  <2>2. PICK q \in Procs : proc[q].pc = "sync" /\ proc[q].to = n
    BY <2>1 DEF AckInv, Unsynced
  <2>3. QED  BY <1>4, <2>1, <2>2
<1>8. Sure(p)'
  <2>1. CASE proc[p].for = "vacuum"
    <3>1. proc' = [proc EXCEPT ![p].pc = "reopen"]
      BY <1>1, <2>1 DEF Done
    <3> HIDE DEF t
    <3>2. /\ proc'[p].pc = "reopen" /\ proc'[p].for = proc[p].for
          /\ proc'[p].name = proc[p].name /\ proc'[p].to = proc[p].to
          /\ proc'[p].key = proc[p].key /\ proc'[p].file = proc[p].file
          /\ proc'[p].temp = proc[p].temp /\ proc'[p].docs = proc[p].docs
      BY <1>2, <3>1 DEF TypeOK, Process
    <3>3. acked' = acked
      BY <1>1, <2>1 DEF AckedBy
    <3>4. KnowsAll(p) => KnowsAll(p)'
      BY <1>1, <3>2, <3>3 DEF KnowsAll, Canonical, IsLink
    <3>5. Knows(p)'
      BY <1>1, <1>2, <3>2, <3>4 DEF Sure, Knows, Resolve, IsLink
    <3>6. KeyThere(p)'
      BY <1>1, <1>2, <3>2 DEF Sure, KeyThere, Keyed
    <3>7. Written(p)' /\ Steady(p)'
      BY <1>1, <1>2, <3>2 DEF Sure, Written, Steady
    <3>8. QED  BY <3>5, <3>6, <3>7 DEF Sure
  <2>2. CASE proc[p].for # "vacuum"
    <3>1. proc' = [proc EXCEPT ![p] = Idle]
      BY <1>1, <2>2 DEF Done
    <3>2. proc'[p] = Idle
      BY <1>2, <3>1 DEF TypeOK
    <3>3. QED  BY <3>2, IdleIs, RestingSure
  <2>3. QED  BY <2>1, <2>2
<1>9. QED  BY <1>5, <1>6, <1>7, <1>8, CalmKeeps

LEMMA RenameKeepsAcked ==
  ASSUME LockInv, AckInv, LockInv', NEW p \in Procs, Rename(p)
  PROVE AckInv'
<1> DEFINE t == proc[p].to
           i == proc[p].temp
           k == proc[p].key
<1>1. /\ proc[p].pc = "rename" /\ entry' = [entry EXCEPT ![t] = i]
      /\ disk' = [disk EXCEPT ![t] = @ \cup {i}]
      /\ proc' = [proc EXCEPT ![p].pc = "sync"]
      /\ acked' = {a \in acked : proc[p].for = "save" => t \notin {a[1], Canonical(a[1])}}
      /\ stray' = IF t = k THEN stray ELSE stray \cup {t}
      /\ UNCHANGED <<content, doubt>>
  BY DEF Rename
<1>2. /\ TypeOK /\ FilesMade /\ proc[p] \in Process /\ Fine(p) /\ Sure(p)
      /\ t \in Names /\ k \in Names /\ proc[p].name \in Names
      /\ i \in DOMAIN content /\ i # Absent /\ i \notin Names
      /\ inodeLock[i] = p /\ pathLock[k] = p /\ entry[k] \notin Names
      /\ proc[p].docs \subseteq content[i].docs
      /\ \A n \in Names : i \notin disk[n] /\ i # entry[n]
  <2>1. TypeOK /\ FilesMade /\ Fine(p) /\ Sure(p) /\ proc[p] \in Process
    BY DEF LockInv, AckInv, TypeOK
  <2>2. i # Absent /\ i \in Inodes /\ i \in DOMAIN content
    BY <1>1, <2>1 DEF Fine, Phase, Made, Process
  <2>3. \A n \in Names : i \notin disk[n] /\ i # entry[n]
    BY <1>1, <2>1 DEF Sure, Written, FilesMade
  <2>4. /\ t \in Names /\ k \in Names /\ proc[p].name \in Names
        /\ inodeLock[i] = p /\ pathLock[k] = p /\ entry[k] \notin Names
        /\ proc[p].docs \subseteq content[i].docs
    BY <1>1, <2>1, <2>2
       DEF Fine, Phase, Keyed, Held, HasLocks, KeyOfName, Sure, Written
  <2>5. QED  BY <2>1, <2>2, <2>3, <2>4, AbsentIs
<1> HIDE DEF t, i, k
<1>3. /\ entry'[t] = i /\ \A n \in Names \ {t} : entry'[n] = entry[n]
      /\ disk'[t] = disk[t] \cup {i} /\ \A n \in Names \ {t} : disk'[n] = disk[n]
      /\ stray \subseteq stray'
      /\ t \notin stray' => t = k
      /\ acked' \subseteq acked
  BY <1>1, <1>2 DEF TypeOK
<1>4. /\ \A q \in Procs \ {p} : proc'[q] = proc[q]
      /\ proc'[p].pc = "sync" /\ proc'[p].for = proc[p].for
      /\ proc'[p].name = proc[p].name /\ proc'[p].to = t
      /\ proc'[p].key = k /\ proc'[p].file = proc[p].file
      /\ proc'[p].temp = i /\ proc'[p].docs = proc[p].docs
  BY <1>1, <1>2 DEF TypeOK, Process, t, i, k
<1>5. \A n \in Names \ stray' : Canonical(n)' = Canonical(n)
  BY <1>2, <1>3 DEF Canonical, IsLink
<1>6. \A n \in Names : Resolve(n)' \in {Resolve(n), i}
  BY <1>2, <1>3 DEF Resolve, IsLink
<1>7. StableLinks'
  <2> SUFFICES ASSUME NEW n \in Names \ stray'
               PROVE disk'[n] \cap Names = {} \/ disk'[n] = {entry'[n]}
    BY DEF StableLinks
  <2>1. disk[n] \cap Names = {} \/ disk[n] = {entry[n]}
    BY <1>3 DEF AckInv, StableLinks
  <2>2. QED  BY <1>2, <1>3, <2>1
<1>8. Unsynced'
  <2> SUFFICES ASSUME NEW n \in Names \ {t}, disk[n] # {entry[n]}, n \notin doubt
               PROVE \E q \in Procs : proc'[q].pc = "sync" /\ proc'[q].to = n
    BY <1>1, <1>3, <1>4 DEF Unsynced
  <2>1. PICK q \in Procs : proc[q].pc = "sync" /\ proc[q].to = n
    BY DEF AckInv, Unsynced
  <2>2. QED  BY <1>1, <1>4, <2>1
<1>9. AcknowledgedSurvive'
  <2> SUFFICES ASSUME NEW a \in acked', a[1] \notin stray', Canonical(a[1])' \notin stray',
                      NEW j \in MayLeadTo(a[1])'
               PROVE j # Absent /\ a[2] \in content[j].docs
    BY <1>1 DEF AcknowledgedSurvive
  <2>1. /\ a \in acked /\ a[1] \in Names /\ Canonical(a[1])' = Canonical(a[1])
        /\ a[1] \notin stray /\ Canonical(a[1]) \notin stray'
        /\ Canonical(a[1]) \notin stray
    BY <1>2, <1>3, <1>5 DEF TypeOK
  <2>2. PICK e \in disk'[a[1]] : IF e \in Names THEN j \in disk'[e] ELSE j = e
    BY <2>1, EntriesLeadNext
  <2>3. CASE j # i
    <3>1. \E x \in disk[a[1]] : IF x \in Names THEN j \in disk[x] ELSE j = x
      BY <1>2, <1>3, <2>1, <2>2, <2>3
    <3>2. j \in MayLeadTo(a[1])
      BY <2>1, <3>1, EntriesLead
    <3>3. QED  BY <2>1, <3>2 DEF AckInv, AcknowledgedSurvive
  <2>4. CASE j = i
    <3>1. Canonical(a[1]) = t
      <4>1. CASE a[1] = t
        BY <1>2, <1>3, <4>1 DEF Canonical, IsLink
      <4>2. CASE a[1] # t
        <5>1. e \in disk[a[1]] /\ e = t
          BY <1>2, <1>3, <2>1, <2>2, <2>4, <4>2
        <5>2. disk[a[1]] = {entry[a[1]]}
          BY <1>2, <2>1, <5>1 DEF AckInv, StableLinks
        <5>3. QED  BY <1>2, <5>1, <5>2 DEF Canonical, IsLink
      <4>3. QED  BY <4>1, <4>2
    <3>2. t = k /\ k \notin stray /\ proc[p].for # "save"
      BY <1>1, <1>3, <2>1, <3>1
    <3>3. KnowsAll(p)
      BY <1>1, <1>2, <3>2 DEF Sure, Knows, t, k
    <3>4. a[2] \in proc[p].docs
      BY <2>1, <3>1, <3>2, <3>3 DEF KnowsAll, k
    <3>5. QED  BY <1>2, <2>4, <3>4
  <2>5. QED  BY <2>3, <2>4
<1>10. ASSUME NEW q \in Procs
       PROVE /\ KnowsAll(q) => KnowsAll(q)'
             /\ Keyed(q) => proc[q].key \in Names /\ proc[q].name \in Names
                            /\ proc[q].to \in Names
             /\ proc'[q].name = proc[q].name /\ proc'[q].key = proc[q].key
             /\ proc'[q].to = proc[q].to /\ proc'[q].file = proc[q].file
             /\ proc'[q].for = proc[q].for /\ proc'[q].temp = proc[q].temp
             /\ proc'[q].docs = proc[q].docs
             /\ Sure(q) /\ Fine(q)
             /\ proc[q].file # Absent => Keyed(q)
  <2>1. Fine(q) /\ Sure(q) /\ proc[q] \in Process
    BY DEF LockInv, AckInv, TypeOK
  <2>2. /\ proc'[q].name = proc[q].name /\ proc'[q].key = proc[q].key
        /\ proc'[q].to = proc[q].to /\ proc'[q].file = proc[q].file
        /\ proc'[q].for = proc[q].for /\ proc'[q].temp = proc[q].temp
        /\ proc'[q].docs = proc[q].docs
    BY <1>4 DEF t, i, k
  <2>3. KnowsAll(q) => KnowsAll(q)'
    <3> SUFFICES ASSUME KnowsAll(q), NEW a \in acked', a[1] \notin stray',
                        Canonical(a[1])' = proc[q].key
                 PROVE a[2] \in proc[q].docs
      BY <2>2 DEF KnowsAll
    <3>1. a \in acked /\ a[1] \in Names
      BY <1>2, <1>3 DEF TypeOK
    <3>2. QED  BY <1>3, <1>5, <3>1 DEF KnowsAll
  <2>4. QED  BY <2>1, <2>2, <2>3 DEF Fine, Phase, Keyed
<1>11. Sure(p)'
  <2>1. proc[p].file # Absent => proc[p].for # "save"
    BY <1>1, <1>2 DEF Fine, Phase
  <2>2. k \notin stray' => k \notin stray
    BY <1>3
  <2>3. proc[p].name \in Names => Resolve(proc[p].name)' \in {Resolve(proc[p].name), i}
    BY <1>2, <1>3, <1>4 DEF Resolve, IsLink
  <2>4. t # k => entry'[k] = entry[k]
    BY <1>2, <1>3
  <2>5. Knows(p)'
    <3>1. KnowsAll(p) => KnowsAll(p)'
      BY <1>10
    <3>2. t = k /\ k \notin stray /\ proc[p].for # "save" => KnowsAll(p)
      BY <1>1, <1>2 DEF Sure, Knows, t, k
    <3>3. k \notin stray /\ proc[p].file # Absent =>
            KnowsAll(p) \/ Resolve(proc[p].name) # entry[k]
      BY <1>2 DEF Sure, Knows, k
    <3>4. k \notin stray' /\ proc[p].file # Absent =>
            KnowsAll(p)' \/ Resolve(proc[p].name)' # entry'[k]
      BY <1>2, <2>1, <2>2, <2>3, <2>4, <3>1, <3>2, <3>3
    <3>5. t = k \/ entry'[t] # entry'[k]
      BY <1>2, <1>3
    <3>6. QED  BY <1>4, <2>2, <3>1, <3>2, <3>4, <3>5 DEF Knows
  <2>6. KeyThere(p)'
    BY <1>1, <1>2, <1>3, <1>4 DEF Sure, KeyThere, Keyed, k
  <2>7. Written(p)' /\ Steady(p)'
    BY <1>1, <1>2, <1>4 DEF Written, Steady
  <2>8. QED  BY <2>5, <2>6, <2>7 DEF Sure
<1>12. ASSUME NEW q \in Procs \ {p}
       PROVE Sure(q)'
  <2>1. proc'[q] = proc[q] /\ Fine(q) /\ Sure(q) /\ (KnowsAll(q) => KnowsAll(q)')
    BY <1>4, <1>10
  <2>2. Held(q) /\ proc[q].key \notin stray' => proc[q].key # t
    BY <1>2, <1>3, <2>1 DEF Fine, HasLocks
  <2>3. Knows(q)'
    <3>1. ASSUME proc[q].key \notin stray', Held(q)
          PROVE /\ proc[q].file # Absent =>
                     KnowsAll(q)' \/ Resolve(proc[q].name)' # entry'[proc[q].key]
                /\ proc[q].pc \in {"build", "rename", "sync", "reopen"} =>
                     proc[q].for = "save" \/ proc[q].to # proc[q].key \/ KnowsAll(q)'
                /\ proc[q].pc \in {"sync", "reopen"} =>
                     proc[q].to = proc[q].key \/ entry'[proc[q].to] # entry'[proc[q].key]
      <4>1. /\ Keyed(q) /\ proc[q].key \in Names /\ proc[q].name \in Names
            /\ proc[q].to \in Names
        BY <1>10, <3>1 DEF Held
      <4>2. entry'[proc[q].key] = entry[proc[q].key] /\ entry[proc[q].key] # i
        BY <1>2, <1>3, <2>2, <3>1, <4>1
      <4>3. Resolve(proc[q].name)' \in {Resolve(proc[q].name), i}
        BY <1>2, <1>3, <2>1, <4>1 DEF Resolve, IsLink
      <4>4. entry'[proc[q].to] \in {entry[proc[q].to], i}
        BY <1>3, <4>1
      <4>5. proc[q].key \notin stray
        BY <1>3, <3>1
      <4>6. QED  BY <2>1, <4>2, <4>3, <4>4, <4>5 DEF Sure, Knows
    <3>2. proc[q].file # Absent \/ proc[q].pc \in {"build", "rename", "sync", "reopen"}
            => Held(q)
      BY <2>1 DEF Fine, Phase, Held, Keyed
    <3>3. QED  BY <2>1, <3>1, <3>2 DEF Knows
  <2>4. KeyThere(q)'
    <3>1. Keyed(q) => proc[q].key \in Names
      BY <1>10
    <3>2. QED  BY <1>2, <1>3, <2>1, <3>1 DEF Sure, KeyThere, Keyed
  <2>5. Written(q)'
    <3>1. proc[q].pc = "rename" => proc[q].temp # i
      BY <1>2, <2>1, AbsentIs DEF Fine, Phase, HasLocks
    <3>2. proc[q].pc = "rename" => \A n \in Names : proc[q].temp \notin disk'[n]
      BY <1>2, <1>3, <2>1, <3>1 DEF Sure, Written
    <3>3. QED  BY <1>1, <2>1, <3>2 DEF Sure, Written
  <2>6. Steady(q)'
    <3>1. CASE Clean(q)' /\ proc[q].file # Absent
      <4>1. /\ proc[q].key \in Names /\ proc[q].name \in Names /\ Held(q) /\ Keyed(q)
            /\ Clean(q) /\ proc[q].key \notin stray' /\ proc[q].name \notin stray'
        <5>1. proc[q].key \notin stray' /\ proc[q].name \notin stray'
          BY <2>1, <3>1 DEF Clean
        <5>2. Keyed(q) /\ proc[q].key \in Names /\ proc[q].name \in Names
          BY <1>10, <3>1
        <5>3. Held(q)
          BY <2>1, <3>1 DEF Fine, Phase, Held, Keyed
        <5>4. QED  BY <1>3, <5>1, <5>2, <5>3 DEF Clean
      <4>2. Canonical(proc[q].name) = proc[q].key
        BY <2>1, <4>1 DEF Fine, KeyOfName, Clean
      <4>3. proc[q].name # t
        <5>1. SUFFICES ASSUME proc[q].name = t
                       PROVE FALSE
          OBVIOUS
        <5>2. t = k /\ proc[q].key # t
          BY <1>3, <2>2, <4>1, <5>1
        <5>3. entry[t] \notin Names
          BY <1>2, <5>2
        <5>4. QED  BY <4>2, <5>1, <5>2, <5>3 DEF Canonical, IsLink
      <4>4. Resolve(proc[q].name)' = Resolve(proc[q].name)
        BY <1>3, <2>1, <2>2, <4>1, <4>2, <4>3 DEF Resolve, IsLink, Canonical
      <4>5. QED  BY <2>1, <4>1, <4>4 DEF Sure, Steady
    <3>2. QED  BY <2>1, <3>1 DEF Steady
  <2>7. QED  BY <2>3, <2>4, <2>5, <2>6 DEF Sure
<1>13. QED  BY <1>7, <1>8, <1>9, <1>11, <1>12 DEF AckInv

LEMMA LinkKeepsAcked ==
  ASSUME LockInv, AckInv, LockInv', NEW n \in Names, NEW m \in Names, Link(n, m)
  PROVE AckInv'
<1> DEFINE i == entry[m]
<1>1. /\ entry[n] = Absent /\ i \in Inodes
      /\ \A p \in Procs : proc[p].name # n
      /\ entry' = [entry EXCEPT ![n] = i]
      /\ disk' = [disk EXCEPT ![n] = {i}]
      /\ UNCHANGED <<content, proc, acked, doubt, stray>>
  BY DEF Link, history
<1>2. /\ TypeOK /\ FilesMade /\ i \notin Names /\ i # Absent /\ i \in disk[m]
      /\ \A x \in Names : n \notin disk[x]
  <2>1. TypeOK /\ FilesMade
    BY DEF LockInv
  <2>2. ASSUME NEW x \in Names, n \in disk[x]
        PROVE FALSE
    <3>1. disk[n] \subseteq DOMAIN content /\ entry[n] \in disk[n]
      BY <2>1, <2>2 DEF FilesMade
    <3>2. Absent \in Inodes
      BY <1>1, <2>1, <3>1 DEF TypeOK
    <3>3. QED  BY <3>2, AbsentIs
  <2>3. QED  BY <1>1, <2>1, <2>2, AbsentIs DEF FilesMade
<1> HIDE DEF i
<1>3. /\ entry'[n] = i /\ \A x \in Names \ {n} : entry'[x] = entry[x]
      /\ disk'[n] = {i} /\ \A x \in Names \ {n} : disk'[x] = disk[x]
  BY <1>1, <1>2 DEF TypeOK
<1>4. \A x \in Names : entry[x] # n
  BY <1>2 DEF FilesMade
<1>5. \A x \in Names : Canonical(x)' = Canonical(x)
  BY <1>1, <1>2, <1>3, AbsentIs DEF Canonical, IsLink
<1>6. StableLinks'
  BY <1>1, <1>2, <1>3 DEF AckInv, StableLinks
<1>7. Unsynced'
  BY <1>1, <1>3 DEF AckInv, Unsynced
<1>8. AcknowledgedSurvive'
  <2> SUFFICES ASSUME NEW a \in acked, a[1] \notin stray, Canonical(a[1])' \notin stray,
                      NEW j \in MayLeadTo(a[1])'
               PROVE j # Absent /\ a[2] \in content[j].docs
    BY <1>1 DEF AcknowledgedSurvive
  <2>1. a[1] \in Names /\ Canonical(a[1]) \notin stray
    BY <1>2, <1>5 DEF TypeOK
  <2>2. a[1] # n
    <3>1. Resolve(a[1]) \in DOMAIN content
      BY <2>1, AckedIsThere
    <3>2. Absent \notin DOMAIN content
      BY <1>2, AbsentIs DEF TypeOK
    <3>3. QED  BY <1>1, <3>1, <3>2, AbsentIs DEF Resolve, IsLink
  <2>3. PICK e \in disk'[a[1]] : IF e \in Names THEN j \in disk'[e] ELSE j = e
    BY <2>1, EntriesLeadNext
  <2>4. e \in disk[a[1]] /\ e # n
    BY <1>2, <1>3, <2>1, <2>2
  <2>5. IF e \in Names THEN j \in disk[e] ELSE j = e
    BY <1>3, <2>3, <2>4
  <2>6. j \in MayLeadTo(a[1])
    BY <2>1, <2>4, <2>5, EntriesLead
  <2>7. QED  BY <2>1, <2>6 DEF AckInv, AcknowledgedSurvive
<1>9. ASSUME NEW q \in Procs
      PROVE Sure(q)'
  <2>1. /\ Fine(q) /\ Sure(q) /\ proc'[q] = proc[q] /\ proc[q].name # n
    BY <1>1 DEF LockInv, AckInv
  <2>2. Keyed(q) => /\ proc[q].name \in Names /\ proc[q].key \in Names
                    /\ proc[q].to \in Names /\ proc[q].key # n
                    /\ entry'[proc[q].key] = entry[proc[q].key]
                    /\ entry'[proc[q].name] = entry[proc[q].name]
                    /\ entry[proc[q].name] # n
    BY <1>1, <1>3, <1>4, <2>1 DEF Fine, Phase, Sure, KeyThere
  <2>3. Keyed(q) => Resolve(proc[q].name)' = Resolve(proc[q].name)
    BY <1>3, <2>1, <2>2 DEF Resolve, IsLink
  <2>4. KnowsAll(q) => KnowsAll(q)'
    <3> SUFFICES ASSUME KnowsAll(q), NEW a \in acked, a[1] \notin stray,
                        Canonical(a[1])' = proc[q].key
                 PROVE a[2] \in proc[q].docs
      BY <1>1, <2>1 DEF KnowsAll
    <3>1. a[1] \in Names
      BY <1>2 DEF TypeOK
    <3>2. QED  BY <1>5, <3>1 DEF KnowsAll
  <2>5. Knows(q)'
    <3>1. proc[q].file # Absent \/ proc[q].pc \in {"build", "rename", "sync", "reopen"}
            => Keyed(q)
      BY <2>1 DEF Fine, Phase, Keyed
    <3>2. proc[q].pc \in {"sync", "reopen"} => entry'[proc[q].to] = entry[proc[q].to]
      <4>1. proc[q].pc \in {"sync", "reopen"} => entry[proc[q].to] \in DOMAIN content
        BY <2>1 DEF Fine, Replaced
      <4>2. Absent \notin DOMAIN content
        BY <1>2, AbsentIs DEF TypeOK
      <4>3. QED  BY <1>1, <1>3, <2>2, <3>1, <4>1, <4>2
    <3>3. QED  BY <1>1, <2>1, <2>2, <2>3, <2>4, <3>1, <3>2 DEF Sure, Knows
  <2>6. KeyThere(q)'
    BY <2>1, <2>2 DEF Sure, KeyThere, Keyed
  <2>7. Written(q)'
    BY <1>1, <1>2, <1>3, <2>1 DEF Sure, Written
  <2>8. Steady(q)'
    <3>1. proc[q].file # Absent => Keyed(q)
      BY <2>1 DEF Fine, Phase, Keyed
    <3>2. QED  BY <1>1, <2>1, <2>3, <3>1 DEF Sure, Steady, Clean
  <2>9. QED  BY <2>5, <2>6, <2>7, <2>8 DEF Sure
<1>10. QED  BY <1>6, <1>7, <1>8, <1>9 DEF AckInv

LEMMA PowerFailureKeepsAcked ==
  ASSUME LockInv, AckInv, LockInv', PowerFailure
  PROVE AckInv'
<1>1. /\ \A n \in Names : entry'[n] \in disk[n] /\ disk'[n] = {entry'[n]}
      /\ \A p \in Procs : proc'[p] = Idle
      /\ UNCHANGED <<content, acked, stray>>
  BY DEF PowerFailure
<1>2. TypeOK /\ FilesMade
  BY DEF LockInv
<1>3. StableLinks' /\ Unsynced'
  BY <1>1 DEF StableLinks, Unsynced
<1>4. \A p \in Procs : Sure(p)'
  BY <1>1, IdleIs, RestingSure
<1>5. AcknowledgedSurvive'
  <2> SUFFICES ASSUME NEW a \in acked, a[1] \notin stray, Canonical(a[1])' \notin stray,
                      NEW j \in MayLeadTo(a[1])'
               PROVE j # Absent /\ a[2] \in content[j].docs
    BY <1>1 DEF AcknowledgedSurvive
  <2>1. a[1] \in Names /\ entry[a[1]] \in disk[a[1]] /\ entry'[a[1]] \in disk[a[1]]
    BY <1>1, <1>2 DEF TypeOK, FilesMade
  <2>2. Canonical(a[1])' = Canonical(a[1])
    <3>1. disk[a[1]] \cap Names = {} \/ disk[a[1]] = {entry[a[1]]}
      BY <2>1 DEF AckInv, StableLinks
    <3>2. QED  BY <2>1, <3>1 DEF Canonical, IsLink
  <2>3. PICK e \in disk'[a[1]] : IF e \in Names THEN j \in disk'[e] ELSE j = e
    BY <2>1, EntriesLeadNext
  <2>4. e \in disk[a[1]] /\ IF e \in Names THEN j \in disk[e] ELSE j = e
    BY <1>1, <2>1, <2>3
  <2>5. j \in MayLeadTo(a[1])
    BY <2>1, <2>4, EntriesLead
  <2>6. QED  BY <2>2, <2>5 DEF AckInv, AcknowledgedSurvive
<1>6. QED  BY <1>3, <1>4, <1>5 DEF AckInv

LEMMA InitAcked == Init => AckInv
<1> SUFFICES ASSUME Init PROVE AckInv
  OBVIOUS
<1>1. /\ disk = [n \in Names |-> {entry[n]}]
      /\ content \in [{entry[n] : n \in Names} \cap Inodes ->
                        [docs : {{Original}}, legacy : BOOLEAN]]
      /\ proc = [p \in Procs |-> Idle]
      /\ acked = {<<n, Original>> : n \in {m \in Names : Resolve(m) # Absent}}
  BY DEF Init
<1>2. LockInv
  BY InitKeeps
<1>3. StableLinks /\ Unsynced
  BY <1>1 DEF StableLinks, Unsynced
<1>4. AcknowledgedSurvive
  <2> SUFFICES ASSUME NEW n \in Names, Resolve(n) # Absent, NEW j \in MayLeadTo(n)
               PROVE j # Absent /\ Original \in content[j].docs
    BY <1>1 DEF AcknowledgedSurvive
  <2>1. j = Resolve(n)
    <3>1. PICK e \in disk[n] : IF e \in Names THEN j \in disk[e] ELSE j = e
      BY <1>2, EntriesLead
    <3>2. QED  BY <1>1, <3>1 DEF Resolve, IsLink
  <2>2. j \in DOMAIN content
    BY <1>2, <2>1, EntriesLead
  <2>3. content[j].docs = {Original}
    BY <1>1, <2>2
  <2>4. QED  BY <2>1, <2>3
<1>5. \A p \in Procs : Sure(p)
  BY <1>1, IdleIs DEF Sure, Knows, KeyThere, Written, Steady, Keyed
<1>6. QED  BY <1>3, <1>4, <1>5 DEF AckInv

LEMMA NextKeepsAcked == LockInv /\ AckInv /\ [Next]_vars => AckInv'
<1> SUFFICES ASSUME LockInv, AckInv, [Next]_vars PROVE AckInv'
  OBVIOUS
<1>1. LockInv'
  BY NextKeeps
<1>2. CASE \E p \in Procs : Step(p)
  <2> PICK p \in Procs : Step(p)
    BY <1>2
  <2>1. CASE \E n \in Names : Open(p, n) \/ IndexNew(p, n) \/ Offer(p, n)
    BY <1>1, <2>1, UnlockedKeepsAcked
  <2>2. CASE \E n \in Names : Vacuum(p, n)
    BY <1>1, <2>2, VacuumKeepsAcked
  <2>3. CASE LockPath(p) \/ StatInode(p) \/ LockInode(p)
    BY <1>1, <2>3, LockPathKeepsAcked
  <2>4. CASE \/ Refused(p) \/ Save(p) \/ CommitInMemory(p) \/ CopyBackup(p)
             \/ ReopenFails(p) \/ ProcessEnds(p)
    BY <1>1, <2>4, UnlockedKeepsAcked
  <2>5. CASE OpenFile(p) \/ Commit(p) \/ ReadLegacy(p)
    BY <1>1, <2>5, OpenFileKeepsAcked, CommitKeepsAcked, ReadLegacyKeepsAcked
  <2>6. CASE Build(p) \/ BuildFails(p) \/ Rename(p) \/ SyncDirectory(p) \/ SyncFails(p)
    BY <1>1, <2>6, BuildKeepsAcked, BuildFailsKeepsAcked, RenameKeepsAcked,
       SyncDirectoryKeepsAcked, SyncFailsKeepsAcked
  <2>7. CASE Reopen(p)
    BY <1>1, <2>7, ReopenKeepsAcked
  <2>8. QED  BY <2>1, <2>2, <2>3, <2>4, <2>5, <2>6, <2>7 DEF Step
<1>3. CASE \E n, m \in Names : Link(n, m)
  BY <1>1, <1>3, LinkKeepsAcked
<1>4. CASE PowerFailure
  BY <1>1, <1>4, PowerFailureKeepsAcked
<1>5. CASE UNCHANGED vars
  <2>1. UNCHANGED <<entry, disk, content, proc, acked, doubt, stray>>
    BY <1>5 DEF vars, files, locks, history
  <2>2. StableLinks' /\ Unsynced'
    BY <2>1 DEF AckInv, StableLinks, Unsynced
  <2>3. AcknowledgedSurvive'
    BY <2>1 DEF AckInv, AcknowledgedSurvive, MayLeadTo, Resolve, Canonical, IsLink
  <2>4. ASSUME NEW q \in Procs PROVE Sure(q)'
    <3>1. Sure(q) /\ proc'[q] = proc[q]
      BY <2>1 DEF AckInv
    <3>2. QED
      BY <2>1, <3>1 DEF Sure, Knows, KnowsAll, KeyThere, Written, Steady, Keyed, Clean,
                        Resolve, Canonical, IsLink
  <2>5. QED  BY <2>2, <2>3, <2>4 DEF AckInv
<1>6. QED  BY <1>2, <1>3, <1>4, <1>5 DEF Next

(* A commit acknowledged under a name is found under it, now and after a   *)
(* power failure, through every vacuum and migration, of whatever          *)
(* processes, until a save overwrites the name; then the documents of the  *)
(* save are.  Excepted are the commits of a store whose vacuum failed      *)
(* behind the rename, those under a name whose replacement was broken off  *)
(* before the directory was synced, and names replaced without their lock. *)
THEOREM AcknowledgedIsKept == Spec => []AcknowledgedSurvive
<1>1. Spec => [](LockInv /\ AckInv)
  BY InitKeeps, InitAcked, NextKeeps, NextKeepsAcked, PTL DEF Spec
<1>2. AckInv => AcknowledgedSurvive
  BY DEF AckInv
<1>3. QED  BY <1>1, <1>2, PTL

-----------------------------------------------------------------------------
(* Formats: what a step that leaves the names alone keeps of them.         *)

(* Names lead where they led, files are of the format they were of, and at *)
(* most process p goes on.                                                 *)
SameFormats(p) ==
  /\ entry' = entry
  /\ DOMAIN content \subseteq DOMAIN content'
  /\ \A i \in DOMAIN content : content'[i].legacy = content[i].legacy
  /\ raced => raced'
  /\ \A q \in Procs \ {p} : proc'[q] = proc[q]

(* The names in use are names, the files are there. *)
LEMMA InUse ==
  ASSUME LockInv, NEW p \in Procs
  PROVE LET s == proc[p] IN
        /\ s.file # Absent \/ s.pc \in {"new", "copy"} \/ s.for \in {"save", "migrate"}
             => /\ s.name \in Names
                /\ Resolve(s.name) \in DOMAIN content \cup {Absent}
        /\ s.file # Absent => /\ s.to \in Names /\ s.file \in DOMAIN content
                              /\ Resolve(s.to) \in DOMAIN content \cup {Absent}
        /\ s.temp # Absent => s.temp \in DOMAIN content
<1>1. TypeOK /\ FilesMade /\ Fine(p)
  BY DEF LockInv
<1>2. proc[p].file # Absent \/ proc[p].for = "save" => Keyed(p)
  BY <1>1 DEF Fine, Phase, Keyed
<1>3. Keyed(p) => proc[p].name \in Names /\ proc[p].to \in Names
  BY <1>1 DEF Fine, Phase
<1>4. proc[p].pc \in {"new", "copy"} => proc[p].name \in Names
  BY <1>1 DEF Fine, Phase
<1>5. proc[p].for = "migrate" => proc[p].name \in Names
  BY <1>1, MigratesStore
<1>6. proc[p].file \in DOMAIN content \cup {Absent}
      /\ proc[p].temp \in DOMAIN content \cup {Absent}
  BY <1>1 DEF Fine, Made
<1>7. \A n \in Names : Resolve(n) \in DOMAIN content \cup {Absent}
  BY <1>1, LinksLead
<1>8. QED  BY <1>2, <1>3, <1>4, <1>5, <1>6, <1>7

LEMMA KnownOthers ==
  ASSUME LockInv, FormatsKnown, NEW p \in Procs, SameFormats(p), NEW q \in Procs \ {p}
  PROVE Known(q)'
<1>1. /\ entry' = entry /\ proc'[q] = proc[q] /\ (raced => raced')
      /\ \A i \in DOMAIN content : content'[i].legacy = content[i].legacy
  BY DEF SameFormats
<1>2. Known(q)
  BY DEF FormatsKnown
<1> DEFINE s == proc[q]
<1>3. /\ s.file # Absent \/ s.pc \in {"new", "copy"} \/ s.for \in {"save", "migrate"}
           => /\ s.name \in Names
              /\ Resolve(s.name) \in DOMAIN content \cup {Absent}
      /\ s.file # Absent => /\ s.to \in Names /\ s.file \in DOMAIN content
                            /\ Resolve(s.to) \in DOMAIN content \cup {Absent}
      /\ s.temp # Absent => s.temp \in DOMAIN content
  BY InUse
<1>4. Resolve(proc[q].name)' = Resolve(s.name) /\ Resolve(proc[q].to)' = Resolve(s.to)
  BY <1>1 DEF Resolve, IsLink
<1>5. QED  BY <1>1, <1>2, <1>3, <1>4 DEF Known, Current

LEMMA FormatsStay ==
  ASSUME LockInv, FormatsKnown, NEW p, SameFormats(p), p \in Procs,
         content' = content, Known(p)'
  PROVE FormatsKnown'
<1>1. LegacyIsOriginal'
  BY DEF FormatsKnown, LegacyIsOriginal
<1>2. QED  BY <1>1, KnownOthers DEF FormatsKnown

(* A process that has no file, and is not about to work on a name. *)
LEMMA RestingKnown ==
  ASSUME NEW p, proc'[p].file = Absent, proc'[p].temp = Absent,
         proc'[p].pc \notin {"new", "copy"}, proc'[p].for # "save"
  PROVE Known(p)'
BY DEF Known

(* A process that goes on with what it was at. *)
LEMMA GoingOnKnown ==
  ASSUME LockInv, FormatsKnown, NEW p, SameFormats(p), p \in Procs,
         proc'[p].name = proc[p].name, proc'[p].to \in {proc[p].to, proc[p].name},
         proc'[p].file = proc[p].file, proc'[p].temp \in {proc[p].temp, Absent},
         proc'[p].pc \notin {"new", "copy"},
         proc'[p].for = "save" => proc[p].for = "save" \/ proc[p].pc = "new"
  PROVE Known(p)'
<1>1. /\ entry' = entry
      /\ \A i \in DOMAIN content : content'[i].legacy = content[i].legacy
  BY DEF SameFormats
<1>2. Known(p)
  BY DEF FormatsKnown
<1> DEFINE s == proc[p]
<1>3. /\ s.file # Absent \/ s.pc \in {"new", "copy"} \/ s.for \in {"save", "migrate"}
           => /\ s.name \in Names
              /\ Resolve(s.name) \in DOMAIN content \cup {Absent}
      /\ s.file # Absent => /\ s.to \in Names /\ s.file \in DOMAIN content
                            /\ Resolve(s.to) \in DOMAIN content \cup {Absent}
      /\ s.temp # Absent => s.temp \in DOMAIN content
  BY InUse
<1>4. /\ Resolve(proc[p].name)' = Resolve(s.name)
      /\ Resolve(proc[p].to)' \in {Resolve(s.to), Resolve(s.name)}
  BY <1>1 DEF Resolve, IsLink
<1>5. QED  BY <1>1, <1>2, <1>3, <1>4 DEF Known, Current

-----------------------------------------------------------------------------
(* Migrations: what a step keeps of them.                                  *)

(* A process goes on, and may stop to migrate. *)
LEMMA GoingOnMigrating ==
  ASSUME Migrating, NEW p, p \in Procs, raced' = raced,
         told' = told, backup' = backup,
         \A q \in Procs \ {p} : proc'[q] = proc[q],
         proc'[p].for = "migrate" =>
           /\ proc[p].for = "migrate" /\ proc'[p].name = proc[p].name
           /\ proc[p].pc = "copy" => proc'[p].pc = "copy"
  PROVE Migrating'
<1> SUFFICES ASSUME ~raced PROVE Migrating'
  BY DEF Migrating
<1>1. \A q, r \in Procs :
        proc'[q].for = "migrate" /\ proc'[r].for = "migrate" => q = r
  BY DEF Migrating
<1>2. \A q \in Procs : proc'[q].for = "migrate" =>
        /\ proc'[q].name \notin told
        /\ proc'[q].pc # "copy" => backup[proc'[q].name] = OriginalBackup
  BY DEF Migrating
<1>3. QED  BY <1>1, <1>2 DEF Migrating

(* A migration ends: it is reported as done, or its backup is taken away. *)
LEMMA EndMigrating ==
  ASSUME LockInv, Migrating, NEW p, p \in Procs, raced' = raced,
         proc'[p].for # "migrate", \A q \in Procs \ {p} : proc'[q] = proc[q],
         \/ told' = told /\ backup' = WithoutBackup(p)
         \/ /\ told' = told \cup {proc[p].name} /\ backup' = backup
            /\ proc[p].for = "migrate" /\ proc[p].pc # "copy"
  PROVE Migrating'
<1> SUFFICES ASSUME ~raced PROVE Migrating'
  BY DEF Migrating
<1>1. \A q, r \in Procs :
        proc'[q].for = "migrate" /\ proc'[r].for = "migrate" => q = r
  BY DEF Migrating
<1>2. ASSUME NEW q \in Procs, proc'[q].for = "migrate"
      PROVE /\ proc'[q].name \notin told'
            /\ proc'[q].pc # "copy" => backup'[proc'[q].name] = OriginalBackup
  <2>1. q # p /\ proc'[q] = proc[q] /\ proc[p].for # "migrate"
    BY <1>2 DEF Migrating
  <2>2. told' = told /\ backup' = backup
    BY <2>1 DEF WithoutBackup
  <2>3. QED  BY <1>2, <2>1, <2>2 DEF Migrating
<1>3. ASSUME NEW n \in told'
      PROVE backup'[n] = OriginalBackup
  <2>1. CASE told' = told /\ backup' = WithoutBackup(p)
    <3>1. backup[n] = OriginalBackup
      BY <1>3, <2>1 DEF Migrating
    <3>2. proc[p].for = "migrate" => proc[p].name # n
      BY <1>3, <2>1 DEF Migrating
    <3>3. n \in Names /\ backup \in [Names -> Stores]
      BY <1>3, <2>1 DEF LockInv, TypeOK
    <3>4. QED  BY <2>1, <3>1, <3>2, <3>3 DEF WithoutBackup
  <2>2. CASE ~(told' = told /\ backup' = WithoutBackup(p))
    BY <1>3, <2>2 DEF Migrating
  <2>3. QED  BY <2>1, <2>2
<1>4. QED  BY <1>1, <1>2, <1>3 DEF Migrating

-----------------------------------------------------------------------------
(* Backups and formats through the steps of a process.                     *)

(* The process has no file, or none yet. *)
LEMMA RestKeepsBackups ==
  ASSUME LockInv, BackupInv, NEW p, NEW st, proc' = [proc EXCEPT ![p] = st],
         p \in Procs, st.pc \notin {"new", "copy"}, st.for = "none",
         st.file = Absent, st.temp = Absent,
         UNCHANGED <<entry, content, raced>>,
         \/ told' = told /\ backup' \in {backup, WithoutBackup(p)}
         \/ /\ told' = told \cup {proc[p].name} /\ backup' = backup
            /\ proc[p].for = "migrate" /\ proc[p].pc # "copy"
  PROVE BackupInv'
<1>1. proc'[p] = st /\ \A q \in Procs \ {p} : proc'[q] = proc[q]
  BY DEF LockInv, TypeOK
<1>2. SameFormats(p)
  BY <1>1 DEF SameFormats
<1>3. FormatsKnown'
  BY <1>1, <1>2, RestingKnown, FormatsStay DEF BackupInv
<1>4. CASE told' = told /\ backup' = backup
  BY <1>1, <1>3, <1>4, GoingOnMigrating DEF BackupInv
<1>5. CASE ~(told' = told /\ backup' = backup)
  BY <1>1, <1>3, <1>5, EndMigrating DEF BackupInv
<1>6. QED  BY <1>4, <1>5

LEMMA UnlockedKeepsBackups ==
  ASSUME LockInv, BackupInv, NEW p \in Procs,
         Refused(p) \/ CommitInMemory(p) \/ ReopenFails(p) \/ ProcessEnds(p)
  PROVE BackupInv'
<1>1. TypeOK /\ Fine(p) /\ proc[p] \in Process
  BY DEF LockInv, TypeOK
<1>2. CASE Refused(p)
  <2>1. /\ proc' = [proc EXCEPT ![p] = Idle] /\ backup' = WithoutBackup(p)
        /\ UNCHANGED <<entry, content, raced>> /\ told' = told
    BY <1>2 DEF Refused, files, history
  <2>2. QED  BY <2>1, IdleIs, RestKeepsBackups
<1>3. CASE CommitInMemory(p)
  <2> DEFINE st == [proc[p] EXCEPT !.docs = @ \cup {commits'}]
  <2>1. /\ proc' = [proc EXCEPT ![p] = st] /\ proc[p].pc = "memory"
        /\ UNCHANGED <<entry, content, raced>> /\ UNCHANGED <<told, backup>>
    BY <1>3 DEF CommitInMemory, files, history
  <2>2. st.pc = "memory" /\ st.for = "none" /\ st.file = Absent /\ st.temp = Absent
    BY <1>1, <2>1 DEF Fine, Phase, Process
  <2> HIDE DEF st
  <2>3. QED  BY <2>1, <2>2, RestKeepsBackups
<1>4. CASE ReopenFails(p)
  <2> DEFINE st == [Idle EXCEPT !.pc = "memory", !.name = proc[p].to,
                                !.docs = proc[p].docs]
  <2>1. /\ proc' = [proc EXCEPT ![p] = st]
        /\ UNCHANGED <<entry, content, raced>> /\ UNCHANGED <<told, backup>>
    BY <1>4 DEF ReopenFails, files, history
  <2>2. st.pc = "memory" /\ st.for = "none" /\ st.file = Absent /\ st.temp = Absent
    BY IdleIs
  <2> HIDE DEF st
  <2>3. QED  BY <2>1, <2>2, RestKeepsBackups
<1>5. CASE ProcessEnds(p)
  <2>1. /\ proc' = [proc EXCEPT ![p] = Idle] /\ backup' = backup
        /\ UNCHANGED <<entry, content, raced>> /\ told' = told
    BY <1>5 DEF ProcessEnds, files
  <2>2. QED  BY <2>1, IdleIs, RestKeepsBackups
<1>6. QED  BY <1>2, <1>3, <1>4, <1>5

LEMMA IndexNewKeepsBackups ==
  ASSUME LockInv, BackupInv, NEW p \in Procs, NEW n \in Names, IndexNew(p, n)
  PROVE BackupInv'
<1> DEFINE st == [Idle EXCEPT !.pc = "new", !.name = n, !.docs = {commits'}]
<1>1. /\ proc' = [proc EXCEPT ![p] = st] /\ Resolve(n) = Absent
      /\ UNCHANGED <<entry, content, raced>> /\ UNCHANGED <<told, backup>>
  BY DEF IndexNew, files, history
<1>2. /\ st.pc = "new" /\ st.for = "none" /\ st.name = n
      /\ st.file = Absent /\ st.temp = Absent
  BY IdleIs
<1> HIDE DEF st
<1>3. proc'[p] = st /\ \A q \in Procs \ {p} : proc'[q] = proc[q]
  BY <1>1 DEF LockInv, TypeOK
<1>4. SameFormats(p)
  BY <1>1, <1>3 DEF SameFormats
<1>5. Known(p)'
  BY <1>1, <1>2, <1>3 DEF Known, Resolve, IsLink
<1>6. Migrating'
  BY <1>1, <1>2, <1>3, GoingOnMigrating DEF BackupInv
<1>7. QED  BY <1>1, <1>4, <1>5, <1>6, FormatsStay DEF BackupInv

LEMMA OfferKeepsBackups ==
  ASSUME LockInv, BackupInv, NEW p \in Procs, NEW n \in Names, Offer(p, n)
  PROVE BackupInv'
<1> DEFINE st == [Idle EXCEPT !.pc = "copy", !.name = n, !.for = "migrate"]
<1>1. /\ proc' = [proc EXCEPT ![p] = st] /\ Resolve(n) # Absent
      /\ content[Resolve(n)].legacy /\ backup[n] = NoBackup
      /\ raced' = (raced \/ \E q \in Procs : proc[q].for = "migrate")
      /\ UNCHANGED <<entry, content>> /\ UNCHANGED <<told, backup>>
  BY DEF Offer, files
<1>2. /\ st.pc = "copy" /\ st.for = "migrate" /\ st.name = n
      /\ st.file = Absent /\ st.temp = Absent
  BY IdleIs
<1> HIDE DEF st
<1>3. proc'[p] = st /\ \A q \in Procs \ {p} : proc'[q] = proc[q]
  BY <1>1 DEF LockInv, TypeOK
<1>4. SameFormats(p)
  BY <1>1, <1>3 DEF SameFormats
<1>5. Known(p)'
  BY <1>1, <1>2, <1>3 DEF Known, Resolve, IsLink
<1>6. Migrating'
  <2> SUFFICES ASSUME ~raced' PROVE Migrating'
    BY DEF Migrating
  <2>1. ~raced /\ \A q \in Procs : proc[q].for # "migrate"
    BY <1>1
  <2>2. NoBackup # OriginalBackup
    BY DEF NoBackup, OriginalBackup
  <2>3. n \notin told /\ \A x \in told : backup[x] = OriginalBackup
    BY <1>1, <2>1, <2>2 DEF BackupInv, Migrating
  <2>4. \A q \in Procs : proc'[q].for = "migrate" => q = p
    BY <1>3, <2>1
  <2>5. QED  BY <1>1, <1>2, <1>3, <2>3, <2>4 DEF Migrating
<1>7. QED  BY <1>1, <1>4, <1>5, <1>6, FormatsStay DEF BackupInv

(* A process begins to lock. *)
LEMMA OpenKeepsBackups ==
  ASSUME LockInv, BackupInv, NEW p \in Procs,
         (\E n \in Names : Open(p, n)) \/ Save(p)
  PROVE BackupInv'
<1>1. PICK for \in {"open", "save"}, n \in Names, docs \in SUBSET (0 .. MaxCommits) :
        /\ Start(p, for, n, docs)
        /\ for = "save" => proc[p].pc = "new" /\ n = proc[p].name
        /\ UNCHANGED <<entry, content, raced>> /\ UNCHANGED <<told, backup>>
  <2>1. CASE Save(p)
    <3>1. proc[p].name \in Names /\ proc[p].docs \subseteq 0 .. MaxCommits
      BY <2>1 DEF Save, LockInv, Fine, Phase, TypeOK, Process
    <3>2. QED  BY <2>1, <3>1 DEF Save, files, history
  <2>2. CASE \E n \in Names : Open(p, n)
    BY <2>2 DEF Open, files, history
  <2>3. QED  BY <2>1, <2>2
<1>2. TypeOK /\ FilesMade
  BY DEF LockInv
<1>3. Canonical(n) \in Names
  BY <1>2, LinksLead
<1>4. /\ \A q \in Procs \ {p} : proc'[q] = proc[q]
      /\ proc'[p].pc = "path" /\ proc'[p].for = for /\ proc'[p].name = n
      /\ proc'[p].file = Absent /\ proc'[p].temp = Absent
  BY <1>1, <1>2, <1>3, StartIs, ZenonT(60)
<1>5. SameFormats(p)
  BY <1>1, <1>4 DEF SameFormats
<1>6. Known(p)'
  <2>1. for = "save" => Resolve(n) = Absent \/ Current(n)
    BY <1>1 DEF BackupInv, FormatsKnown, Known
  <2>2. QED  BY <1>1, <1>4, <2>1 DEF Known, Current, Resolve, IsLink
<1>7. Migrating'
  BY <1>1, <1>4, GoingOnMigrating DEF BackupInv
<1>8. QED  BY <1>1, <1>5, <1>6, <1>7, FormatsStay DEF BackupInv

LEMMA CopyBackupKeepsBackups ==
  ASSUME LockInv, BackupInv, NEW p \in Procs, CopyBackup(p)
  PROVE BackupInv'
<1> DEFINE n == proc[p].name
           store == content[Resolve(n)]
<1>1. /\ proc[p].pc = "copy" /\ backup' = [backup EXCEPT ![n] = store]
      /\ Start(p, "migrate", n, {})
      /\ UNCHANGED <<entry, content, raced, told>>
  BY DEF CopyBackup, files, history
<1>2. TypeOK /\ FilesMade /\ Fine(p) /\ proc[p].for = "migrate"
  BY <1>1 DEF LockInv, Fine, Phase
<1>3. n \in Names /\ Resolve(n) \in DOMAIN content /\ store \in Stores
  BY <1>2, MigratesStore
<1>4. Canonical(n) \in Names
  BY <1>2, <1>3, LinksLead
<1>5. /\ \A q \in Procs \ {p} : proc'[q] = proc[q]
      /\ proc'[p].pc = "path" /\ proc'[p].for = "migrate" /\ proc'[p].name = n
      /\ proc'[p].file = Absent /\ proc'[p].temp = Absent
  BY <1>1, <1>2, <1>3, <1>4, StartIs, SMTT(30)
<1>6. SameFormats(p)
  BY <1>1, <1>5 DEF SameFormats
<1>7. Known(p)'
  BY <1>5, RestingKnown
<1>8. ~raced => store = OriginalBackup
  <2> SUFFICES ASSUME ~raced PROVE store = OriginalBackup
    OBVIOUS
  <2>1. store.legacy /\ store.docs = {Original}
    BY <1>1, <1>3 DEF BackupInv, FormatsKnown, Known, LegacyIsOriginal
  <2>2. store = [docs |-> store.docs, legacy |-> store.legacy] /\ store.legacy \in BOOLEAN
    BY <1>3 DEF Stores
  <2> HIDE DEF store
  <2>3. store.legacy = TRUE
    BY <2>1, <2>2
  <2>4. QED  BY <2>1, <2>2, <2>3 DEF OriginalBackup
<1> HIDE DEF store
<1>9. Migrating'
  <2> SUFFICES ASSUME ~raced PROVE Migrating'
    BY <1>1 DEF Migrating
  <2>1. \A x \in Names : backup'[x] = IF x = n THEN OriginalBackup ELSE backup[x]
    BY <1>1, <1>2, <1>3, <1>8 DEF TypeOK
  <2>2. /\ n \notin told /\ told \subseteq Names
        /\ \A x \in told : backup[x] = OriginalBackup
        /\ \A q \in Procs : proc[q].for = "migrate" => q = p
    BY <1>2 DEF BackupInv, Migrating, TypeOK
  <2>3. \A q \in Procs : proc'[q].for = "migrate" => q = p
    BY <1>5, <2>2
  <2>4. QED  BY <1>1, <1>3, <1>5, <2>1, <2>2, <2>3 DEF Migrating
<1>10. QED  BY <1>1, <1>6, <1>7, <1>9, FormatsStay DEF BackupInv

(* A process goes on with what it was at, on files of the same format. *)
LEMMA GoingOnKeepsBackups ==
  ASSUME LockInv, BackupInv, NEW p, SameFormats(p), p \in Procs,
         proc'[p].name = proc[p].name, proc'[p].to \in {proc[p].to, proc[p].name},
         proc'[p].file = proc[p].file, proc'[p].temp \in {proc[p].temp, Absent},
         proc'[p].for = proc[p].for \/ proc'[p].for \notin {"save", "migrate"},
         proc[p].pc # "copy", proc'[p].pc \notin {"new", "copy"},
         LegacyIsOriginal', UNCHANGED <<raced, told, backup>>
  PROVE BackupInv'
<1>1. Known(p)'
  BY GoingOnKnown DEF BackupInv
<1>2. \A q \in Procs \ {p} : Known(q)'
  BY KnownOthers DEF BackupInv
<1>3. Migrating'
  BY GoingOnMigrating DEF BackupInv, SameFormats
<1>4. QED  BY <1>1, <1>2, <1>3 DEF BackupInv, FormatsKnown

LEMMA LockPathKeepsBackups ==
  ASSUME LockInv, BackupInv, NEW p \in Procs,
         LockPath(p) \/ StatInode(p) \/ LockInode(p)
  PROVE BackupInv'
<1>1. /\ proc[p].pc \in {"path", "stat", "inode"}
      /\ UNCHANGED <<entry, content, raced>> /\ UNCHANGED <<told, backup>>
      /\ \/ proc' = [proc EXCEPT ![p].pc = "stat"]
         \/ proc' = [proc EXCEPT ![p].pc = "inode", ![p].seen = Resolve(proc[p].name)]
         \/ proc' = [proc EXCEPT ![p].pc = "locked", ![p].ino = proc[p].seen,
                                 ![p].seen = Absent]
  BY DEF LockPath, StatInode, LockInode, files, history
<1>2. proc[p] \in Process /\ proc \in [Procs -> Process]
  BY DEF LockInv, TypeOK
<1>3. /\ \A q \in Procs \ {p} : proc'[q] = proc[q]
      /\ proc'[p].pc \in {"path", "stat", "inode", "locked"}
      /\ proc'[p].name = proc[p].name /\ proc'[p].to = proc[p].to
      /\ proc'[p].for = proc[p].for
      /\ proc'[p].file = proc[p].file /\ proc'[p].temp = proc[p].temp
  BY <1>1, <1>2 DEF Process
<1>4. SameFormats(p) /\ LegacyIsOriginal'
  BY <1>1, <1>3 DEF SameFormats, BackupInv, FormatsKnown, LegacyIsOriginal
<1>5. QED  BY <1>1, <1>3, <1>4, GoingOnKeepsBackups

LEMMA OpenFileKeepsBackups ==
  ASSUME LockInv, BackupInv, NEW p \in Procs, OpenFile(p)
  PROVE BackupInv'
<1> DEFINE i == Resolve(proc[p].name)
<1>1. /\ proc[p].pc = "locked" /\ proc[p].for = "open"
      /\ UNCHANGED <<entry, content, raced>> /\ UNCHANGED <<told, backup>>
  BY DEF OpenFile, files, history
<1>2. /\ TypeOK /\ Fine(p) /\ proc[p] \in Process
      /\ proc[p].to = proc[p].name /\ proc[p].temp = Absent
  BY <1>1 DEF LockInv, TypeOK, Fine, Phase, Keyed
<1>3. CASE i # Absent /\ ~content[i].legacy
  <2> DEFINE d == content[i].docs
  <2>1. proc' = [proc EXCEPT ![p].pc = "open", ![p].file = i, ![p].docs = d]
    BY <1>3 DEF OpenFile
  <2>2. Current(proc[p].name)
    BY <1>3 DEF Current
  <2> HIDE DEF d, i
  <2>3. /\ \A q \in Procs \ {p} : proc'[q] = proc[q]
        /\ proc'[p].pc = "open" /\ proc'[p].for = "open"
        /\ proc'[p].name = proc[p].name /\ proc'[p].to = proc[p].name
        /\ proc'[p].file = i /\ proc'[p].temp = Absent
    BY <1>1, <1>2, <2>1 DEF TypeOK, Process
  <2>4. SameFormats(p)
    BY <1>1, <2>3 DEF SameFormats
  <2>5. Known(p)'
    BY <1>1, <1>3, <2>2, <2>3 DEF Known, Current, Resolve, IsLink
  <2>6. Migrating'
    BY <1>1, <2>3, GoingOnMigrating DEF BackupInv
  <2>7. QED  BY <1>1, <2>4, <2>5, <2>6, FormatsStay DEF BackupInv
<1>4. CASE ~(i # Absent /\ ~content[i].legacy)
  <2>1. proc' = [proc EXCEPT ![p] = Idle]
    BY <1>4 DEF OpenFile
  <2>2. QED  BY <1>1, <2>1, IdleIs, RestKeepsBackups
<1>5. QED  BY <1>3, <1>4

LEMMA CommitKeepsBackups ==
  ASSUME LockInv, BackupInv, NEW p \in Procs, Commit(p)
  PROVE BackupInv'
<1> DEFINE f == proc[p].file
           c == commits'
<1>1. /\ proc[p].pc = "open"
      /\ content' = [content EXCEPT ![f].docs = @ \cup {c}]
      /\ proc' = [proc EXCEPT ![p].docs = @ \cup {c}]
      /\ UNCHANGED <<entry, raced, told, backup>>
  BY DEF Commit
<1>2. /\ TypeOK /\ Fine(p) /\ proc[p] \in Process /\ f # Absent /\ f \in DOMAIN content
  BY <1>1 DEF LockInv, TypeOK, Fine, Phase, Made
<1>3. ~content[f].legacy /\ LegacyIsOriginal
  BY <1>2 DEF BackupInv, FormatsKnown, Known
<1> HIDE DEF f, c
<1>4. /\ \A q \in Procs \ {p} : proc'[q] = proc[q]
      /\ proc'[p].pc = "open" /\ proc'[p].for = proc[p].for
      /\ proc'[p].name = proc[p].name /\ proc'[p].to = proc[p].to
      /\ proc'[p].file = proc[p].file /\ proc'[p].temp = proc[p].temp
  BY <1>1, <1>2 DEF TypeOK, Process
<1>5. /\ DOMAIN content' = DOMAIN content
      /\ \A i \in DOMAIN content : content'[i].legacy = content[i].legacy
      /\ \A i \in DOMAIN content \ {f} : content'[i] = content[i]
  BY <1>1, <1>2 DEF TypeOK, Stores
<1>6. SameFormats(p)
  BY <1>1, <1>4, <1>5 DEF SameFormats
<1>7. LegacyIsOriginal'
  BY <1>3, <1>5 DEF LegacyIsOriginal
<1>8. QED  BY <1>1, <1>4, <1>6, <1>7, GoingOnKeepsBackups

LEMMA VacuumKeepsBackups ==
  ASSUME LockInv, BackupInv, NEW p \in Procs, NEW n \in Names, Vacuum(p, n)
  PROVE BackupInv'
<1> DEFINE st == [proc[p] EXCEPT !.pc = "build", !.for = "vacuum", !.to = n]
<1>1. /\ proc[p].pc = "open" /\ Resolve(n) = Resolve(proc[p].name)
      /\ proc' = [proc EXCEPT ![p] = st]
      /\ UNCHANGED <<entry, content, raced>> /\ UNCHANGED <<told, backup>>
  BY DEF Vacuum, files, history
<1>2. TypeOK /\ Fine(p) /\ proc[p] \in Process
  BY DEF LockInv, TypeOK
<1>3. /\ \A q \in Procs \ {p} : proc'[q] = proc[q]
      /\ proc'[p].pc = "build" /\ proc'[p].for = "vacuum" /\ proc'[p].to = n
      /\ proc'[p].name = proc[p].name
      /\ proc'[p].file = proc[p].file /\ proc'[p].temp = proc[p].temp
  <2>1. /\ st.pc = "build" /\ st.for = "vacuum" /\ st.to = n
        /\ st.name = proc[p].name /\ st.file = proc[p].file /\ st.temp = proc[p].temp
    BY <1>2 DEF Process
  <2> HIDE DEF st
  <2>2. QED  BY <1>1, <1>2, <2>1 DEF TypeOK
<1>4. proc[p].file # Absent /\ proc[p].temp = Absent
  BY <1>1, <1>2 DEF Fine, Phase
<1>5. ~content[proc[p].file].legacy /\ Current(proc[p].name)
  BY <1>4 DEF BackupInv, FormatsKnown, Known
<1>6. SameFormats(p)
  BY <1>1, <1>3 DEF SameFormats
<1>7. Known(p)'
  <2>1. /\ Resolve(proc[p].name)' = Resolve(proc[p].name)
        /\ Resolve(proc[p].to)' = Resolve(proc[p].name)
    BY <1>1, <1>3 DEF Resolve, IsLink
  <2>2. QED  BY <1>1, <1>3, <1>4, <1>5, <2>1 DEF Known, Current
<1>8. Migrating'
  BY <1>1, <1>3, GoingOnMigrating DEF BackupInv
<1>9. QED  BY <1>1, <1>6, <1>7, <1>8, FormatsStay DEF BackupInv

LEMMA ReadLegacyKeepsBackups ==
  ASSUME LockInv, BackupInv, NEW p \in Procs, ReadLegacy(p)
  PROVE BackupInv'
<1> DEFINE store == content[Resolve(proc[p].name)]
<1>1. /\ proc[p].pc = "locked" /\ proc[p].for = "migrate"
      /\ UNCHANGED <<entry, content, raced>> /\ backup' = backup
  BY DEF ReadLegacy, files
<1>2. TypeOK /\ Fine(p) /\ proc[p] \in Process
  BY DEF LockInv, TypeOK
<1>3. CASE store.legacy
  <2>1. /\ proc' = [proc EXCEPT ![p].pc = "build", ![p].docs = store.docs]
        /\ told' = told
    BY <1>3 DEF ReadLegacy
  <2> HIDE DEF store
  <2>2. /\ \A q \in Procs \ {p} : proc'[q] = proc[q]
        /\ proc'[p].pc = "build" /\ proc'[p].for = proc[p].for
        /\ proc'[p].name = proc[p].name /\ proc'[p].to = proc[p].to
        /\ proc'[p].file = proc[p].file /\ proc'[p].temp = proc[p].temp
    BY <1>2, <2>1 DEF TypeOK, Process
  <2>3. SameFormats(p) /\ LegacyIsOriginal'
    BY <1>1, <2>2 DEF SameFormats, BackupInv, FormatsKnown, LegacyIsOriginal
  <2>4. QED  BY <1>1, <2>1, <2>2, <2>3, GoingOnKeepsBackups
<1>4. CASE ~store.legacy
  <2>1. proc' = [proc EXCEPT ![p] = Idle] /\ told' = told \cup {proc[p].name}
    BY <1>4 DEF ReadLegacy
  <2>2. QED  BY <1>1, <2>1, IdleIs, RestKeepsBackups
<1>5. QED  BY <1>3, <1>4

LEMMA BuildKeepsBackups ==
  ASSUME LockInv, BackupInv, NEW p \in Procs, Build(p)
  PROVE BackupInv'
<1>1. /\ proc[p].pc = "build" \/ (proc[p].pc = "locked" /\ proc[p].for = "save")
      /\ UNCHANGED <<entry, raced>> /\ UNCHANGED <<told, backup>>
  BY DEF Build, history
<1>2. PICK i \in Inodes :
        /\ i \notin DOMAIN content
        /\ content' = [j \in DOMAIN content \cup {i} |->
                         IF j = i THEN [docs |-> proc[p].docs, legacy |-> FALSE]
                         ELSE content[j]]
        /\ proc' = [proc EXCEPT ![p].pc = "rename", ![p].temp = i]
  BY DEF Build
<1>3. TypeOK /\ Fine(p) /\ proc[p] \in Process
  BY DEF LockInv, TypeOK
<1>4. /\ \A q \in Procs \ {p} : proc'[q] = proc[q]
      /\ proc'[p].pc = "rename" /\ proc'[p].for = proc[p].for
      /\ proc'[p].name = proc[p].name /\ proc'[p].to = proc[p].to
      /\ proc'[p].file = proc[p].file /\ proc'[p].temp = i
  BY <1>2, <1>3 DEF TypeOK, Process
<1>5. /\ DOMAIN content' = DOMAIN content \cup {i}
      /\ \A j \in DOMAIN content : content'[j] = content[j]
      /\ ~content'[i].legacy
  BY <1>2
<1>6. SameFormats(p)
  BY <1>1, <1>4, <1>5 DEF SameFormats
<1>7. LegacyIsOriginal'
  BY <1>5 DEF BackupInv, FormatsKnown, LegacyIsOriginal
<1>8. Known(p)'
  <2> DEFINE s == proc[p]
  <2>1. Known(p)
    BY DEF BackupInv, FormatsKnown
  <2>2. /\ s.file # Absent \/ s.for = "save"
             => s.name \in Names /\ Resolve(s.name) \in DOMAIN content \cup {Absent}
        /\ s.file # Absent => /\ s.to \in Names /\ s.file \in DOMAIN content
                              /\ Resolve(s.to) \in DOMAIN content \cup {Absent}
    BY InUse
  <2>3. Resolve(proc[p].name)' = Resolve(s.name) /\ Resolve(proc[p].to)' = Resolve(s.to)
    BY <1>1, <1>4 DEF Resolve, IsLink
  <2>4. QED  BY <1>4, <1>5, <2>1, <2>2, <2>3 DEF Known, Current
<1>9. \A q \in Procs \ {p} : Known(q)'
  BY <1>6, KnownOthers DEF BackupInv
<1>10. Migrating'
  BY <1>1, <1>4, GoingOnMigrating DEF BackupInv
<1>11. QED  BY <1>7, <1>8, <1>9, <1>10 DEF BackupInv, FormatsKnown

LEMMA FailKeepsBackups ==
  ASSUME LockInv, BackupInv, NEW p, NEW failed, Fail(p, failed),
         p \in Procs, failed \in BOOLEAN, proc[p].pc \in {"rename", "sync"},
         UNCHANGED <<entry, content, raced>>, told' = told
  PROVE BackupInv'
<1>1. CASE proc[p].for = "vacuum"
  <2>1. /\ \A q \in Procs \ {p} : proc'[q] = proc[q]
        /\ proc'[p].pc = "open" /\ proc'[p].for = "open" /\ proc'[p].temp = Absent
        /\ proc'[p].name = proc[p].name /\ proc'[p].to = proc[p].name
        /\ proc'[p].file = proc[p].file /\ backup' = backup
    BY <1>1, VacuumFails
  <2>2. SameFormats(p) /\ LegacyIsOriginal'
    BY <2>1 DEF SameFormats, BackupInv, FormatsKnown, LegacyIsOriginal
  <2>3. QED  BY <2>1, <2>2, GoingOnKeepsBackups
<1>2. CASE proc[p].for # "vacuum"
  <2>1. proc' = [proc EXCEPT ![p] = Idle] /\ backup' = WithoutBackup(p)
    BY <1>2 DEF Fail
  <2>2. QED  BY <2>1, IdleIs, RestKeepsBackups
<1>3. QED  BY <1>1, <1>2

LEMMA BuildFailsKeepsBackups ==
  ASSUME LockInv, BackupInv, NEW p \in Procs, BuildFails(p)
  PROVE BackupInv'
<1>1. /\ proc[p].pc = "rename" /\ Fail(p, proc[p].failed)
      /\ UNCHANGED <<entry, content, raced>> /\ told' = told
  BY DEF BuildFails, files, history
<1>2. proc[p].failed \in BOOLEAN
  BY DEF LockInv, TypeOK, Process
<1>3. QED  BY <1>1, <1>2, FailKeepsBackups

LEMMA SyncFailsKeepsBackups ==
  ASSUME LockInv, BackupInv, NEW p \in Procs, SyncFails(p)
  PROVE BackupInv'
<1> DEFINE failed == TRUE
<1>1. /\ proc[p].pc = "sync" /\ Fail(p, failed) /\ failed \in BOOLEAN
      /\ UNCHANGED <<entry, content, raced>> /\ told' = told
  BY DEF SyncFails, files
<1> HIDE DEF failed
<1>2. QED  BY <1>1, FailKeepsBackups

LEMMA RenameKeepsBackups ==
  ASSUME LockInv, BackupInv, NEW p \in Procs, Rename(p)
  PROVE BackupInv'
<1> DEFINE t == proc[p].to
           i == proc[p].temp
<1>1. /\ proc[p].pc = "rename" /\ entry' = [entry EXCEPT ![t] = i]
      /\ proc' = [proc EXCEPT ![p].pc = "sync"]
      /\ UNCHANGED <<content, raced, told, backup>>
  BY DEF Rename
<1>2. /\ TypeOK /\ FilesMade /\ Fine(p) /\ proc[p] \in Process /\ t \in Names
      /\ i \in DOMAIN content /\ i # Absent /\ i \notin Names
      /\ ~content[i].legacy
  <2>1. TypeOK /\ FilesMade /\ Fine(p) /\ proc[p] \in Process
    BY DEF LockInv, TypeOK
  <2>2. t \in Names /\ i # Absent /\ i \in Inodes /\ i \in DOMAIN content
    BY <1>1, <2>1 DEF Fine, Phase, Keyed, Made, Process
  <2>3. ~content[i].legacy
    BY <2>2 DEF BackupInv, FormatsKnown, Known
  <2>4. QED  BY <2>1, <2>2, <2>3, AbsentIs
<1>3. proc[p].for # "migrate" => Resolve(t) = Absent \/ Current(t)
  BY <1>1, <1>2 DEF BackupInv, FormatsKnown, Known, Fine, Phase, Keyed
<1>4. \A q \in Procs :
        /\ proc'[q].name = proc[q].name /\ proc'[q].to = proc[q].to
        /\ proc'[q].for = proc[q].for /\ proc'[q].file = proc[q].file
        /\ proc'[q].temp = proc[q].temp
        /\ q # p => proc'[q] = proc[q]
  BY <1>1, <1>2 DEF TypeOK, Process
<1>5. proc'[p].pc = "sync"
  BY <1>1, <1>2 DEF TypeOK
<1> HIDE DEF t, i
<1>6. entry'[t] = i /\ \A n \in Names \ {t} : entry'[n] = entry[n]
  BY <1>1, <1>2 DEF TypeOK
<1>7. \A n \in Names : IF n = t \/ Canonical(n) = t THEN Resolve(n)' = i
                       ELSE Resolve(n)' = Resolve(n)
  BY <1>2, <1>6 DEF Resolve, Canonical, IsLink
<1>8. \A n \in Names : (Current(n) => Current(n)') /\ Resolve(n)' \in {Resolve(n), i}
  BY <1>1, <1>2, <1>7 DEF Current
<1>9. ASSUME NEW q \in Procs
      PROVE Known(q)'
  <2> DEFINE s == proc[q]
  <2>1. Known(q)
    BY DEF BackupInv, FormatsKnown
  <2>2. /\ s.file # Absent \/ s.pc \in {"new", "copy"} \/ s.for = "save"
             => s.name \in Names
        /\ s.file # Absent => s.to \in Names
    BY InUse
  <2>3. ASSUME ~raced, s.pc = "copy"
        PROVE Resolve(proc[q].name)' = Resolve(s.name)
    <3>1. s.for = "migrate" /\ s.name \in Names /\ q # p
      BY <1>1, <2>3 DEF LockInv, Fine, Phase
    <3>2. proc[p].for # "migrate"
      BY <2>3, <3>1 DEF BackupInv, Migrating
    <3>3. Resolve(s.name) # Absent /\ content[Resolve(s.name)].legacy
      BY <2>1, <2>3 DEF Known
    <3>4. s.name # t /\ Canonical(s.name) # t
      <4>1. Canonical(s.name) = t => Resolve(t) = Resolve(s.name)
        BY <1>2, <3>1, LinksLead DEF Resolve, IsLink
      <4>2. QED  BY <1>3, <3>2, <3>3, <4>1 DEF Current
    <3>5. QED
      BY <1>2, <1>4, <1>6, <3>1, <3>4 DEF Resolve, Canonical, IsLink
  <2>4. /\ s.file # Absent => ~content[s.file].legacy /\ Current(proc[q].name)'
                               /\ Current(proc[q].to)'
        /\ s.pc = "new" \/ s.for = "save" =>
             Resolve(proc[q].name)' = Absent \/ Current(proc[q].name)'
    <3>1. \A n \in Names : n = s.name => /\ Current(n)' <=> Current(proc[q].name)'
                                         /\ Resolve(n)' = Resolve(proc[q].name)'
      BY <1>4 DEF Current, Resolve, IsLink
    <3>2. \A n \in Names : n = s.to => Current(n)' <=> Current(proc[q].to)'
      BY <1>4 DEF Current, Resolve, IsLink
    <3>3. \A n \in Names : Resolve(n) = Absent => Resolve(n)' = Absent \/ Current(n)'
      BY <1>1, <1>2, <1>8 DEF Current
    <3>4. QED  BY <1>8, <2>1, <2>2, <3>1, <3>2, <3>3 DEF Known
  <2>5. proc'[q].pc \in {"new", "copy"} => proc'[q].pc = s.pc
    BY <1>4, <1>5
  <2>6. QED  BY <1>1, <1>4, <2>1, <2>3, <2>4, <2>5 DEF Known
<1>10. LegacyIsOriginal'
  BY <1>1 DEF BackupInv, FormatsKnown, LegacyIsOriginal
<1>11. Migrating'
  BY <1>1, <1>4, <1>5, GoingOnMigrating DEF BackupInv
<1>12. QED  BY <1>9, <1>10, <1>11 DEF BackupInv, FormatsKnown

LEMMA SyncDirectoryKeepsBackups ==
  ASSUME LockInv, BackupInv, NEW p \in Procs, SyncDirectory(p)
  PROVE BackupInv'
<1>1. /\ proc[p].pc = "sync" /\ Done(p)
      /\ told' = IF proc[p].for = "migrate" THEN told \cup {proc[p].to} ELSE told
      /\ UNCHANGED <<entry, content, raced>> /\ backup' = backup
  BY DEF SyncDirectory
<1>2. TypeOK /\ Fine(p) /\ proc[p] \in Process
  BY DEF LockInv, TypeOK
<1>3. CASE proc[p].for = "vacuum"
  <2>1. proc' = [proc EXCEPT ![p].pc = "reopen"] /\ told' = told
    BY <1>1, <1>3 DEF Done
  <2>2. /\ \A q \in Procs \ {p} : proc'[q] = proc[q]
        /\ proc'[p].pc = "reopen" /\ proc'[p].for = proc[p].for
        /\ proc'[p].name = proc[p].name /\ proc'[p].to = proc[p].to
        /\ proc'[p].file = proc[p].file /\ proc'[p].temp = proc[p].temp
    BY <1>2, <2>1 DEF TypeOK, Process
  <2>3. SameFormats(p) /\ LegacyIsOriginal'
    BY <1>1, <2>2 DEF SameFormats, BackupInv, FormatsKnown, LegacyIsOriginal
  <2>4. QED  BY <1>1, <2>1, <2>2, <2>3, GoingOnKeepsBackups
<1>4. CASE proc[p].for # "vacuum"
  <2>1. proc' = [proc EXCEPT ![p] = Idle] /\ proc[p].to = proc[p].name
    BY <1>1, <1>2, <1>4 DEF Done, Fine, Phase, Keyed
  <2>2. QED  BY <1>1, <2>1, IdleIs, RestKeepsBackups
<1>5. QED  BY <1>3, <1>4

LEMMA ReopenKeepsBackups ==
  ASSUME LockInv, BackupInv, NEW p \in Procs, Reopen(p)
  PROVE BackupInv'
<1> DEFINE t == proc[p].to
           i == proc[p].temp
           f == Resolve(t)
           st == [proc[p] EXCEPT !.pc = "open", !.for = "open", !.file = f,
                                 !.ino = i, !.temp = Absent, !.name = t]
<1>1. /\ proc[p].pc = "reopen" /\ proc' = [proc EXCEPT ![p] = st]
      /\ UNCHANGED <<entry, content, raced>> /\ UNCHANGED <<told, backup>>
  BY DEF Reopen, files, history
<1>2. TypeOK /\ Fine(p) /\ proc[p] \in Process
  BY DEF LockInv, TypeOK
<1>3. Current(t)
  <2>1. proc[p].file # Absent
    BY <1>1, <1>2 DEF Fine, Phase
  <2>2. QED  BY <2>1 DEF BackupInv, FormatsKnown, Known
<1>4. /\ \A q \in Procs \ {p} : proc'[q] = proc[q]
      /\ proc'[p].pc = "open" /\ proc'[p].for = "open" /\ proc'[p].name = t
      /\ proc'[p].to = t /\ proc'[p].file = f /\ proc'[p].temp = Absent
  <2> HIDE DEF f, i
  <2>1. /\ st.pc = "open" /\ st.for = "open" /\ st.name = t /\ st.to = t
        /\ st.file = f /\ st.temp = Absent
    BY <1>2 DEF Process
  <2> HIDE DEF st, t
  <2>2. QED  BY <1>1, <1>2, <2>1 DEF TypeOK
<1>5. SameFormats(p)
  BY <1>1, <1>4 DEF SameFormats
<1>6. Known(p)'
  BY <1>1, <1>3, <1>4 DEF Known, Current, Resolve, IsLink
<1>7. Migrating'
  BY <1>1, <1>4, GoingOnMigrating DEF BackupInv
<1>8. QED  BY <1>1, <1>5, <1>6, <1>7, FormatsStay DEF BackupInv

LEMMA LinkKeepsBackups ==
  ASSUME LockInv, BackupInv, NEW n \in Names, NEW m \in Names, Link(n, m)
  PROVE BackupInv'
<1>1. /\ entry[n] = Absent /\ entry[m] \in Inodes
      /\ \A p \in Procs : proc[p].name # n
      /\ entry' = [entry EXCEPT ![n] = entry[m]]
      /\ UNCHANGED <<content, proc, raced>> /\ UNCHANGED <<told, backup>>
  BY DEF Link, history
<1>2. TypeOK /\ FilesMade
  BY DEF LockInv
<1>3. /\ entry'[n] = entry[m] /\ \A x \in Names \ {n} : entry'[x] = entry[x]
      /\ entry[m] \notin Names
  BY <1>1, <1>2, AbsentIs DEF TypeOK
<1>4. ASSUME NEW x \in Names
      PROVE x # n \/ Resolve(x) # Absent => Resolve(x)' = Resolve(x)
  <2>1. entry[x] # n
    <3>1. SUFFICES ASSUME entry[x] = n PROVE FALSE
      OBVIOUS
    <3>2. n \in disk[x] \cap Names /\ Absent \in disk[n]
      BY <1>1, <1>2, <3>1 DEF FilesMade
    <3>3. Absent \in DOMAIN content
      BY <1>2, <3>2 DEF FilesMade
    <3>4. QED  BY <1>2, <3>3, AbsentIs DEF TypeOK
  <2>2. QED  BY <1>1, <1>3, <2>1, AbsentIs DEF Resolve, IsLink
<1>5. ASSUME NEW q \in Procs
      PROVE Known(q)'
  <2> DEFINE s == proc[q]
  <2>1. Known(q) /\ proc'[q] = s /\ s.name # n
    BY <1>1 DEF BackupInv, FormatsKnown
  <2>2. /\ s.file # Absent \/ s.pc \in {"new", "copy"} \/ s.for = "save"
             => s.name \in Names
        /\ s.file # Absent => s.to \in Names
    BY InUse
  <2>3. /\ s.name \in Names => Resolve(proc[q].name)' = Resolve(s.name)
        /\ s.to \in Names /\ Resolve(s.to) # Absent
             => Resolve(proc[q].to)' = Resolve(s.to)
    BY <1>4, <2>1 DEF Resolve, IsLink
  <2>4. QED  BY <1>1, <2>1, <2>2, <2>3 DEF Known, Current
<1>6. LegacyIsOriginal' /\ Migrating'
  BY <1>1 DEF BackupInv, FormatsKnown, LegacyIsOriginal, Migrating
<1>7. QED  BY <1>5, <1>6 DEF BackupInv, FormatsKnown

LEMMA PowerFailureKeepsBackups ==
  ASSUME LockInv, BackupInv, PowerFailure
  PROVE BackupInv'
<1>1. /\ \A p \in Procs : proc'[p] = Idle
      /\ told' = {} /\ UNCHANGED <<content, raced>>
  BY DEF PowerFailure
<1>2. \A p \in Procs : Known(p)'
  BY <1>1, IdleIs, RestingKnown
<1>3. Migrating'
  BY <1>1, IdleIs DEF Migrating
<1>4. LegacyIsOriginal'
  BY <1>1 DEF BackupInv, FormatsKnown, LegacyIsOriginal
<1>5. QED  BY <1>2, <1>3, <1>4 DEF BackupInv, FormatsKnown

LEMMA InitBackups == Init => BackupInv
<1> SUFFICES ASSUME Init PROVE BackupInv
  OBVIOUS
<1>1. /\ content \in [{entry[n] : n \in Names} \cap Inodes ->
                        [docs : {{Original}}, legacy : BOOLEAN]]
      /\ proc = [p \in Procs |-> Idle] /\ told = {}
  BY DEF Init
<1>2. LegacyIsOriginal
  BY <1>1 DEF LegacyIsOriginal
<1>3. \A p \in Procs : Known(p)
  BY <1>1, IdleIs DEF Known
<1>4. Migrating
  BY <1>1, IdleIs DEF Migrating
<1>5. QED  BY <1>2, <1>3, <1>4 DEF BackupInv, FormatsKnown

LEMMA NextKeepsBackups == LockInv /\ BackupInv /\ [Next]_vars => BackupInv'
<1> SUFFICES ASSUME LockInv, BackupInv, [Next]_vars PROVE BackupInv'
  OBVIOUS
<1>1. CASE \E p \in Procs : Step(p)
  <2> PICK p \in Procs : Step(p)
    BY <1>1
  <2>1. CASE \E n \in Names : Vacuum(p, n) \/ IndexNew(p, n) \/ Offer(p, n)
    BY <2>1, VacuumKeepsBackups, IndexNewKeepsBackups, OfferKeepsBackups
  <2>2. CASE (\E n \in Names : Open(p, n)) \/ Save(p)
    BY <2>2, OpenKeepsBackups
  <2>3. CASE LockPath(p) \/ StatInode(p) \/ LockInode(p)
    BY <2>3, LockPathKeepsBackups
  <2>4. CASE Refused(p) \/ CommitInMemory(p) \/ ReopenFails(p) \/ ProcessEnds(p)
    BY <2>4, UnlockedKeepsBackups
  <2>5. CASE OpenFile(p) \/ Commit(p) \/ CopyBackup(p) \/ ReadLegacy(p)
    BY <2>5, OpenFileKeepsBackups, CommitKeepsBackups, CopyBackupKeepsBackups,
       ReadLegacyKeepsBackups
  <2>6. CASE Build(p) \/ BuildFails(p) \/ Rename(p) \/ SyncDirectory(p) \/ SyncFails(p)
    BY <2>6, BuildKeepsBackups, BuildFailsKeepsBackups, RenameKeepsBackups,
       SyncDirectoryKeepsBackups, SyncFailsKeepsBackups
  <2>7. CASE Reopen(p)
    BY <2>7, ReopenKeepsBackups
  <2>8. QED  BY <2>1, <2>2, <2>3, <2>4, <2>5, <2>6, <2>7 DEF Step
<1>2. CASE \E n, m \in Names : Link(n, m)
  BY <1>2, LinkKeepsBackups
<1>3. CASE PowerFailure
  BY <1>3, PowerFailureKeepsBackups
<1>4. CASE UNCHANGED vars
  <2>1. /\ UNCHANGED <<entry, content, proc, raced>> /\ UNCHANGED <<told, backup>>
    BY <1>4 DEF vars, files, locks, history
  <2>2. LegacyIsOriginal' /\ Migrating'
    BY <2>1 DEF BackupInv, FormatsKnown, LegacyIsOriginal, Migrating
  <2>3. \A q \in Procs : Known(q)'
    BY <2>1 DEF BackupInv, FormatsKnown, Known, Current, Resolve, IsLink
  <2>4. QED  BY <2>2, <2>3 DEF BackupInv, FormatsKnown
<1>5. QED  BY <1>1, <1>2, <1>3, <1>4 DEF Next

(* What a migration leaves as the backup of a store is the store as it was *)
(* before the migration, as long as no two processes migrate at one time.  *)
THEOREM BackupsAreOriginal == Spec => []BackupIsOriginal
<1>1. Spec => [](LockInv /\ BackupInv)
  BY InitKeeps, InitBackups, NextKeeps, NextKeepsBackups, PTL DEF Spec
<1>2. BackupInv => BackupIsOriginal
  BY DEF BackupInv, Migrating, BackupIsOriginal, OriginalBackup
<1>3. QED  BY <1>1, <1>2, PTL
=============================================================================
