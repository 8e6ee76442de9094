------------------------- MODULE StorageStrategies -------------------------
(***************************************************************************)
(* How the backups of one checkpoint are kept.  A small file is copied to  *)
(* process memory, as long as the budgets of the hot buffer allow; any     *)
(* other file goes to the strategy beneath, which copies it, or makes a    *)
(* hard link and then puts a copy in the workspace file's place.           *)
(*                                                                         *)
(* Files are inodes here, because a hard link shares one: a write that     *)
(* opens the file changes the inode under every name it has.  Names of the *)
(* workspace may share one as well, and a descriptor keeps the inode it    *)
(* was opened on.  A call is synchronous, so it is one step; a file system *)
(* error inside it is a choice.                                            *)
(***************************************************************************)
EXTENDS Integers, FiniteSets, FiniteSetsExt

CONSTANTS
    Paths, Data, Inodes,
    Size,           \* bytes of each content
    MaxFileBytes, MaxTotalBytes, MaxFiles,  \* hotBufferMax...
    MaxOpen,        \* files open at a time (a bound)
    None,           \* no record
    Absent          \* no file

ASSUME DataAssumption ==
    /\ Absent \notin Data /\ None \notin Data /\ None # Absent
    /\ Absent \notin Inodes /\ None \notin Inodes /\ None \notin {"missing", "file"}
ASSUME SizeAssumption == Size \in [Data -> Nat]
ASSUME BudgetAssumption == MaxFileBytes \in Nat /\ MaxTotalBytes \in Nat /\ MaxFiles \in Nat
ASSUME OpenAssumption == MaxOpen \in Nat

VARIABLES
    content,      \* what each inode holds
    name,         \* the inode of each workspace path, or Absent
    open,         \* inodes that a descriptor writes to
    backupName,   \* the inode at each backup path, or Absent
    delegate,     \* backupRecords of the strategy beneath: "missing" or "file"
    memory,       \* memoryRecords of the hot buffer
    bytesUsed,
    linksUnsafe,  \* no links from now on; TRUE from the start for pure-manifest
                  \* and tmpfs, which only copy
    exposed       \* history: paths backed up by a link to a file that something
                  \* else in the workspace could still write to

vars == <<content, name, open, backupName, delegate, memory, bytesUsed, linksUnsafe, exposed>>

Nothing == [p \in Paths |-> None]
NoFile == [p \in Paths |-> Absent]

Init ==
    /\ content \in [Inodes -> Data]
    /\ name \in [Paths -> Inodes \cup {Absent}]
    /\ open = {}
    /\ backupName = NoFile
    /\ delegate = Nothing
    /\ memory = Nothing
    /\ bytesUsed = 0
    /\ linksUnsafe \in BOOLEAN
    /\ exposed = {}

Used == {name[p] : p \in Paths} \cup {backupName[p] : p \in Paths} \cup open
Free == Inodes \ Used
-----------------------------------------------------------------------------
(* backupFile() *)

HasRecord(p) == memory[p] # None \/ delegate[p] # None

\* Mutant: the bytes in use are not looked at.
CanStore_TotalIgnored(size) ==
    /\ size <= MaxFileBytes
    /\ Cardinality({p \in Paths : memory[p] # None}) < MaxFiles

CanStore(size) ==
    /\ size <= MaxFileBytes
    /\ Cardinality({p \in Paths : memory[p] # None}) < MaxFiles
    /\ bytesUsed + size <= MaxTotalBytes

Record(p, kind) == delegate' = [delegate EXCEPT ![p] = kind]

BackupMissing(p) ==
    /\ ~HasRecord(p) /\ name[p] = Absent
    /\ Record(p, "missing")
    /\ UNCHANGED <<content, name, open, backupName, memory, bytesUsed, linksUnsafe, exposed>>

BackupInMemory(p) ==
    /\ ~HasRecord(p) /\ name[p] # Absent
    /\ LET data == content[name[p]]
       IN  /\ CanStore(Size[data])
           /\ memory' = [memory EXCEPT ![p] = data]
           /\ bytesUsed' = bytesUsed + Size[data]
    /\ UNCHANGED <<content, name, open, backupName, delegate, linksUnsafe, exposed>>

Spills(p) == ~HasRecord(p) /\ name[p] # Absent /\ ~CanStore(Size[content[name[p]]])

\* The file at p has another name or an open descriptor, which keep the inode.
Shared(p) == name[p] \in open \/ \E q \in Paths \ {p} : name[q] = name[p]

\* Mutant: the workspace file keeps its inode after the link.
BackupByLink_NotMaterialized(p) ==
    /\ Spills(p) /\ ~linksUnsafe
    /\ backupName[p] = Absent
    /\ backupName' = [backupName EXCEPT ![p] = name[p]]
    /\ Record(p, "file")
    /\ exposed' = IF Shared(p) THEN exposed \cup {p} ELSE exposed
    /\ UNCHANGED <<content, name, open, memory, bytesUsed, linksUnsafe>>

\* linkSync, then materializeWorkspaceTarget: the link keeps the old inode, the
\* workspace path gets a copy, but no other name of the file does, and no open
\* descriptor.  linkSync fails where a backup file is left.
BackupByLink(p) ==
    /\ Spills(p) /\ ~linksUnsafe
    /\ backupName[p] = Absent
    /\ \E i \in Free :
         /\ content' = [content EXCEPT ![i] = content[name[p]]]
         /\ name' = [name EXCEPT ![p] = i]
    /\ backupName' = [backupName EXCEPT ![p] = name[p]]
    /\ Record(p, "file")
    /\ exposed' = IF Shared(p) THEN exposed \cup {p} ELSE exposed
    /\ UNCHANGED <<open, memory, bytesUsed, linksUnsafe>>

\* Mutant: the link of a failed materialization is kept as the backup.
BackupByCopy_LinkKept(p) ==
    /\ Spills(p)
    /\ backupName' = [backupName EXCEPT ![p] = name[p]]
    /\ Record(p, "file")
    /\ linksUnsafe' = TRUE
    /\ UNCHANGED <<content, name, open, memory, bytesUsed, exposed>>

\* Links are off; or the link, or the copy after it, failed: what is at the
\* backup path is removed, links stay off, and the file is copied.
BackupByCopy(p) ==
    /\ Spills(p)
    /\ \E i \in Free :
         /\ content' = [content EXCEPT ![i] = content[name[p]]]
         /\ backupName' = [backupName EXCEPT ![p] = i]
    /\ Record(p, "file")
    /\ linksUnsafe' = TRUE
    /\ UNCHANGED <<name, open, memory, bytesUsed, exposed>>

\* The copy fails as well: backupFile throws, and the fs call is refused.
BackupThrows(p) ==
    /\ Spills(p)
    /\ linksUnsafe' = TRUE
    /\ backupName' = [backupName EXCEPT ![p] = Absent]
    /\ UNCHANGED <<content, name, open, delegate, memory, bytesUsed, exposed>>
-----------------------------------------------------------------------------
(* The workspace changes. *)

KeepsStorage == UNCHANGED <<backupName, delegate, memory, bytesUsed, linksUnsafe, exposed>>

\* writeFile() and the like keep the inode, and a descriptor has it.
WriteTo(i) ==
    /\ \E d \in Data : content' = [content EXCEPT ![i] = d]
    /\ UNCHANGED <<name, open>> /\ KeepsStorage

WriteInPlace(p) == name[p] # Absent /\ WriteTo(name[p])

WriteByDescriptor(i) == i \in open /\ WriteTo(i)

PutNewFile(p, data) ==
    \E i \in Free :
        /\ content' = [content EXCEPT ![i] = data]
        /\ name' = [name EXCEPT ![p] = i]

\* A new file, or one from elsewhere renamed over the old one.
Replace(p) ==
    /\ \E d \in Data : PutNewFile(p, d)
    /\ UNCHANGED open /\ KeepsStorage

\* Also deleteCreatedPath().
Delete(p) ==
    /\ name[p] # Absent
    /\ name' = [name EXCEPT ![p] = Absent]
    /\ UNCHANGED <<content, open>> /\ KeepsStorage

\* link() gives the file of p a second name.
Link(p, q) ==
    /\ name[p] # Absent /\ name[q] = Absent
    /\ name' = [name EXCEPT ![q] = name[p]]
    /\ UNCHANGED <<content, open>> /\ KeepsStorage

\* rename() within the workspace; of two names of one file, it does nothing.
Move(p, q) ==
    /\ name[p] # Absent /\ name[p] # name[q]
    /\ name' = [name EXCEPT ![q] = name[p], ![p] = Absent]
    /\ UNCHANGED <<content, open>> /\ KeepsStorage

OpenFile(p) ==
    /\ name[p] # Absent
    /\ Cardinality(open) < MaxOpen
    /\ open' = open \cup {name[p]}
    /\ UNCHANGED <<content, name>> /\ KeepsStorage

CloseFile(i) ==
    /\ i \in open
    /\ open' = open \ {i}
    /\ UNCHANGED <<content, name>> /\ KeepsStorage
-----------------------------------------------------------------------------
(* restoreFile(), readBackupFile() and cleanup() *)

\* What a restore puts there; None if it throws.
Held(p) ==
    CASE memory[p] # None -> memory[p]
      [] memory[p] = None /\ delegate[p] = "missing" -> Absent
      [] memory[p] = None /\ delegate[p] = "file" /\ backupName[p] # Absent ->
           content[backupName[p]]
      [] OTHER -> None

\* Mutant: a restore gives the bytes back although the record stays.
Restore_BytesFreed(p) ==
    /\ Held(p) # None
    /\ \/ Held(p) = Absent /\ name' = [name EXCEPT ![p] = Absent] /\ UNCHANGED content
       \/ Held(p) # Absent /\ PutNewFile(p, Held(p))
    /\ bytesUsed' = IF memory[p] = None THEN bytesUsed ELSE bytesUsed - Size[memory[p]]
    /\ UNCHANGED <<open, backupName, delegate, memory, linksUnsafe, exposed>>

\* A copy of the backup takes the path by a rename; the record stays.
Restore(p) ==
    /\ Held(p) # None
    /\ \/ Held(p) = Absent /\ name' = [name EXCEPT ![p] = Absent] /\ UNCHANGED content
       \/ Held(p) # Absent /\ PutNewFile(p, Held(p))
    /\ UNCHANGED open /\ KeepsStorage

\* The hot buffer is emptied; the backup files stay, except for tmpfs.  The
\* caller drops the whole strategy, and its records with it.
Cleanup ==
    /\ memory' = Nothing /\ bytesUsed' = 0
    /\ delegate' = Nothing
    /\ backupName' = NoFile
    /\ exposed' = {}
    /\ UNCHANGED <<content, name, open, linksUnsafe>>
-----------------------------------------------------------------------------
Next ==
    \/ \E p \in Paths :
        \/ BackupMissing(p) \/ BackupInMemory(p) \/ BackupByLink(p)
        \/ BackupByCopy(p) \/ BackupThrows(p)
        \/ WriteInPlace(p) \/ Replace(p) \/ Delete(p) \/ OpenFile(p) \/ Restore(p)
    \/ \E p, q \in Paths : Link(p, q) \/ Move(p, q)
    \/ \E i \in Inodes : WriteByDescriptor(i) \/ CloseFile(i)
    \/ Cleanup

Spec == Init /\ [][Next]_vars
-----------------------------------------------------------------------------
TypeOK ==
    /\ content \in [Inodes -> Data]
    /\ name \in [Paths -> Inodes \cup {Absent}]
    /\ open \subseteq Inodes
    /\ backupName \in [Paths -> Inodes \cup {Absent}]
    /\ delegate \in [Paths -> {"missing", "file", None}]
    /\ memory \in [Paths -> Data \cup {None}]
    /\ bytesUsed \in Nat
    /\ linksUnsafe \in BOOLEAN
    /\ exposed \subseteq Paths

Buffered == {p \in Paths : memory[p] # None}
WithinLimits == bytesUsed <= MaxTotalBytes /\ Cardinality(Buffered) <= MaxFiles

\* The hot buffer never holds more than its budgets allow, and its account of
\* the bytes is right.
BudgetsKept ==
    /\ WithinLimits
    /\ bytesUsed = MapThenSumSet(LAMBDA p : Size[memory[p]], Buffered)

\* No write to the workspace can reach a backup, whatever is linked, renamed,
\* written, opened or restored after it was made: a recorded backup file shares
\* its inode with no workspace path and with no open descriptor.  The exception
\* is a backup made by linking a file that had a second name in the workspace
\* or was open at that moment, since only the one name gets a copy.
BackupsDetached ==
    \A p \in Paths :
        delegate[p] = "file" =>
            /\ backupName[p] # Absent
            /\ p \notin exposed =>
                 backupName[p] \notin open /\ \A q \in Paths : backupName[p] # name[q]

\* Hot buffer, links and copies together do what the checkpoint code expects;
\* what an exposed backup holds may change.
At(p) == IF name[p] = Absent THEN Absent ELSE content[name[p]]
Disk == [p \in Paths |-> At(p)]
Backups == [p \in Paths |-> Held(p)]
Store == INSTANCE BackupStore WITH disk <- Disk, held <- Backups, exposed <- exposed

KeepsBackups == Store!Spec
=============================================================================
