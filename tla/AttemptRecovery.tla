-------------------------- MODULE AttemptRecovery --------------------------
(***************************************************************************)
(* What survives a crash.  A checkpoint ("attempt") lives in the memory of *)
(* one process.  Three things outlive it: the journal (status and dirty    *)
(* set), the backup manifest (which paths have a backup, and whether it is *)
(* volatile), and the backup files.  A later process may rehydrate the     *)
(* attempt from them and roll it back.                                     *)
(*                                                                         *)
(* The code between two awaits is cut here at every durable write, since a *)
(* crash may fall in between; within one process nothing else interleaves  *)
(* (DirtyTracking models that).  Journal and manifest are written by a     *)
(* rename of a temporary file, so a write happens or does not; it may fail *)
(* without an error, because both are written "best effort".               *)
(*                                                                         *)
(* There is one attempt, whose snapshot() has returned, and regular files. *)
(* durableAttemptJournals is on, as it is by default.                      *)
(***************************************************************************)
EXTENDS Integers, FiniteSets

CONSTANTS
    Paths, Data,
    MaxEdits,   \* bound on the operations that may change files
    MaxFaults,  \* bound on the journal and manifest writes that fail
    MaxLives,   \* bound on the processes that hold the attempt in turn
    None,       \* nothing recorded
    Absent      \* the path does not exist

\* A dirty entry, and a backup record, by its kind.
Kinds == {"created", "modified", "deleted"}
Records == {"missing", "memory", "file"}
Effects == {"write", "delete"}
Live == {"active", "rolling-back"}
Settled == {"promoted", "disposed"}

ASSUME DataAssumption == Absent \notin Data /\ None \notin Data /\ None # Absent
ASSUME NoneAssumption == None \notin Kinds \cup Records \cup Effects \cup Live \cup Settled
ASSUME BoundsAssumption == MaxEdits \in Nat /\ MaxFaults \in Nat /\ MaxLives \in Nat

VARIABLES
    disk,      \* content of every path
    touched,   \* the paths whose stat differs from the baseline's
    journal,   \* journal.json: status and dirty kinds
    manifest,  \* backups.json: what kind of backup each path has
    files,     \* content of the backup files
    tmpfs,     \* the backup files are in RAM, and cleanup() removes them
    status,    \* StoredCheckpoint.status
    dirty,     \* the kind of each path in its dirty map
    records,   \* the backup records of its storage strategy
    memory,    \* content of the hot buffer
    phase,     \* what the process is about to do, "down" without one
    todo,      \* the fs call in progress: "write" or "delete" for its paths
    pending,   \* its paths that are not backed up yet
    lives, faults, edits,
    original,  \* history: content at the snapshot
    blind,     \* history: paths changed while no record said what they held
    undone,    \* history: changed paths whose dirty entry an undo removed
    outside,   \* history: paths that changed while no process could list them
    outcome    \* history: how the attempt ended, for its caller

process == <<status, dirty, records, memory>>
call == <<todo, pending>>
counters == <<lives, faults, edits>>
history == <<blind, undone, outside, outcome>>
fixed == <<original, tmpfs>>
vars == <<disk, touched, journal, manifest, files, process, phase, call,
          counters, history, fixed>>

Nothing == [p \in Paths |-> None]

Init ==
    /\ original \in [Paths -> Data \cup {Absent}]
    /\ disk = original
    /\ touched = {}
    /\ journal = [status |-> "active", dirty |-> Nothing]
    /\ manifest = Nothing
    /\ files = Nothing
    /\ tmpfs \in BOOLEAN
    /\ status = "active"
    /\ dirty = Nothing /\ records = Nothing /\ memory = Nothing
    /\ phase = "idle"
    /\ todo = Nothing /\ pending = {}
    /\ lives = 1 /\ faults = 0 /\ edits = 0
    /\ blind = {} /\ undone = {} /\ outside = {} /\ outcome = None
-----------------------------------------------------------------------------
(* Durable writes. *)

Fault == faults < MaxFaults /\ faults' = faults + 1

WriteJournal(st, d) ==
    \/ journal' = [status |-> st, dirty |-> d] /\ UNCHANGED faults
    \/ Fault /\ UNCHANGED journal

WriteManifest ==
    \/ manifest' = records /\ UNCHANGED faults
    \/ Fault /\ UNCHANGED manifest
-----------------------------------------------------------------------------
(* A patched fs call: back up and mark its paths, save, then change files. *)

Operations ==
    LET Call(d, w) == [p \in Paths |-> IF p \in d THEN "delete"
                                       ELSE IF p \in w THEN "write" ELSE None]
    IN  {Call({}, {p}) : p \in Paths}                          \* writeFile, ...
        \cup {Call({p}, {}) : p \in Paths}                     \* unlink, rm
        \cup {Call({p}, {q}) : p \in Paths, q \in Paths}       \* rename

PathsOf(t) == {p \in Paths : t[p] # None}

BeginMutation(t) ==
    /\ phase = "idle" /\ status = "active"
    /\ edits < MaxEdits
    /\ edits' = edits + 1
    /\ todo' = t
    /\ pending' = PathsOf(t)
    /\ phase' = "backup"
    /\ UNCHANGED <<disk, touched, journal, manifest, files, process, lives,
                   faults, history, fixed>>

\* Mutant: a second backup replaces the first.
Backup_LastWins(p) ==
    \/ /\ disk[p] = Absent
       /\ records' = [records EXCEPT ![p] = "missing"]
       /\ UNCHANGED <<memory, files>>
    \/ /\ disk[p] # Absent
       /\ records' = [records EXCEPT ![p] = "file"]
       /\ files' = [files EXCEPT ![p] = disk[p]]
       /\ UNCHANGED memory

\* backupFile: the first record stays.  A small file goes to the hot buffer
\* while that has room; a rehydrated attempt has no hot buffer.
Backup(p) ==
    \/ records[p] # None /\ UNCHANGED <<records, memory, files>>
    \/ /\ records[p] = None /\ disk[p] = Absent
       /\ records' = [records EXCEPT ![p] = "missing"]
       /\ UNCHANGED <<memory, files>>
    \/ /\ records[p] = None /\ disk[p] # Absent /\ lives = 1
       /\ records' = [records EXCEPT ![p] = "memory"]
       /\ memory' = [memory EXCEPT ![p] = disk[p]]
       /\ UNCHANGED files
    \/ /\ records[p] = None /\ disk[p] # Absent
       /\ records' = [records EXCEPT ![p] = "file"]
       /\ files' = [files EXCEPT ![p] = disk[p]]
       /\ UNCHANGED memory

\* Mutant: the target of a rename gets a kind of its own.
VfsKind_Renamed(p, op, record) ==
    IF op = "write" /\ Cardinality(PathsOf(todo)) = 2 THEN "renamed" ELSE "modified"

\* inferVfsDirtyKind
VfsKind(p, op, record) ==
    CASE original[p] = Absent /\ record = "missing" -> "created"
      [] op = "delete" /\ ~(original[p] = Absent /\ record = "missing") -> "deleted"
      [] OTHER -> "modified"

BackUpAndMark(p) ==
    /\ phase = "backup" /\ p \in pending
    /\ Backup(p)
    /\ dirty' = [dirty EXCEPT ![p] = VfsKind(p, todo[p], records'[p])]
    /\ pending' = pending \ {p}
    /\ phase' = IF pending = {p} THEN "manifest" ELSE "backup"
    /\ UNCHANGED <<disk, touched, journal, manifest, status, todo, counters,
                   history, fixed>>

\* backupFile threw: the fs call is refused, the paths marked so far stay so.
BackupThrows ==
    /\ phase = "backup"
    /\ phase' = "idle" /\ todo' = Nothing /\ pending' = {}
    /\ UNCHANGED <<disk, touched, journal, manifest, files, process, counters,
                   history, fixed>>

SaveManifest ==
    /\ phase = "manifest"
    /\ WriteManifest
    /\ phase' = "journal"
    /\ UNCHANGED <<disk, touched, journal, files, process, call, lives, edits,
                   history, fixed>>

\* Mutant: the journal of a mutation is not written.
SaveJournal_Skipped ==
    /\ phase = "journal"
    /\ phase' = "apply"
    /\ UNCHANGED <<disk, touched, journal, manifest, files, process, call, counters,
                   history, fixed>>

SaveJournal ==
    /\ phase = "journal"
    /\ WriteJournal(status, dirty)
    /\ phase' = "apply"
    /\ UNCHANGED <<disk, touched, manifest, files, process, call, lives, edits,
                   history, fixed>>

\* The original fs function, external to the code.
Apply ==
    /\ phase = "apply"
    /\ LET written == {p \in Paths : todo[p] = "write"}
           deleted == {p \in Paths : todo[p] = "delete"}
       IN  /\ \/ deleted = {}
              \/ written = {}
              \/ \A p \in deleted : disk[p] # Absent
           /\ \E d \in Data :
                /\ \A p \in deleted : written # {} => d = disk[p]
                /\ disk' = [p \in Paths |-> IF p \in written THEN d
                                            ELSE IF p \in deleted THEN Absent ELSE disk[p]]
    /\ touched' = touched \cup PathsOf(todo)
    /\ undone' = undone \ PathsOf(todo)
    /\ outside' = outside \ PathsOf(todo)
    /\ phase' = "idle" /\ todo' = Nothing
    /\ UNCHANGED <<journal, manifest, files, process, pending, counters, blind,
                   outcome, fixed>>

\* It failed: undoVfsMutations drops the entries, also those of earlier calls.
ApplyFails ==
    /\ phase = "apply"
    /\ dirty' = [p \in Paths |-> IF todo[p] # None THEN None ELSE dirty[p]]
    /\ undone' = undone \cup {p \in PathsOf(todo) : disk[p] # original[p]}
    /\ phase' = "idle" /\ todo' = Nothing
    /\ UNCHANGED <<disk, touched, journal, manifest, files, status, records,
                   memory, pending, counters, blind, outside, outcome, fixed>>
-----------------------------------------------------------------------------
(* reconcile() and rollback() *)

AtBaseline(p) ==
    IF disk[p] = Absent THEN original[p] = Absent
    ELSE original[p] # Absent /\ p \notin touched

DiffKind(p) ==
    CASE AtBaseline(p) -> None
      [] ~AtBaseline(p) /\ original[p] = Absent -> "created"
      [] ~AtBaseline(p) /\ disk[p] = Absent -> "deleted"
      [] OTHER -> "modified"

ReconcileAs(st, next) ==
    /\ dirty' = [p \in Paths |-> DiffKind(p)]
    /\ WriteJournal(st, dirty')
    /\ status' = st
    /\ phase' = next
    /\ undone' = {} /\ outside' = {}
    /\ UNCHANGED <<disk, touched, manifest, files, records, memory, call, lives,
                   edits, blind, outcome, fixed>>

Reconcile == phase = "idle" /\ status = "active" /\ ReconcileAs("active", "idle")

StartRollback ==
    /\ phase = "idle" /\ status = "active"
    /\ WriteJournal("active", dirty)
    /\ phase' = "reconcile"
    /\ UNCHANGED <<disk, touched, manifest, files, process, call, lives, edits,
                   history, fixed>>

ReconcileForRollback == phase = "reconcile" /\ ReconcileAs("rolling-back", "restore")

\* What a restore of p would put there, None if it would throw.
Held(p) ==
    CASE records[p] = "missing" -> Absent
      [] records[p] = "memory" -> memory[p]
      [] records[p] = "file" -> files[p]
      [] records[p] = None -> None

OfKind(kind) == {p \in Paths : dirty[p] = kind}

\* Created paths come first, then modified ones, then deleted ones.
MayRestore(p) ==
    \/ dirty[p] = "created"
    \/ dirty[p] = "modified" /\ OfKind("created") = {}
    \/ dirty[p] = "deleted" /\ OfKind("created") = {} /\ OfKind("modified") = {}

RestoreOne(p) ==
    /\ phase = "restore" /\ MayRestore(p)
    /\ \/ dirty[p] = "created" /\ disk' = [disk EXCEPT ![p] = Absent]
       \/ /\ dirty[p] # "created" /\ Held(p) # None
          /\ disk' = [disk EXCEPT ![p] = Held(p)]
    /\ touched' = touched \cup {p}
    /\ dirty' = [dirty EXCEPT ![p] = None]
    /\ UNCHANGED <<journal, manifest, files, status, records, memory, phase,
                   call, counters, history, fixed>>

\* No backup for the next path, or a file system error.
RestoreThrows ==
    /\ phase = "restore" /\ dirty # Nothing
    /\ status' = "active"
    /\ WriteJournal("active", dirty)
    /\ phase' = "idle"
    /\ UNCHANGED <<disk, touched, manifest, files, dirty, records, memory, call,
                   lives, edits, history, fixed>>

\* Mutant: the journal is not written once the checkpoint is disposed.
FinishRollback_Unjournaled ==
    /\ phase = "restore" /\ dirty = Nothing
    /\ status' = "disposed"
    /\ phase' = "cleanup"
    /\ UNCHANGED <<disk, touched, journal, manifest, files, dirty, records, memory,
                   call, counters, history, fixed>>

FinishRollback ==
    /\ phase = "restore" /\ dirty = Nothing
    /\ status' = "disposed"
    /\ WriteJournal("disposed", dirty)
    /\ phase' = "cleanup"
    /\ UNCHANGED <<disk, touched, manifest, files, dirty, records, memory, call,
                   lives, edits, history, fixed>>
-----------------------------------------------------------------------------
(* promote(), the cleanup, dispose() *)

StartPromote == phase = "idle" /\ status = "active" /\ ReconcileAs("active", "promote")

FinishPromote ==
    /\ phase = "promote"
    /\ status' = "promoted"
    /\ WriteJournal("promoted", dirty)
    /\ phase' = "cleanup"
    /\ UNCHANGED <<disk, touched, manifest, files, dirty, records, memory, call,
                   lives, edits, history, fixed>>

\* The patch export threw.
PromoteFails ==
    /\ phase = "promote"
    /\ phase' = "idle"
    /\ UNCHANGED <<disk, touched, journal, manifest, files, process, call,
                   counters, history, fixed>>

\* storage.cleanup(): the hot buffer is emptied, and tmpfs removes its files.
EmptyStorage ==
    /\ memory' = Nothing
    /\ files' = IF tmpfs THEN Nothing ELSE files

\* The call returns; or cleanup() threw, and the storage stays as it is.
CleanUp ==
    /\ phase = "cleanup"
    /\ \/ EmptyStorage /\ outcome' = status
       \/ UNCHANGED <<memory, files, outcome>>
    /\ phase' = "settled"
    /\ UNCHANGED <<disk, touched, journal, manifest, status, dirty, records, call,
                   counters, blind, undone, outside, fixed>>

\* The process forgets the attempt, and what only its memory knew is lost: a
\* changed path that has no durable record could be backed up anew.
Forget ==
    /\ status' = None
    /\ dirty' = Nothing /\ records' = Nothing
    /\ todo' = Nothing /\ pending' = {}
    /\ phase' = "down"
    /\ blind' = blind \cup {p \in Paths : manifest[p] = None /\ disk[p] # original[p]}

\* dispose(), or a signal: emergencyCleanupSync.
Dispose ==
    /\ phase \in {"idle", "settled"}
    /\ IF status \in Live THEN WriteJournal("disposed", dirty) ELSE UNCHANGED <<journal, faults>>
    /\ outcome' = IF status \in Live THEN "disposed" ELSE outcome
    /\ EmptyStorage
    /\ Forget
    /\ UNCHANGED <<disk, touched, manifest, lives, edits, undone, outside, fixed>>
-----------------------------------------------------------------------------
(* Crash, and recovery. *)

\* The process is killed, or the machine restarts and tmpfs is empty.
Crash ==
    /\ phase # "down"
    /\ Forget
    /\ memory' = Nothing
    /\ files' = files \/ (tmpfs /\ files' = Nothing)
    /\ UNCHANGED <<disk, touched, journal, manifest, counters, undone, outside,
                   outcome, fixed>>

\* Somebody edits the workspace while no process holds the attempt.
OutsideEdit(p) ==
    /\ phase = "down"
    /\ edits < MaxEdits
    /\ edits' = edits + 1
    /\ \E d \in Data : disk' = [disk EXCEPT ![p] = d]
    /\ touched' = touched \cup {p}
    /\ blind' = IF manifest[p] = None THEN blind \cup {p} ELSE blind
    /\ outside' = outside \cup {p}
    /\ UNCHANGED <<journal, manifest, files, process, phase, call, lives, faults,
                   undone, outcome, fixed>>

\* Mutant: a missing backup file is not looked for.
HasDurableBackup_FileUnchecked(p) == manifest[p] \in {"missing", "file"}

HasDurableBackup(p) ==
    \/ manifest[p] = "missing"
    \/ manifest[p] = "file" /\ files[p] # None

\* getRehydrationStatus, and assertRehydratable.
CanRehydrate ==
    /\ journal.status \in Live
    /\ \A p \in Paths :
         journal.dirty[p] \in {"modified", "deleted"} => HasDurableBackup(p)

\* Mutant: the records of the manifest are not taken over.
Rehydrate_NoRecords ==
    /\ phase = "down"
    /\ lives < MaxLives
    /\ CanRehydrate
    /\ lives' = lives + 1
    /\ status' = "active"
    /\ dirty' = journal.dirty
    /\ phase' = "idle"
    /\ UNCHANGED <<disk, touched, journal, manifest, files, records, memory, call,
                   faults, edits, history, fixed>>

\* rehydrateAttempt: "rolling-back" becomes "active"; every record of the
\* manifest is taken over, the volatile ones too.
Rehydrate ==
    /\ phase = "down"
    /\ lives < MaxLives
    /\ CanRehydrate
    /\ lives' = lives + 1
    /\ status' = "active"
    /\ dirty' = journal.dirty
    /\ records' = manifest
    /\ phase' = "idle"
    /\ UNCHANGED <<disk, touched, journal, manifest, files, memory, call, faults,
                   edits, history, fixed>>
-----------------------------------------------------------------------------
Next ==
    \/ \E t \in Operations : BeginMutation(t)
    \/ \E p \in Paths : BackUpAndMark(p) \/ RestoreOne(p) \/ OutsideEdit(p)
    \/ BackupThrows \/ SaveManifest \/ SaveJournal \/ Apply \/ ApplyFails
    \/ Reconcile \/ StartRollback \/ ReconcileForRollback
    \/ RestoreThrows \/ FinishRollback
    \/ StartPromote \/ FinishPromote \/ PromoteFails
    \/ CleanUp \/ Dispose \/ Crash \/ Rehydrate

Spec == Init /\ [][Next]_vars
-----------------------------------------------------------------------------
Contents == Data \cup {Absent}

TypeOK ==
    /\ disk \in [Paths -> Contents] /\ original \in [Paths -> Contents]
    /\ touched \cup blind \cup undone \cup outside \subseteq Paths
    /\ journal \in [status : Live \cup Settled, dirty : [Paths -> Kinds \cup {None}]]
    /\ manifest \in [Paths -> Records \cup {None}]
    /\ files \in [Paths -> Data \cup {None}] /\ memory \in [Paths -> Data \cup {None}]
    /\ tmpfs \in BOOLEAN
    /\ status \in Live \cup Settled \cup {None}
    /\ dirty \in [Paths -> Kinds \cup {None}]
    /\ records \in [Paths -> Records \cup {None}]
    /\ phase \in {"idle", "backup", "manifest", "journal", "apply", "reconcile",
                  "restore", "promote", "cleanup", "settled", "down"}
    /\ todo \in [Paths -> Effects \cup {None}]
    /\ pending \subseteq Paths
    /\ lives \in Nat /\ faults \in Nat /\ edits \in Nat
    /\ outcome \in Settled \cup {None}

\* No record a process works with, whichever process made it, says of a path
\* something else than what the snapshot saw, unless the path had changed when
\* no record was kept: a crash between two writes cannot mix up the backups.
RecordsFaithful ==
    \A p \in Paths :
        /\ p \notin blind => Held(p) \in {None, original[p]}
        /\ p \notin blind /\ manifest[p] = "file" => files[p] \in {None, original[p]}

\* A rollback that succeeds restores every path whose changes were seen: in
\* the first process, and after any number of crashes, also of crashes in the
\* middle of a rollback, and of lost journal writes.
RollbackRestores ==
    [][status = "rolling-back" /\ status' = "disposed" =>
         \A p \in Paths \ blind : disk[p] = original[p]]_vars

\* The journal is written ahead: a path of a live attempt that a patched call
\* changed is in the durable journal and manifest, whenever the crash comes.
WriteAhead ==
    journal.status \in Live /\ faults = 0 =>
        \A p \in Paths \ (blind \cup undone \cup outside) :
            disk[p] # original[p] => journal.dirty[p] # None /\ manifest[p] # None

\* An attempt reported as one that can be rehydrated can be rolled back: every
\* listed path that has to be restored has its original content in a file.
RehydratableIsRestorable ==
    phase = "down" /\ faults = 0 /\ CanRehydrate =>
        \A p \in Paths \ (blind \cup undone \cup outside) :
            disk[p] # original[p] /\ original[p] # Absent =>
                manifest[p] = "file" /\ files[p] = original[p]

\* An attempt whose promote(), rollback() or dispose() returned is never
\* revived, so that no later process reverts what was promoted.
SettledNotRevived == outcome # None /\ faults = 0 => ~CanRehydrate

\* What the docs say of the hot buffer: backups held in memory only "block
\* rehydration after restart".
VolatileBlocksRehydration ==
    phase = "down" /\ CanRehydrate =>
        \A p \in Paths \ outside : disk[p] # original[p] => manifest[p] # "memory"
=============================================================================
