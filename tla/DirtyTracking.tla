--------------------------- MODULE DirtyTracking ---------------------------
(***************************************************************************)
(* What checkpoints know of the workspace files, and what a rollback does  *)
(* with it.  A file changes in four ways: through the patched fs functions *)
(* (VfsStart, then VfsFinish or VfsFail), by a child process nobody sees,  *)
(* or by a rollback.  A patched call is recorded, before it runs, by one   *)
(* checkpoint only: the live one created last.                             *)
(*                                                                         *)
(* Files are flat and regular.  A file is its data and its stamp, what the *)
(* stat ledger compares (type, size, mtime); every write gives the file a  *)
(* stamp of its own.  A chmod is handled as a modification, directories    *)
(* are in TreeRollback, symbolic links are left out.                       *)
(* That at most one rollback runs at a time is proved in BranchLifecycle.  *)
(***************************************************************************)
EXTENDS Integers, FiniteSets

CONSTANTS
    Paths, Checkpoints, Data,
    Writers,   \* patched fs calls that may be in flight together
    MaxClock,  \* bound on the changes a behaviour makes
    None,      \* nothing recorded
    Absent     \* the path does not exist

Kinds == {"created", "modified", "deleted"}
FileOps == {"write", "delete"}
Modes == {"rollback", "drop"}

\* What exists at a path, a stat as the ledger keeps it, an entry of a dirty
\* map, and a patched call.
Files == [data : Data, stamp : Nat]
Stamps == Nat \cup {Absent}
Entries == [kind : Kinds, before : Stamps, after : Stamps]
Calls == [path : Paths, op : FileOps]

ASSUME AbsentAssumption ==
    Absent # None /\ Absent \notin Data /\ Absent \notin Nat /\ Absent \notin Files
ASSUME NoneAssumption ==
    /\ None \notin Data \cup Checkpoints \cup Nat \cup Modes
    /\ None \notin Entries /\ None \notin Calls
ASSUME CheckpointsAssumption == IsFiniteSet(Checkpoints)
ASSUME MaxClockAssumption == MaxClock \in Nat

VARIABLES
    clock,      \* the last stamp given to a file
    disk,       \* the workspace: Absent or [data, stamp] for every path
    status,     \* StoredCheckpoint.status, "unborn" before snapshot()
    createdAt,  \* its place in the order of snapshots
    parent,     \* its parentId
    baseline,   \* baseline.statEntries: a stamp or Absent for every path
    dirty,      \* its dirty map: None or [kind, before, after]
    backup,     \* its storage's backupRecords: None, Absent ("missing") or data
    calls,      \* the patched fs call each writer has in flight
    sweep,      \* the rollback in progress reconciled ("rollback") or not ("drop")
    original,   \* history: the data of every path at the snapshot
    blind,      \* history: paths that changed while the checkpoint had no backup
    gap         \* history: paths changed, or with a call failed on them, since
                \* the rollback in progress began

records == <<createdAt, parent, baseline, original>>
vars == <<clock, disk, status, records, dirty, backup, calls, sweep, blind, gap>>

Live == {"active", "rolling-back"}

StampOf(p) == IF disk[p] = Absent THEN Absent ELSE disk[p].stamp
DataOf(p) == IF disk[p] = Absent THEN Absent ELSE disk[p].data

LiveCheckpoints == {c \in Checkpoints : status[c] \in Live}

\* Every change of a file gives it the next stamp.
NewStamp == clock + 1
Tick == clock' = NewStamp

Init ==
    /\ clock = 0
    /\ disk \in [Paths -> {Absent} \cup [data : Data, stamp : {0}]]
    /\ status = [c \in Checkpoints |-> "unborn"]
    /\ createdAt = [c \in Checkpoints |-> 0]
    /\ parent = [c \in Checkpoints |-> None]
    /\ baseline = [c \in Checkpoints |-> [p \in Paths |-> Absent]]
    /\ dirty = [c \in Checkpoints |-> [p \in Paths |-> None]]
    /\ backup = [c \in Checkpoints |-> [p \in Paths |-> None]]
    /\ calls = [w \in Writers |-> None]
    /\ sweep = None
    /\ original = [c \in Checkpoints |-> [p \in Paths |-> Absent]]
    /\ blind = [c \in Checkpoints |-> {}]
    /\ gap = {}
-----------------------------------------------------------------------------
(* History: a change of the paths S, seen by the checkpoints with a backup. *)

Gap(S) == IF sweep = None THEN {} ELSE gap \cup S

NoteChange(S) ==
    /\ blind' = [c \in Checkpoints |->
                   IF status[c] \in Live
                   THEN blind[c] \cup {p \in S : backup[c][p] = None}
                   ELSE blind[c]]
    /\ gap' = Gap(S)
-----------------------------------------------------------------------------
(* snapshot() and fork(): parentId is any live checkpoint, or none. *)

Snapshot(c, par) ==
    /\ status[c] = "unborn"
    /\ par = None \/ par \in LiveCheckpoints
    /\ status' = [status EXCEPT ![c] = "active"]
    /\ createdAt' = [createdAt EXCEPT ![c] =
                       1 + Cardinality({d \in Checkpoints : status[d] # "unborn"})]
    /\ parent' = [parent EXCEPT ![c] = par]
    /\ baseline' = [baseline EXCEPT ![c] = [p \in Paths |-> StampOf(p)]]
    /\ original' = [original EXCEPT ![c] = [p \in Paths |-> DataOf(p)]]
    /\ UNCHANGED <<clock, disk, dirty, backup, calls, sweep, blind, gap>>
-----------------------------------------------------------------------------
(* The fs interceptor. *)

\* getMostRecentActiveCheckpoint: the one checkpoint that records.
Receives(c) ==
    /\ c \in LiveCheckpoints
    /\ \A d \in LiveCheckpoints : createdAt[d] <= createdAt[c]

\* inferVfsDirtyKind, given the backup record.
VfsKind(c, p, fileOp, rec) ==
    CASE baseline[c][p] = Absent /\ rec = Absent -> "created"
      [] fileOp = "delete" /\ ~(baseline[c][p] = Absent /\ rec = Absent) -> "deleted"
      [] OTHER -> "modified"

\* Mutant: a second backup replaces the first.
BackupRecord_LastWins(c, p) == DataOf(p)

\* backupFile: the first record of a path stays.
BackupRecord(c, p) == IF backup[c][p] # None THEN backup[c][p] ELSE DataOf(p)

\* Mutant: the path is marked dirty, but not backed up.
VfsStart_NoBackup(w, p, fileOp) ==
    /\ calls[w] = None
    /\ calls' = [calls EXCEPT ![w] = [path |-> p, op |-> fileOp]]
    /\ \/ LiveCheckpoints = {} /\ UNCHANGED dirty
       \/ \E c \in Checkpoints :
            /\ Receives(c)
            /\ dirty' = [dirty EXCEPT ![c][p] =
                 [kind |-> VfsKind(c, p, fileOp, DataOf(p)),
                  before |-> baseline[c][p],
                  after |-> IF dirty[c][p] = None THEN Absent ELSE dirty[c][p].after]]
    /\ UNCHANGED <<clock, disk, status, records, backup, sweep, blind, gap>>

\* beforeMutation: the receiver backs the path up and marks it dirty.
VfsStart(w, p, fileOp) ==
    /\ calls[w] = None
    /\ calls' = [calls EXCEPT ![w] = [path |-> p, op |-> fileOp]]
    /\ \/ LiveCheckpoints = {} /\ UNCHANGED <<backup, dirty>>
       \/ \E c \in Checkpoints :
            /\ Receives(c)
            /\ backup' = [backup EXCEPT ![c][p] = BackupRecord(c, p)]
            /\ dirty' = [dirty EXCEPT ![c][p] =
                 [kind |-> VfsKind(c, p, fileOp, BackupRecord(c, p)),
                  before |-> baseline[c][p],
                  after |-> IF dirty[c][p] = None THEN Absent ELSE dirty[c][p].after]]
    /\ UNCHANGED <<clock, disk, status, records, sweep, blind, gap>>

\* The file changes: at once for a sync function, later for the others.  A
\* forced delete of an absent path succeeds and changes nothing.
VfsFinish(w) ==
    /\ clock < MaxClock
    /\ calls[w] # None
    /\ calls' = [calls EXCEPT ![w] = None]
    /\ LET p == calls[w].path
       IN  \/ /\ calls[w].op = "write"
              /\ \E d \in Data :
                   disk' = [disk EXCEPT ![p] = [data |-> d, stamp |-> NewStamp]]
              /\ Tick
              /\ NoteChange({p})
           \/ /\ calls[w].op = "delete" /\ disk[p] # Absent
              /\ disk' = [disk EXCEPT ![p] = Absent]
              /\ Tick
              /\ NoteChange({p})
           \/ /\ calls[w].op = "delete" /\ disk[p] = Absent
              /\ UNCHANGED <<disk, clock, blind, gap>>
    /\ UNCHANGED <<status, records, dirty, backup, sweep>>

\* mutationFailed: undoVfsMutations drops the entry of whoever receives by now.
VfsFail(w) ==
    /\ calls[w] # None
    /\ \/ LiveCheckpoints = {} /\ UNCHANGED dirty
       \/ \E c \in Checkpoints :
            Receives(c) /\ dirty' = [dirty EXCEPT ![c][calls[w].path] = None]
    /\ gap' = Gap({calls[w].path})
    /\ calls' = [calls EXCEPT ![w] = None]
    /\ UNCHANGED <<clock, disk, status, records, backup, sweep, blind>>

\* A child process, or native code.
ChildWrite(p) ==
    /\ clock < MaxClock
    /\ Tick
    /\ \E d \in Data : disk' = [disk EXCEPT ![p] = [data |-> d, stamp |-> NewStamp]]
    /\ NoteChange({p})
    /\ UNCHANGED <<status, records, dirty, backup, calls, sweep>>

ChildDelete(p) ==
    /\ clock < MaxClock
    /\ Tick
    /\ disk[p] # Absent
    /\ disk' = [disk EXCEPT ![p] = Absent]
    /\ NoteChange({p})
    /\ UNCHANGED <<status, records, dirty, backup, calls, sweep>>
-----------------------------------------------------------------------------
(* reconcile() and promote() *)

\* Mutant: a deleted path keeps no "after", not even an empty one.
DiffEntry_NoAfter(c, p) ==
    LET before == baseline[c][p]
        after == StampOf(p)
    IN  IF before = after THEN None
        ELSE [kind |-> CASE before = Absent -> "created"
                         [] after = Absent -> "deleted"
                         [] OTHER -> "modified",
              before |-> before, after |-> IF after = Absent THEN None ELSE after]

\* The entry ReconciliationEngine leaves for a path, from diffStateManifests:
\* a path at its baseline has none.
DiffEntry(c, p) ==
    LET before == baseline[c][p]
        after == StampOf(p)
    IN  IF before = after THEN None
        ELSE [kind |-> CASE before = Absent -> "created"
                         [] after = Absent -> "deleted"
                         [] OTHER -> "modified",
              before |-> before, after |-> after]

Reconciled(c) == [dirty EXCEPT ![c] = [p \in Paths |-> DiffEntry(c, p)]]

Reconcile(c) ==
    /\ status[c] \in Live
    /\ dirty' = Reconciled(c)
    /\ UNCHANGED <<clock, disk, status, records, backup, calls, sweep, blind, gap>>

\* The status changes and the storage is cleaned up; the files stay.
Promote(c) ==
    /\ status[c] = "active"
    /\ dirty' = Reconciled(c)
    /\ status' = [status EXCEPT ![c] = "promoted"]
    /\ backup' = [backup EXCEPT ![c] = [p \in Paths |-> None]]
    /\ UNCHANGED <<clock, disk, records, calls, sweep, blind, gap>>
-----------------------------------------------------------------------------
(* rollback() and dropBranch() *)

\* collectBranchMergeContenders: the live parent and the live siblings.
Contenders(c) ==
    IF parent[c] = None THEN {}
    ELSE {d \in LiveCheckpoints \ {c} : d = parent[c] \/ parent[d] = parent[c]}

\* isDirtyOutcomeCompatible: the same entry, with what its kind needs recorded.
Compatible(e, f) ==
    /\ e = f
    /\ IF e.kind = "deleted" THEN e.before # Absent ELSE e.after # Absent

\* BranchMergeEngine.plan finds nothing to reject.
NoConflict(c) ==
    \A p \in Paths, d \in Contenders(c) :
        dirty[c][p] # None /\ dirty[d][p] # None => Compatible(dirty[c][p], dirty[d][p])

\* The plan is made from what is recorded before the reconcile.
StartRollback(c, mode) ==
    /\ clock < MaxClock
    /\ sweep = None
    /\ status[c] = "active"
    /\ NoConflict(c)
    /\ status' = [status EXCEPT ![c] = "rolling-back"]
    /\ dirty' = IF mode = "rollback" THEN Reconciled(c) ELSE dirty
    /\ sweep' = mode
    /\ gap' = {}
    /\ UNCHANGED <<clock, disk, records, backup, calls, blind>>

OfKind(c, kind) == {p \in Paths : dirty[c][p] # None /\ dirty[c][p].kind = kind}
ToRestore(c) == OfKind(c, "modified") \cup OfKind(c, "deleted")
Unbacked(c) == {p \in ToRestore(c) : backup[c][p] = None}

\* restoreDirtyEntries, as far as it has come: D deleted, R restored.
Restored(c, D, R) ==
    [p \in Paths |->
        CASE p \in D -> Absent
          [] p \in R /\ backup[c][p] = Absent -> Absent
          [] p \in R /\ backup[c][p] # Absent ->
               [data |-> backup[c][p], stamp |-> NewStamp]
          [] OTHER -> disk[p]]

Unmark(c, S) == [dirty EXCEPT ![c] = [p \in Paths |-> IF p \in S THEN None ELSE dirty[c][p]]]

\* NoteChange for the other checkpoints; a rollback does not blind its own.
NoteRestore(c, S) ==
    /\ blind' = [d \in Checkpoints |->
                   IF d # c /\ status[d] \in Live
                   THEN blind[d] \cup {p \in S : backup[d][p] = None}
                   ELSE blind[d]]
    /\ UNCHANGED gap

\* Mutant: an entry without a backup is passed over.
FinishRollback_SkipsUnbacked(c) ==
    /\ Tick
    /\ status[c] = "rolling-back"
    /\ disk' = Restored(c, OfKind(c, "created"), ToRestore(c) \ Unbacked(c))
    /\ dirty' = Unmark(c, Paths)
    /\ status' = [status EXCEPT ![c] = "disposed"]
    /\ backup' = [backup EXCEPT ![c] = [p \in Paths |-> None]]
    /\ sweep' = None
    /\ NoteRestore(c, OfKind(c, "created") \cup ToRestore(c))
    /\ UNCHANGED <<records, calls>>

\* Every entry has its backup: restored, disposed, storage cleaned up.
FinishRollback(c) ==
    /\ Tick
    /\ status[c] = "rolling-back"
    /\ Unbacked(c) = {}
    /\ disk' = Restored(c, OfKind(c, "created"), ToRestore(c))
    /\ dirty' = Unmark(c, Paths)
    /\ status' = [status EXCEPT ![c] = "disposed"]
    /\ backup' = [backup EXCEPT ![c] = [p \in Paths |-> None]]
    /\ sweep' = None
    /\ NoteRestore(c, OfKind(c, "created") \cup ToRestore(c))
    /\ UNCHANGED <<records, calls>>

\* A restore threw after D and R: for a missing backup, or for a file system
\* error.  Created paths come first, then modified ones, then deleted ones.
FailRollback(c, D, R) ==
    /\ Tick
    /\ status[c] = "rolling-back"
    /\ R # {} => D = OfKind(c, "created")
    /\ R \cap OfKind(c, "deleted") # {} => OfKind(c, "modified") \subseteq R
    /\ D \cup R # OfKind(c, "created") \cup ToRestore(c)
    /\ disk' = Restored(c, D, R)
    /\ dirty' = Unmark(c, D \cup R)
    /\ status' = [status EXCEPT ![c] = "active"]
    /\ sweep' = None
    /\ NoteRestore(c, D \cup R)
    /\ UNCHANGED <<records, backup, calls>>
-----------------------------------------------------------------------------
Next ==
    \/ \E c \in Checkpoints, par \in Checkpoints \cup {None} : Snapshot(c, par)
    \/ \E w \in Writers, p \in Paths, o \in FileOps : VfsStart(w, p, o)
    \/ \E w \in Writers : VfsFinish(w) \/ VfsFail(w)
    \/ \E p \in Paths : ChildWrite(p) \/ ChildDelete(p)
    \/ \E c \in Checkpoints : Reconcile(c) \/ Promote(c) \/ FinishRollback(c)
    \/ \E c \in Checkpoints, m \in Modes : StartRollback(c, m)
    \/ \E c \in Checkpoints :
         \E D \in SUBSET OfKind(c, "created"), R \in SUBSET (ToRestore(c) \ Unbacked(c)) :
            FailRollback(c, D, R)

Spec == Init /\ [][Next]_vars
-----------------------------------------------------------------------------
TypeOK ==
    /\ clock \in Nat
    /\ disk \in [Paths -> Files \cup {Absent}]
    /\ status \in [Checkpoints -> {"unborn", "active", "rolling-back", "promoted", "disposed"}]
    /\ createdAt \in [Checkpoints -> Nat]
    /\ parent \in [Checkpoints -> Checkpoints \cup {None}]
    /\ baseline \in [Checkpoints -> [Paths -> Stamps]]
    /\ dirty \in [Checkpoints -> [Paths -> Entries \cup {None}]]
    /\ backup \in [Checkpoints -> [Paths -> Data \cup {Absent, None}]]
    /\ calls \in [Writers -> Calls \cup {None}]
    /\ sweep \in Modes \cup {None}
    /\ original \in [Checkpoints -> [Paths -> Data \cup {Absent}]]
    /\ blind \in [Checkpoints -> SUBSET Paths]
    /\ gap \subseteq Paths

\* A backup holds the snapshot's content, unless the path had already changed
\* behind the checkpoint's back when the backup was made.
BackupsFaithful ==
    \A c \in Checkpoints, p \in Paths :
        backup[c][p] # None /\ p \notin blind[c] => backup[c][p] = original[c][p]

\* An integrity error is never spurious: an entry without a backup is a path
\* that changed while the checkpoint was not receiving.
UnbackedIsBlind == \A c \in LiveCheckpoints : Unbacked(c) \subseteq blind[c]

\* A rollback that succeeds puts back every path whose changes it could see,
\* and every path it has no backup of: without one it either need not act,
\* deletes a created file, or fails.  A drop does so for its dirty paths only.
RollbackRestores ==
    [][\A c \in Checkpoints, p \in Paths :
         /\ status[c] = "rolling-back" /\ status'[c] = "disposed"
         /\ p \notin gap
         /\ p \notin blind[c] \/ (backup[c][p] = None /\ sweep = "rollback")
         /\ sweep = "rollback" \/ dirty[c][p] # None
         => DataOf(p)' = original[c][p]]_vars

\* What the docs say of a rollback that lacks a backup: the checkpoint remains
\* active and the workspace "is not partially rolled back".
NoPartialRollback ==
    [][\A c \in Checkpoints :
         status[c] = "rolling-back" /\ status'[c] = "active" /\ Unbacked(c) # {}
         => \A p \in Paths : DataOf(p)' = DataOf(p)]_vars

\* What the docs say of rollback(): it "rejects overlapping sibling-branch
\* conflicts".  So it changes no path that a live sibling has recorded, unless
\* both recorded the same outcome.
SiblingWorkKept ==
    [][\A c, d \in Checkpoints, p \in Paths :
         /\ status[c] = "rolling-back" /\ status'[c] = "disposed"
         /\ d \in Contenders(c) /\ d # parent[c]
         /\ p \notin gap /\ dirty[d][p] # None
         /\ dirty[c][p] = None \/ ~Compatible(dirty[c][p], dirty[d][p])
         => DataOf(p)' = DataOf(p)]_vars
=============================================================================
