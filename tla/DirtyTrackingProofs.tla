------------------------ MODULE DirtyTrackingProofs ------------------------
(***************************************************************************)
(* Proofs about DirtyTracking, for any sets of paths, contents,            *)
(* checkpoints and calls in flight.                                        *)
(*                                                                         *)
(* The inductive invariant Inv rests on stamps: no two writes have the     *)
(* same, so that a file whose stat is the baseline's has not changed       *)
(* (Ledger).  From it follows what a live checkpoint without a backup may  *)
(* assume of a path (Unseen), and what a rollback that has reconciled      *)
(* knows of the paths it does not list (Swept).                            *)
(***************************************************************************)
EXTENDS DirtyTracking, FiniteSetTheorems, TLAPS

\* Before its snapshot a checkpoint has recorded nothing.
Unborn ==
    \A c \in Checkpoints : status[c] = "unborn" =>
        /\ blind[c] = {}
        /\ \A p \in Paths : dirty[c][p] = None /\ backup[c][p] = None

\* The stat ledger tells whether a path has changed since the snapshot.
Ledger ==
    /\ \A p \in Paths : disk[p] # Absent => disk[p].stamp <= clock
    /\ \A c \in Checkpoints, p \in Paths :
          /\ baseline[c][p] # Absent => baseline[c][p] <= clock
          /\ baseline[c][p] = Absent <=> original[c][p] = Absent
          /\ StampOf(p) = baseline[c][p] => DataOf(p) = original[c][p]

\* A path is listed as created only if the snapshot did not have it.
CreatedWasAbsent ==
    \A c \in Checkpoints, p \in Paths :
        dirty[c][p] # None /\ dirty[c][p].kind = "created" => baseline[c][p] = Absent

\* A path without a backup, whose changes the checkpoint saw, has not changed.
Unseen ==
    \A c \in LiveCheckpoints : \A p \in Paths \ blind[c] :
        backup[c][p] = None => StampOf(p) = baseline[c][p]

\* There is one rollback at a time, and what it does not list, and nobody
\* touched since it reconciled, is at its original.
Swept ==
    /\ \A c \in Checkpoints : status[c] = "rolling-back" => sweep # None
    /\ \A c, d \in Checkpoints :
          status[c] = "rolling-back" /\ status[d] = "rolling-back" => c = d
    /\ sweep = "rollback" =>
          \A c \in Checkpoints : \A p \in Paths \ gap :
              status[c] = "rolling-back" /\ dirty[c][p] = None =>
                  StampOf(p) = baseline[c][p]

Inv ==
    /\ TypeOK
    /\ Unborn
    /\ Ledger
    /\ CreatedWasAbsent
    /\ Unseen
    /\ Swept
    /\ BackupsFaithful
    /\ UnbackedIsBlind
-----------------------------------------------------------------------------
(* What the steps do, path by path. *)

\* The entries of a reconciled checkpoint are entries, and there is none for a
\* path whose stat is the baseline's.
LEMMA DiffEntryShape ==
    ASSUME TypeOK, NEW c \in Checkpoints, NEW p \in Paths
    PROVE  /\ DiffEntry(c, p) \in Entries \cup {None}
           /\ DiffEntry(c, p) = None <=> baseline[c][p] = StampOf(p)
           /\ DiffEntry(c, p) # None =>
                 DiffEntry(c, p).kind = "created" <=> baseline[c][p] = Absent
BY AbsentAssumption, NoneAssumption
   DEF DiffEntry, TypeOK, Entries, Kinds, Stamps, Files, StampOf

\* A path that a patched call has just been recorded for: there is a backup and
\* an entry, which is not of kind "created" if the snapshot had the path.
Marked(c, p) ==
    /\ c \in LiveCheckpoints
    /\ backup'[c][p] = BackupRecord(c, p)
    /\ backup'[c][p] # None
    /\ dirty'[c][p] \in Entries
    /\ dirty'[c][p].kind = "created" => baseline[c][p] = Absent

CallStarts ==
    /\ calls' \in [Writers -> Calls \cup {None}]
    /\ dirty' \in [Checkpoints -> [Paths -> Entries \cup {None}]]
    /\ backup' \in [Checkpoints -> [Paths -> Data \cup {Absent, None}]]
    /\ \A c \in Checkpoints, q \in Paths :
          \/ Marked(c, q)
          \/ backup'[c][q] = backup[c][q] /\ dirty'[c][q] = dirty[c][q]
    /\ UNCHANGED <<clock, disk, status, records, sweep, blind, gap>>

LEMMA StartEffect ==
    ASSUME TypeOK, NEW w \in Writers, NEW p \in Paths, NEW o \in FileOps, VfsStart(w, p, o)
    PROVE  CallStarts
<1> USE AbsentAssumption, NoneAssumption DEF VfsStart, TypeOK, Calls
<1>1. CASE LiveCheckpoints = {} /\ UNCHANGED <<backup, dirty>>
  BY <1>1 DEF CallStarts
<1>2. ASSUME NEW c \in Checkpoints, Receives(c),
             backup' = [backup EXCEPT ![c][p] = BackupRecord(c, p)],
             dirty' = [dirty EXCEPT ![c][p] =
                 [kind |-> VfsKind(c, p, o, BackupRecord(c, p)),
                  before |-> baseline[c][p],
                  after |-> IF dirty[c][p] = None THEN Absent ELSE dirty[c][p].after]]
      PROVE  /\ dirty' \in [Checkpoints -> [Paths -> Entries \cup {None}]]
             /\ backup' \in [Checkpoints -> [Paths -> Data \cup {Absent, None}]]
             /\ \A d \in Checkpoints, q \in Paths :
                   \/ Marked(d, q)
                   \/ backup'[d][q] = backup[d][q] /\ dirty'[d][q] = dirty[d][q]
  <2> DEFINE rec == BackupRecord(c, p)
             kind == VfsKind(c, p, o, rec)
             after == IF dirty[c][p] = None THEN Absent ELSE dirty[c][p].after
             entry == [kind |-> kind, before |-> baseline[c][p], after |-> after]
  <2>1. rec \in Data \cup {Absent} /\ rec # None
    BY DEF BackupRecord, DataOf, Files
  <2>2. kind \in Kinds /\ (kind = "created" => baseline[c][p] = Absent)
    BY DEF VfsKind, Kinds
  <2>3. after \in Stamps /\ baseline[c][p] \in Stamps
    BY DEF Entries, Stamps
  <2>4. entry \in Entries /\ entry.kind = kind
    BY <2>2, <2>3 DEF Entries
  <2>5. /\ backup'[c][p] = rec /\ dirty'[c][p] = entry
        /\ \A d \in Checkpoints, q \in Paths : d # c \/ q # p =>
              backup'[d][q] = backup[d][q] /\ dirty'[d][q] = dirty[d][q]
    BY <1>2
  <2>6. Marked(c, p)
    BY <1>2, <2>1, <2>2, <2>4, <2>5 DEF Marked, Receives
  <2>7. /\ dirty' = [dirty EXCEPT ![c] = [dirty[c] EXCEPT ![p] = entry]]
        /\ backup' = [backup EXCEPT ![c] = [backup[c] EXCEPT ![p] = rec]]
    BY <1>2
  <2> HIDE DEF entry, rec, kind, after
  <2> QED
    BY <2>1, <2>4, <2>5, <2>6, <2>7
<1>3. calls' \in [Writers -> Calls \cup {None}]
  OBVIOUS
<1> QED
  BY <1>1, <1>2, <1>3 DEF CallStarts

\* The file p is written or deleted, by a call that ends or by a child process.
FileChanges(p) ==
    /\ calls' \in [Writers -> Calls \cup {None}]
    /\ clock' = clock + 1
    /\ disk' \in [Paths -> Files \cup {Absent}]
    /\ disk'[p] # Absent => disk'[p].stamp = clock + 1
    /\ \A q \in Paths \ {p} : disk'[q] = disk[q]
    /\ blind' \in [Checkpoints -> SUBSET Paths]
    /\ \A c \in Checkpoints : blind[c] \subseteq blind'[c]
    /\ \A c \in LiveCheckpoints : backup[c][p] = None => p \in blind'[c]
    /\ \A c \in Checkpoints : c \notin LiveCheckpoints => blind'[c] = blind[c]
    /\ gap' \subseteq Paths
    /\ sweep # None => gap \cup {p} \subseteq gap'
    /\ UNCHANGED <<status, records, dirty, backup, sweep>>

\* A forced delete of an absent path ends.
CallEnds ==
    /\ calls' \in [Writers -> Calls \cup {None}]
    /\ UNCHANGED <<clock, disk, status, records, dirty, backup, sweep, blind, gap>>

LEMMA NoteEffect ==
    ASSUME TypeOK, NEW p \in Paths, NoteChange({p})
    PROVE  /\ blind' \in [Checkpoints -> SUBSET Paths]
           /\ \A c \in Checkpoints : blind[c] \subseteq blind'[c]
           /\ \A c \in LiveCheckpoints : backup[c][p] = None => p \in blind'[c]
           /\ \A c \in Checkpoints : c \notin LiveCheckpoints => blind'[c] = blind[c]
           /\ gap' \subseteq Paths
           /\ sweep # None => gap \cup {p} \subseteq gap'
BY DEF NoteChange, Gap, TypeOK, LiveCheckpoints, Live

LEMMA FinishEffect ==
    ASSUME TypeOK, NEW w \in Writers, VfsFinish(w)
    PROVE  CallEnds \/ \E p \in Paths : FileChanges(p)
<1> DEFINE p == calls[w].path
<1>1. p \in Paths
  BY DEF TypeOK, VfsFinish, Calls
<1>2. calls' \in [Writers -> Calls \cup {None}]
  BY DEF TypeOK, VfsFinish
<1>3. ASSUME NEW f \in Files \cup {Absent}, disk' = [disk EXCEPT ![p] = f],
             f # Absent => f.stamp = clock + 1, NoteChange({p}), clock' = clock + 1,
             UNCHANGED <<status, records, dirty, backup, sweep>>
      PROVE  FileChanges(p)
  <2>1. /\ disk' \in [Paths -> Files \cup {Absent}]
        /\ disk'[p] # Absent => disk'[p].stamp = clock + 1
        /\ \A q \in Paths \ {p} : disk'[q] = disk[q]
    BY <1>1, <1>3 DEF TypeOK
  <2> HIDE DEF p
  <2> QED
    BY <1>1, <1>2, <1>3, <2>1, NoteEffect DEF FileChanges
<1>4. CASE UNCHANGED <<disk, clock, blind, gap>>
  BY <1>2, <1>4 DEF VfsFinish, CallEnds
<1>5. CASE \E d \in Data : /\ disk' = [disk EXCEPT ![p] = [data |-> d, stamp |-> NewStamp]]
                           /\ Tick /\ NoteChange({p})
  <2>1. PICK d \in Data : disk' = [disk EXCEPT ![p] = [data |-> d, stamp |-> NewStamp]]
    BY <1>5
  <2>2. [data |-> d, stamp |-> NewStamp] \in Files
    BY DEF Files, NewStamp, TypeOK
  <2> QED
    BY <1>1, <1>3, <1>5, <2>1, <2>2 DEF VfsFinish, Tick, NewStamp
<1>6. CASE disk' = [disk EXCEPT ![p] = Absent] /\ Tick /\ NoteChange({p})
  BY <1>1, <1>3, <1>6 DEF VfsFinish, Tick, NewStamp
<1> QED
  BY <1>4, <1>5, <1>6 DEF VfsFinish

LEMMA ChildEffect ==
    ASSUME TypeOK, NEW p \in Paths, ChildWrite(p) \/ ChildDelete(p)
    PROVE  FileChanges(p)
<1>1. PICK f \in Files \cup {Absent} :
        disk' = [disk EXCEPT ![p] = f] /\ (f # Absent => f.stamp = clock + 1)
  BY DEF ChildWrite, ChildDelete, Tick, NewStamp, Files, TypeOK
<1>2. /\ disk' \in [Paths -> Files \cup {Absent}]
      /\ disk'[p] # Absent => disk'[p].stamp = clock + 1
      /\ \A q \in Paths \ {p} : disk'[q] = disk[q]
  BY <1>1 DEF TypeOK
<1>3. /\ UNCHANGED <<status, records, dirty, backup, sweep>> /\ NoteChange({p})
      /\ clock' = clock + 1
      /\ calls' \in [Writers -> Calls \cup {None}]
  BY DEF ChildWrite, ChildDelete, Tick, NewStamp, TypeOK
<1> QED
  BY <1>2, <1>3, NoteEffect DEF FileChanges

\* A call on p fails: some checkpoint forgets p.
CallFails(p) ==
    /\ calls' \in [Writers -> Calls \cup {None}]
    /\ dirty' \in [Checkpoints -> [Paths -> Entries \cup {None}]]
    /\ \A c \in Checkpoints, q \in Paths :
          dirty'[c][q] = dirty[c][q] \/ (dirty'[c][q] = None /\ q = p)
    /\ gap' \subseteq Paths
    /\ sweep # None => gap \cup {p} \subseteq gap'
    /\ UNCHANGED <<clock, disk, status, records, backup, sweep, blind>>

LEMMA FailEffect ==
    ASSUME TypeOK, NEW w \in Writers, VfsFail(w)
    PROVE  calls[w].path \in Paths /\ CallFails(calls[w].path)
<1> DEFINE p == calls[w].path
<1>1. p \in Paths
  BY DEF TypeOK, VfsFail, Calls
<1>2. CASE UNCHANGED dirty
  BY <1>1, <1>2 DEF TypeOK, VfsFail, CallFails, Gap
<1>3. ASSUME NEW c \in Checkpoints, dirty' = [dirty EXCEPT ![c][p] = None]
      PROVE  CallFails(p)
  <2>1. dirty' = [dirty EXCEPT ![c] = [dirty[c] EXCEPT ![p] = None]]
    BY <1>3
  <2>2. /\ dirty' \in [Checkpoints -> [Paths -> Entries \cup {None}]]
        /\ \A d \in Checkpoints, q \in Paths :
             dirty'[d][q] = dirty[d][q] \/ (dirty'[d][q] = None /\ q = p)
    BY <1>1, <2>1 DEF TypeOK
  <2> QED
    BY <1>1, <2>2 DEF TypeOK, VfsFail, CallFails, Gap
<1> QED
  BY <1>1, <1>2, <1>3 DEF VfsFail

\* What a restore makes of the workspace.
LEMMA RestoredType ==
    ASSUME TypeOK, NEW c \in Checkpoints, NEW D \in SUBSET OfKind(c, "created"),
           NEW R \in SUBSET (ToRestore(c) \ Unbacked(c))
    PROVE  Restored(c, D, R) \in [Paths -> Files \cup {Absent}]
<1>1. ASSUME NEW p \in Paths
      PROVE  Restored(c, D, R)[p] \in Files \cup {Absent}
  <2> USE DEF OfKind, ToRestore
  <2>1. CASE p \in D
    BY <2>1 DEF Restored
  <2>2. CASE p \notin D /\ p \in R
    <3>1. backup[c][p] \in Data \cup {Absent}
      BY <2>2 DEF TypeOK, Unbacked
    <3>2. clock + 1 \in Nat
      BY DEF TypeOK
    <3> QED
      BY <2>2, <3>1, <3>2 DEF Restored, NewStamp, Files
  <2>3. CASE p \notin D /\ p \notin R
    BY <2>3 DEF Restored, TypeOK
  <2> QED
    BY <2>1, <2>2, <2>3
<1>2. Restored(c, D, R) = [p \in Paths |-> Restored(c, D, R)[p]]
  BY DEF Restored
<1> QED
  BY <1>1, <1>2

\* The steps, with the effect of a call or a child process in place of its action.
LEMMA Steps ==
    ASSUME TypeOK, [Next]_vars
    PROVE  \/ \E c \in Checkpoints, par \in Checkpoints \cup {None} : Snapshot(c, par)
           \/ CallStarts
           \/ CallEnds
           \/ \E p \in Paths : FileChanges(p) \/ CallFails(p)
           \/ \E c \in Checkpoints : Reconcile(c) \/ Promote(c) \/ FinishRollback(c)
           \/ \E c \in Checkpoints, m \in Modes : StartRollback(c, m)
           \/ \E c \in Checkpoints :
                \E D \in SUBSET OfKind(c, "created"),
                   R \in SUBSET (ToRestore(c) \ Unbacked(c)) : FailRollback(c, D, R)
           \/ UNCHANGED vars
BY StartEffect, FinishEffect, FailEffect, ChildEffect DEF Next
-----------------------------------------------------------------------------
(* Each part of the invariant is kept by every step. *)


\* Every variable keeps its type.
LEMMA TypeStep ==
    ASSUME TypeOK, [Next]_vars
    PROVE  TypeOK'
<1> USE DEF TypeOK, Files, Stamps, Entries, Kinds, FileOps, Modes, Calls, Live,
   LiveCheckpoints, StampOf, DataOf, records
<1>1. ASSUME NEW c \in Checkpoints, NEW par \in Checkpoints \cup {None}, Snapshot(c, par)
      PROVE  TypeOK'
  <2> DEFINE born == {d \in Checkpoints : status[d] # "unborn"}
  <2>1. Cardinality(born) \in Nat
    BY CheckpointsAssumption, FS_Subset, FS_CardinalityType
  <2> HIDE DEF born
  <2>2. createdAt' = [createdAt EXCEPT ![c] = 1 + Cardinality(born)]
    BY <1>1 DEF Snapshot, born
  <2> QED
    BY <1>1, <2>1, <2>2, AbsentAssumption, NoneAssumption DEF Snapshot
<1>2. ASSUME CallStarts
      PROVE  TypeOK'
  BY <1>2, AbsentAssumption, NoneAssumption DEF CallStarts, Marked, BackupRecord
<1>3. ASSUME CallEnds
      PROVE  TypeOK'
  BY <1>3, AbsentAssumption, NoneAssumption DEF CallEnds
<1>4. ASSUME NEW p \in Paths, FileChanges(p)
      PROVE  TypeOK'
  BY <1>4, AbsentAssumption, NoneAssumption DEF FileChanges
<1>5. ASSUME NEW p \in Paths, CallFails(p)
      PROVE  TypeOK'
  BY <1>5, AbsentAssumption, NoneAssumption DEF CallFails
<1>6. ASSUME NEW c \in Checkpoints, Reconcile(c)
      PROVE  TypeOK'
  BY <1>6, AbsentAssumption, NoneAssumption, DiffEntryShape DEF Reconcile, Reconciled
<1>7. ASSUME NEW c \in Checkpoints, Promote(c)
      PROVE  TypeOK'
  BY <1>7, AbsentAssumption, NoneAssumption, DiffEntryShape DEF Promote, Reconciled
<1>8. ASSUME NEW c \in Checkpoints, NEW m \in Modes, StartRollback(c, m)
      PROVE  TypeOK'
  BY <1>8, AbsentAssumption, NoneAssumption, DiffEntryShape DEF StartRollback,
     Reconciled
<1>9. ASSUME NEW c \in Checkpoints, FinishRollback(c)
      PROVE  TypeOK'
  <2> DEFINE D == OfKind(c, "created")
             R == ToRestore(c)
  <2>1. D \subseteq Paths /\ R \subseteq Paths /\ R \in SUBSET (ToRestore(c) \ Unbacked(c))
    BY <1>9 DEF FinishRollback, OfKind, ToRestore
  <2>2. Restored(c, D, R) \in [Paths -> Files \cup {Absent}]
    BY <2>1, RestoredType
  <2>3. disk' = Restored(c, D, R) /\ blind' \in [Checkpoints -> SUBSET Paths]
    BY <1>9, <2>1 DEF FinishRollback, NoteRestore
  <2> HIDE DEF D, R
  <2> QED
    BY <1>9, <2>2, <2>3, NoneAssumption DEF FinishRollback, Unmark, NoteRestore, Tick, NewStamp
<1>10. ASSUME NEW c \in Checkpoints, NEW D \in SUBSET OfKind(c, "created"),
             NEW R \in SUBSET (ToRestore(c) \ Unbacked(c)), FailRollback(c, D, R)
       PROVE  TypeOK'
  <2>1. Restored(c, D, R) \in [Paths -> Files \cup {Absent}]
    BY RestoredType DEF OfKind
  <2>2. D \cup R \subseteq Paths
    BY DEF OfKind, ToRestore
  <2> QED
    BY <1>10, <2>1, <2>2, NoneAssumption DEF FailRollback, Unmark, NoteRestore, Tick, NewStamp
<1>11. CASE UNCHANGED vars
  BY <1>11 DEF vars
<1> HIDE DEF TypeOK, Files, Stamps, Entries, Kinds, FileOps, Modes, Calls, Live,
   LiveCheckpoints, StampOf, DataOf, records
<1> QED
  BY <1>1, <1>2, <1>3, <1>4, <1>5, <1>6, <1>7, <1>8, <1>9, <1>10, <1>11, Steps

\* Before its snapshot a checkpoint takes part in nothing.
LEMMA UnbornStep ==
    ASSUME TypeOK, Unborn, [Next]_vars
    PROVE  Unborn'
<1> USE DEF TypeOK, Files, Stamps, Entries, Kinds, FileOps, Modes, Calls, Live,
   LiveCheckpoints, StampOf, DataOf, records, Unborn
<1>1. ASSUME NEW c \in Checkpoints, NEW par \in Checkpoints \cup {None}, Snapshot(c, par)
      PROVE  Unborn'
  BY <1>1, AbsentAssumption, NoneAssumption DEF Snapshot
<1>2. ASSUME CallStarts
      PROVE  Unborn'
  <2> SUFFICES ASSUME NEW c \in Checkpoints, status'[c] = "unborn"
               PROVE  /\ blind'[c] = {}
                      /\ \A p \in Paths : dirty'[c][p] = None /\ backup'[c][p] = None
    BY DEF Unborn
  <2>1. \A p \in Paths : ~Marked(c, p)
    BY <1>2 DEF CallStarts, Marked
  <2> QED
    BY <1>2, <2>1 DEF CallStarts
<1>3. ASSUME CallEnds
      PROVE  Unborn'
  BY <1>3, AbsentAssumption, NoneAssumption DEF CallEnds
<1>4. ASSUME NEW p \in Paths, FileChanges(p)
      PROVE  Unborn'
  <2>1. /\ UNCHANGED <<status, records, dirty, backup>>
        /\ \A c \in Checkpoints : c \notin LiveCheckpoints => blind'[c] = blind[c]
    BY <1>4 DEF FileChanges
  <2> QED
    BY <2>1 DEF Unborn
<1>5. ASSUME NEW p \in Paths, CallFails(p)
      PROVE  Unborn'
  BY <1>5, AbsentAssumption, NoneAssumption DEF CallFails
<1>6. ASSUME NEW c \in Checkpoints, Reconcile(c)
      PROVE  Unborn'
  BY <1>6, AbsentAssumption, NoneAssumption DEF Reconcile, Reconciled
<1>7. ASSUME NEW c \in Checkpoints, Promote(c)
      PROVE  Unborn'
  BY <1>7, AbsentAssumption, NoneAssumption DEF Promote, Reconciled
<1>8. ASSUME NEW c \in Checkpoints, NEW m \in Modes, StartRollback(c, m)
      PROVE  Unborn'
  BY <1>8, AbsentAssumption, NoneAssumption DEF StartRollback, Reconciled
<1>9. ASSUME NEW c \in Checkpoints, FinishRollback(c)
      PROVE  Unborn'
  BY <1>9, AbsentAssumption, NoneAssumption DEF FinishRollback, Restored, Unmark,
     NoteRestore, Tick, NewStamp
<1>10. ASSUME NEW c \in Checkpoints, NEW D \in SUBSET OfKind(c, "created"),
             NEW R \in SUBSET (ToRestore(c) \ Unbacked(c)), FailRollback(c, D, R)
       PROVE  Unborn'
  BY <1>10, AbsentAssumption, NoneAssumption DEF FailRollback, Restored, Unmark,
     NoteRestore, Tick, NewStamp
<1>11. CASE UNCHANGED vars
  BY <1>11 DEF vars
<1> HIDE DEF TypeOK, Files, Stamps, Entries, Kinds, FileOps, Modes, Calls, Live,
   LiveCheckpoints, StampOf, DataOf, records, Unborn
<1> QED
  BY <1>1, <1>2, <1>3, <1>4, <1>5, <1>6, <1>7, <1>8, <1>9, <1>10, <1>11, Steps

\* Every change gives the file a stamp that no baseline has.
LEMMA LedgerStep ==
    ASSUME TypeOK, Ledger, [Next]_vars
    PROVE  Ledger'
<1> USE DEF TypeOK, Files, Stamps, Entries, Kinds, FileOps, Modes, Calls, Live,
   LiveCheckpoints, StampOf, DataOf, records, Ledger
<1>1. ASSUME NEW c \in Checkpoints, NEW par \in Checkpoints \cup {None}, Snapshot(c, par)
      PROVE  Ledger'
  BY <1>1, AbsentAssumption, NoneAssumption DEF Snapshot
<1>2. ASSUME CallStarts
      PROVE  Ledger'
  BY <1>2, AbsentAssumption, NoneAssumption DEF CallStarts, Marked, BackupRecord
<1>3. ASSUME CallEnds
      PROVE  Ledger'
  BY <1>3, AbsentAssumption, NoneAssumption DEF CallEnds
<1>4. ASSUME NEW p \in Paths, FileChanges(p)
      PROVE  Ledger'
  <2>1. \A q \in Paths : disk'[q] # Absent => disk'[q].stamp <= clock'
    <3> SUFFICES ASSUME NEW q \in Paths, disk'[q] # Absent
                 PROVE  disk'[q].stamp <= clock + 1
      BY <1>4 DEF FileChanges
    <3>1. CASE q = p
      BY <1>4, <3>1 DEF FileChanges
    <3>2. CASE q # p
      BY <1>4, <3>2 DEF FileChanges
    <3> QED
      BY <3>1, <3>2
  <2>2. ASSUME NEW c \in Checkpoints, NEW q \in Paths
        PROVE  /\ baseline'[c][q] # Absent => baseline'[c][q] <= clock'
               /\ baseline'[c][q] = Absent <=> original'[c][q] = Absent
               /\ StampOf(q)' = baseline'[c][q] => DataOf(q)' = original'[c][q]
    <3>1. baseline[c][q] \in Nat \cup {Absent} /\ clock \in Nat
      OBVIOUS
    <3>2. baseline' = baseline /\ original' = original /\ clock' = clock + 1
      BY <1>4 DEF FileChanges
    <3>3. CASE q # p
      <4>1. disk'[q] = disk[q]
        BY <1>4, <3>3 DEF FileChanges
      <4>2. /\ baseline[c][q] # Absent => baseline[c][q] <= clock
            /\ baseline[c][q] = Absent <=> original[c][q] = Absent
            /\ StampOf(q) = baseline[c][q] => DataOf(q) = original[c][q]
        OBVIOUS
      <4>3. baseline[c][q] # Absent => baseline[c][q] <= clock + 1
        BY <3>1, <4>2, AbsentAssumption
      <4> QED
        BY <3>2, <4>1, <4>2, <4>3
    <3>4. CASE q = p /\ disk'[p] = Absent
      BY <3>1, <3>2, <3>4
    <3>5. CASE q = p /\ disk'[p] # Absent
      <4>1. disk'[p].stamp = clock + 1
        BY <1>4, <3>5 DEF FileChanges
      <4>2. baseline[c][p] # Absent => baseline[c][p] <= clock
        BY <3>5
      <4> QED
        BY <3>1, <3>2, <3>5, <4>1, <4>2, AbsentAssumption
    <3> QED
      BY <3>3, <3>4, <3>5
  <2> QED
    BY <2>1, <2>2
<1>5. ASSUME NEW p \in Paths, CallFails(p)
      PROVE  Ledger'
  BY <1>5, AbsentAssumption, NoneAssumption DEF CallFails
<1>6. ASSUME NEW c \in Checkpoints, Reconcile(c)
      PROVE  Ledger'
  BY <1>6, AbsentAssumption, NoneAssumption DEF Reconcile, Reconciled
<1>7. ASSUME NEW c \in Checkpoints, Promote(c)
      PROVE  Ledger'
  BY <1>7, AbsentAssumption, NoneAssumption DEF Promote, Reconciled
<1>8. ASSUME NEW c \in Checkpoints, NEW m \in Modes, StartRollback(c, m)
      PROVE  Ledger'
  BY <1>8, AbsentAssumption, NoneAssumption DEF StartRollback, Reconciled
<1>9. ASSUME NEW c \in Checkpoints, FinishRollback(c)
      PROVE  Ledger'
  BY <1>9, AbsentAssumption, NoneAssumption DEF FinishRollback, Restored, Unmark,
     NoteRestore, Tick, NewStamp
<1>10. ASSUME NEW c \in Checkpoints, NEW D \in SUBSET OfKind(c, "created"),
             NEW R \in SUBSET (ToRestore(c) \ Unbacked(c)), FailRollback(c, D, R)
       PROVE  Ledger'
  BY <1>10, AbsentAssumption, NoneAssumption DEF FailRollback, Restored, Unmark,
     NoteRestore, Tick, NewStamp
<1>11. CASE UNCHANGED vars
  BY <1>11 DEF vars
<1> HIDE DEF TypeOK, Files, Stamps, Entries, Kinds, FileOps, Modes, Calls, Live,
   LiveCheckpoints, StampOf, DataOf, records, Ledger
<1> QED
  BY <1>1, <1>2, <1>3, <1>4, <1>5, <1>6, <1>7, <1>8, <1>9, <1>10, <1>11, Steps

\* No path of the snapshot is listed as created.
LEMMA CreatedStep ==
    ASSUME TypeOK, Unborn, CreatedWasAbsent, [Next]_vars
    PROVE  CreatedWasAbsent'
<1> USE DEF TypeOK, Files, Stamps, Entries, Kinds, FileOps, Modes, Calls, Live,
   LiveCheckpoints, StampOf, DataOf, records, Unborn, CreatedWasAbsent
<1>1. ASSUME NEW c \in Checkpoints, NEW par \in Checkpoints \cup {None}, Snapshot(c, par)
      PROVE  CreatedWasAbsent'
  BY <1>1, AbsentAssumption, NoneAssumption DEF Snapshot
<1>2. ASSUME CallStarts
      PROVE  CreatedWasAbsent'
  BY <1>2, AbsentAssumption, NoneAssumption DEF CallStarts, Marked, BackupRecord
<1>3. ASSUME CallEnds
      PROVE  CreatedWasAbsent'
  BY <1>3, AbsentAssumption, NoneAssumption DEF CallEnds
<1>4. ASSUME NEW p \in Paths, FileChanges(p)
      PROVE  CreatedWasAbsent'
  BY <1>4, AbsentAssumption, NoneAssumption DEF FileChanges
<1>5. ASSUME NEW p \in Paths, CallFails(p)
      PROVE  CreatedWasAbsent'
  BY <1>5, AbsentAssumption, NoneAssumption DEF CallFails
<1>6. ASSUME NEW c \in Checkpoints, Reconcile(c)
      PROVE  CreatedWasAbsent'
  BY <1>6, AbsentAssumption, NoneAssumption, DiffEntryShape DEF Reconcile, Reconciled
<1>7. ASSUME NEW c \in Checkpoints, Promote(c)
      PROVE  CreatedWasAbsent'
  BY <1>7, AbsentAssumption, NoneAssumption, DiffEntryShape DEF Promote, Reconciled
<1>8. ASSUME NEW c \in Checkpoints, NEW m \in Modes, StartRollback(c, m)
      PROVE  CreatedWasAbsent'
  BY <1>8, AbsentAssumption, NoneAssumption, DiffEntryShape DEF StartRollback,
     Reconciled
<1>9. ASSUME NEW c \in Checkpoints, FinishRollback(c)
      PROVE  CreatedWasAbsent'
  BY <1>9, AbsentAssumption, NoneAssumption DEF FinishRollback, Restored, Unmark,
     NoteRestore, Tick, NewStamp
<1>10. ASSUME NEW c \in Checkpoints, NEW D \in SUBSET OfKind(c, "created"),
             NEW R \in SUBSET (ToRestore(c) \ Unbacked(c)), FailRollback(c, D, R)
       PROVE  CreatedWasAbsent'
  BY <1>10, AbsentAssumption, NoneAssumption DEF FailRollback, Restored, Unmark,
     NoteRestore, Tick, NewStamp
<1>11. CASE UNCHANGED vars
  BY <1>11 DEF vars
<1> HIDE DEF TypeOK, Files, Stamps, Entries, Kinds, FileOps, Modes, Calls, Live,
   LiveCheckpoints, StampOf, DataOf, records, Unborn, CreatedWasAbsent
<1> QED
  BY <1>1, <1>2, <1>3, <1>4, <1>5, <1>6, <1>7, <1>8, <1>9, <1>10, <1>11, Steps

\* A change either meets a backup or is noted.
LEMMA UnseenStep ==
    ASSUME TypeOK, Unborn, CreatedWasAbsent, Unseen, [Next]_vars
    PROVE  Unseen'
<1> USE DEF TypeOK, Files, Stamps, Entries, Kinds, FileOps, Modes, Calls, Live,
   LiveCheckpoints, StampOf, DataOf, records, Unborn, CreatedWasAbsent, Unseen, OfKind,
   ToRestore, Unbacked
<1>1. ASSUME NEW c \in Checkpoints, NEW par \in Checkpoints \cup {None}, Snapshot(c, par)
      PROVE  Unseen'
  BY <1>1, AbsentAssumption, NoneAssumption DEF Snapshot
<1>2. ASSUME CallStarts
      PROVE  Unseen'
  BY <1>2, AbsentAssumption, NoneAssumption DEF CallStarts, Marked, BackupRecord
<1>3. ASSUME CallEnds
      PROVE  Unseen'
  BY <1>3, AbsentAssumption, NoneAssumption DEF CallEnds
<1>4. ASSUME NEW p \in Paths, FileChanges(p)
      PROVE  Unseen'
  BY <1>4, AbsentAssumption, NoneAssumption DEF FileChanges
<1>5. ASSUME NEW p \in Paths, CallFails(p)
      PROVE  Unseen'
  BY <1>5, AbsentAssumption, NoneAssumption DEF CallFails
<1>6. ASSUME NEW c \in Checkpoints, Reconcile(c)
      PROVE  Unseen'
  BY <1>6, AbsentAssumption, NoneAssumption DEF Reconcile, Reconciled
<1>7. ASSUME NEW c \in Checkpoints, Promote(c)
      PROVE  Unseen'
  BY <1>7, AbsentAssumption, NoneAssumption DEF Promote, Reconciled
<1>8. ASSUME NEW c \in Checkpoints, NEW m \in Modes, StartRollback(c, m)
      PROVE  Unseen'
  BY <1>8, AbsentAssumption, NoneAssumption DEF StartRollback, Reconciled
<1>9. ASSUME NEW c \in Checkpoints, FinishRollback(c)
      PROVE  Unseen'
  BY <1>9, AbsentAssumption, NoneAssumption DEF FinishRollback, Restored, Unmark,
     NoteRestore, Tick, NewStamp
<1>10. ASSUME NEW c \in Checkpoints, NEW D \in SUBSET OfKind(c, "created"),
             NEW R \in SUBSET (ToRestore(c) \ Unbacked(c)), FailRollback(c, D, R)
       PROVE  Unseen'
  BY <1>10, AbsentAssumption, NoneAssumption DEF FailRollback, Restored, Unmark,
     NoteRestore, Tick, NewStamp
<1>11. CASE UNCHANGED vars
  BY <1>11 DEF vars
<1> HIDE DEF TypeOK, Files, Stamps, Entries, Kinds, FileOps, Modes, Calls, Live,
   LiveCheckpoints, StampOf, DataOf, records, Unborn, CreatedWasAbsent, Unseen, OfKind,
   ToRestore, Unbacked
<1> QED
  BY <1>1, <1>2, <1>3, <1>4, <1>5, <1>6, <1>7, <1>8, <1>9, <1>10, <1>11, Steps

\* While a rollback is in progress the paths it has found unchanged stay so, or
\* are in the gap.
LEMMA SweptStep ==
    ASSUME TypeOK, Swept, [Next]_vars
    PROVE  Swept'
<1> USE DEF TypeOK, Files, Stamps, Entries, Kinds, FileOps, Modes, Calls, Live,
   LiveCheckpoints, StampOf, DataOf, records, Swept
<1>1. ASSUME NEW c \in Checkpoints, NEW par \in Checkpoints \cup {None}, Snapshot(c, par)
      PROVE  Swept'
  BY <1>1, AbsentAssumption, NoneAssumption DEF Snapshot
<1>2. ASSUME CallStarts
      PROVE  Swept'
  BY <1>2, AbsentAssumption, NoneAssumption DEF CallStarts, Marked, BackupRecord
<1>3. ASSUME CallEnds
      PROVE  Swept'
  BY <1>3, AbsentAssumption, NoneAssumption DEF CallEnds
<1>4. ASSUME NEW p \in Paths, FileChanges(p)
      PROVE  Swept'
  BY <1>4, AbsentAssumption, NoneAssumption DEF FileChanges
<1>5. ASSUME NEW p \in Paths, CallFails(p)
      PROVE  Swept'
  BY <1>5, AbsentAssumption, NoneAssumption DEF CallFails
<1>6. ASSUME NEW c \in Checkpoints, Reconcile(c)
      PROVE  Swept'
  BY <1>6, AbsentAssumption, NoneAssumption, DiffEntryShape DEF Reconcile, Reconciled
<1>7. ASSUME NEW c \in Checkpoints, Promote(c)
      PROVE  Swept'
  BY <1>7, AbsentAssumption, NoneAssumption, DiffEntryShape DEF Promote, Reconciled
<1>8. ASSUME NEW c \in Checkpoints, NEW m \in Modes, StartRollback(c, m)
      PROVE  Swept'
  BY <1>8, AbsentAssumption, NoneAssumption, DiffEntryShape DEF StartRollback,
     Reconciled
<1>9. ASSUME NEW c \in Checkpoints, FinishRollback(c)
      PROVE  Swept'
  BY <1>9, AbsentAssumption, NoneAssumption DEF FinishRollback, Restored, Unmark,
     NoteRestore, Tick, NewStamp
<1>10. ASSUME NEW c \in Checkpoints, NEW D \in SUBSET OfKind(c, "created"),
             NEW R \in SUBSET (ToRestore(c) \ Unbacked(c)), FailRollback(c, D, R)
       PROVE  Swept'
  BY <1>10, AbsentAssumption, NoneAssumption DEF FailRollback, Restored, Unmark,
     NoteRestore, Tick, NewStamp
<1>11. CASE UNCHANGED vars
  BY <1>11 DEF vars
<1> HIDE DEF TypeOK, Files, Stamps, Entries, Kinds, FileOps, Modes, Calls, Live,
   LiveCheckpoints, StampOf, DataOf, records, Swept
<1> QED
  BY <1>1, <1>2, <1>3, <1>4, <1>5, <1>6, <1>7, <1>8, <1>9, <1>10, <1>11, Steps

\* A backup is made of an unchanged path, and stays as it is.
LEMMA FaithfulStep ==
    ASSUME TypeOK, Unborn, Ledger, Unseen, BackupsFaithful, [Next]_vars
    PROVE  BackupsFaithful'
<1> USE DEF TypeOK, Files, Stamps, Entries, Kinds, FileOps, Modes, Calls, Live,
   LiveCheckpoints, StampOf, DataOf, records, Unborn, Ledger, Unseen, BackupsFaithful
<1>1. ASSUME NEW c \in Checkpoints, NEW par \in Checkpoints \cup {None}, Snapshot(c, par)
      PROVE  BackupsFaithful'
  BY <1>1, AbsentAssumption, NoneAssumption DEF Snapshot
<1>2. ASSUME CallStarts
      PROVE  BackupsFaithful'
  <2>1. UNCHANGED <<clock, disk, status, records, sweep, blind, gap>>
    BY <1>2 DEF CallStarts
  <2>2. ASSUME NEW c \in Checkpoints, NEW p \in Paths, p \notin blind[c],
               backup'[c][p] # None
        PROVE  backup'[c][p] = original[c][p]
    <3>1. CASE backup[c][p] # None
      BY <1>2, <2>2, <3>1 DEF CallStarts, Marked, BackupRecord
    <3>2. CASE backup[c][p] = None
      <4>1. Marked(c, p)
        BY <1>2, <2>2, <3>2 DEF CallStarts
      <4>2. c \in LiveCheckpoints /\ backup'[c][p] = DataOf(p)
        BY <3>2, <4>1 DEF Marked, BackupRecord
      <4>3. StampOf(p) = baseline[c][p]
        BY <2>2, <3>2, <4>2
      <4> QED
        BY <4>2, <4>3
    <3> QED
      BY <3>1, <3>2
  <2> QED
    BY <2>1, <2>2
<1>3. ASSUME CallEnds
      PROVE  BackupsFaithful'
  BY <1>3, AbsentAssumption, NoneAssumption DEF CallEnds
<1>4. ASSUME NEW p \in Paths, FileChanges(p)
      PROVE  BackupsFaithful'
  BY <1>4, AbsentAssumption, NoneAssumption DEF FileChanges
<1>5. ASSUME NEW p \in Paths, CallFails(p)
      PROVE  BackupsFaithful'
  BY <1>5, AbsentAssumption, NoneAssumption DEF CallFails
<1>6. ASSUME NEW c \in Checkpoints, Reconcile(c)
      PROVE  BackupsFaithful'
  BY <1>6, AbsentAssumption, NoneAssumption DEF Reconcile, Reconciled
<1>7. ASSUME NEW c \in Checkpoints, Promote(c)
      PROVE  BackupsFaithful'
  BY <1>7, AbsentAssumption, NoneAssumption DEF Promote, Reconciled
<1>8. ASSUME NEW c \in Checkpoints, NEW m \in Modes, StartRollback(c, m)
      PROVE  BackupsFaithful'
  BY <1>8, AbsentAssumption, NoneAssumption DEF StartRollback, Reconciled
<1>9. ASSUME NEW c \in Checkpoints, FinishRollback(c)
      PROVE  BackupsFaithful'
  BY <1>9, AbsentAssumption, NoneAssumption DEF FinishRollback, Restored, Unmark,
     NoteRestore, Tick, NewStamp
<1>10. ASSUME NEW c \in Checkpoints, NEW D \in SUBSET OfKind(c, "created"),
             NEW R \in SUBSET (ToRestore(c) \ Unbacked(c)), FailRollback(c, D, R)
       PROVE  BackupsFaithful'
  BY <1>10, AbsentAssumption, NoneAssumption DEF FailRollback, Restored, Unmark,
     NoteRestore, Tick, NewStamp
<1>11. CASE UNCHANGED vars
  BY <1>11 DEF vars
<1> HIDE DEF TypeOK, Files, Stamps, Entries, Kinds, FileOps, Modes, Calls, Live,
   LiveCheckpoints, StampOf, DataOf, records, Unborn, Ledger, Unseen, BackupsFaithful
<1> QED
  BY <1>1, <1>2, <1>3, <1>4, <1>5, <1>6, <1>7, <1>8, <1>9, <1>10, <1>11, Steps

\* What is listed has a backup, or changed unseen.
LEMMA UnbackedStep ==
    ASSUME TypeOK, Unborn, Unseen, UnbackedIsBlind, [Next]_vars
    PROVE  UnbackedIsBlind'
<1> USE DEF TypeOK, Files, Stamps, Entries, Kinds, FileOps, Modes, Calls, Live,
   LiveCheckpoints, StampOf, DataOf, records, Unborn, Unseen, UnbackedIsBlind, OfKind,
   ToRestore, Unbacked
<1>1. ASSUME NEW c \in Checkpoints, NEW par \in Checkpoints \cup {None}, Snapshot(c, par)
      PROVE  UnbackedIsBlind'
  BY <1>1, AbsentAssumption, NoneAssumption DEF Snapshot
<1>2. ASSUME CallStarts
      PROVE  UnbackedIsBlind'
  BY <1>2, AbsentAssumption, NoneAssumption DEF CallStarts, Marked, BackupRecord
<1>3. ASSUME CallEnds
      PROVE  UnbackedIsBlind'
  BY <1>3, AbsentAssumption, NoneAssumption DEF CallEnds
<1>4. ASSUME NEW p \in Paths, FileChanges(p)
      PROVE  UnbackedIsBlind'
  BY <1>4, AbsentAssumption, NoneAssumption DEF FileChanges
<1>5. ASSUME NEW p \in Paths, CallFails(p)
      PROVE  UnbackedIsBlind'
  BY <1>5, AbsentAssumption, NoneAssumption DEF CallFails
<1>6. ASSUME NEW c \in Checkpoints, Reconcile(c)
      PROVE  UnbackedIsBlind'
  BY <1>6, AbsentAssumption, NoneAssumption, DiffEntryShape DEF Reconcile, Reconciled
<1>7. ASSUME NEW c \in Checkpoints, Promote(c)
      PROVE  UnbackedIsBlind'
  BY <1>7, AbsentAssumption, NoneAssumption, DiffEntryShape DEF Promote, Reconciled
<1>8. ASSUME NEW c \in Checkpoints, NEW m \in Modes, StartRollback(c, m)
      PROVE  UnbackedIsBlind'
  BY <1>8, AbsentAssumption, NoneAssumption, DiffEntryShape DEF StartRollback,
     Reconciled
<1>9. ASSUME NEW c \in Checkpoints, FinishRollback(c)
      PROVE  UnbackedIsBlind'
  BY <1>9, AbsentAssumption, NoneAssumption DEF FinishRollback, Restored, Unmark,
     NoteRestore, Tick, NewStamp
<1>10. ASSUME NEW c \in Checkpoints, NEW D \in SUBSET OfKind(c, "created"),
             NEW R \in SUBSET (ToRestore(c) \ Unbacked(c)), FailRollback(c, D, R)
       PROVE  UnbackedIsBlind'
  BY <1>10, AbsentAssumption, NoneAssumption DEF FailRollback, Restored, Unmark,
     NoteRestore, Tick, NewStamp
<1>11. CASE UNCHANGED vars
  BY <1>11 DEF vars
<1> HIDE DEF TypeOK, Files, Stamps, Entries, Kinds, FileOps, Modes, Calls, Live,
   LiveCheckpoints, StampOf, DataOf, records, Unborn, Unseen, UnbackedIsBlind, OfKind,
   ToRestore, Unbacked
<1> QED
  BY <1>1, <1>2, <1>3, <1>4, <1>5, <1>6, <1>7, <1>8, <1>9, <1>10, <1>11, Steps
LEMMA InitInv == Init => Inv
<1> SUFFICES ASSUME Init PROVE Inv
  OBVIOUS
<1>1. TypeOK
  BY DEF Init, TypeOK, Files, Stamps
<1>2. Unborn /\ Ledger /\ CreatedWasAbsent
  BY AbsentAssumption DEF Init, Unborn, Ledger, CreatedWasAbsent, StampOf, DataOf
<1>3. Unseen /\ Swept /\ BackupsFaithful /\ UnbackedIsBlind
  BY NoneAssumption
     DEF Init, Unseen, Swept, BackupsFaithful, UnbackedIsBlind, LiveCheckpoints, Live, Modes
<1> QED
  BY <1>1, <1>2, <1>3 DEF Inv

LEMMA NextInv == Inv /\ [Next]_vars => Inv'
BY TypeStep, UnbornStep, LedgerStep, CreatedStep, UnseenStep, SweptStep, FaithfulStep,
   UnbackedStep DEF Inv

LEMMA Invariance == Spec => []Inv
BY InitInv, NextInv, PTL DEF Spec
-----------------------------------------------------------------------------
(* The theorems. *)

\* Every variable has its type in every reachable state: the maps, the backups
\* and the calls in flight are what workspace.ts and vfs/interceptor.ts keep.
THEOREM TypeCorrect == Spec => []TypeOK
<1>1. Inv => TypeOK
  BY DEF Inv
<1> QED
  BY <1>1, Invariance, PTL

\* backupFile copies the snapshot's content, unless the path had changed behind
\* the checkpoint's back before: in any interleaving of any number of calls,
\* child processes, rollbacks and checkpoints.
THEOREM BackupsAreOriginals == Spec => []BackupsFaithful
<1>1. Inv => BackupsFaithful
  BY DEF Inv
<1> QED
  BY <1>1, Invariance, PTL

\* A rollback's integrity error is never spurious: what restoreDirtyEntries has
\* no backup of did change while the checkpoint was not receiving.
THEOREM ErrorsAreReal == Spec => []UnbackedIsBlind
<1>1. Inv => UnbackedIsBlind
  BY DEF Inv
<1> QED
  BY <1>1, Invariance, PTL

\* The rollback that succeeds is the only step that disposes of a checkpoint.
LEMMA OnlyRollbackDisposes ==
    ASSUME TypeOK, [Next]_vars, NEW c \in Checkpoints,
           status[c] = "rolling-back", status'[c] = "disposed"
    PROVE  FinishRollback(c)
<1> USE DEF TypeOK
<1>1. ASSUME NEW d \in Checkpoints, NEW par \in Checkpoints \cup {None}, Snapshot(d, par)
      PROVE  FALSE
  BY <1>1 DEF Snapshot
<1>2. ASSUME CallStarts \/ CallEnds \/ \E p \in Paths : FileChanges(p) \/ CallFails(p)
      PROVE  FALSE
  BY <1>2 DEF CallStarts, CallEnds, FileChanges, CallFails
<1>3. ASSUME NEW d \in Checkpoints, Reconcile(d) \/ Promote(d)
      PROVE  FALSE
  BY <1>3 DEF Reconcile, Promote
<1>4. ASSUME NEW d \in Checkpoints, FinishRollback(d)
      PROVE  FinishRollback(c)
  BY <1>4 DEF FinishRollback
<1>5. ASSUME NEW d \in Checkpoints, NEW m \in Modes, StartRollback(d, m)
      PROVE  FALSE
  BY <1>5 DEF StartRollback
<1>6. ASSUME NEW d \in Checkpoints, NEW D, NEW R, FailRollback(d, D, R)
      PROVE  FALSE
  BY <1>6 DEF FailRollback
<1>7. CASE UNCHANGED vars
  BY <1>7 DEF vars
<1> HIDE DEF TypeOK
<1> QED
  BY <1>1, <1>2, <1>3, <1>4, <1>5, <1>6, <1>7, Steps

\* A rollback that succeeds puts back every path whose changes the checkpoint
\* could see, and every path it has no backup of.
THEOREM RollbackIsFaithful == Spec => RollbackRestores
<1>1. ASSUME Inv, [Next]_vars, NEW c \in Checkpoints, NEW p \in Paths,
             status[c] = "rolling-back", status'[c] = "disposed", p \notin gap,
             p \notin blind[c] \/ (backup[c][p] = None /\ sweep = "rollback"),
             sweep = "rollback" \/ dirty[c][p] # None
      PROVE  DataOf(p)' = original[c][p]
  <2>1. FinishRollback(c)
    BY <1>1, OnlyRollbackDisposes DEF Inv
  <2>2. /\ disk'[p] = Restored(c, OfKind(c, "created"), ToRestore(c))[p]
        /\ Unbacked(c) = {}
    BY <2>1 DEF FinishRollback
  <2>3. dirty[c][p] # None => dirty[c][p].kind \in Kinds
    BY <1>1 DEF Inv, TypeOK, Entries
  <2>4. CASE dirty[c][p] = None
    <3>1. disk'[p] = disk[p]
      BY <2>2, <2>4 DEF Restored, OfKind, ToRestore
    <3>2. StampOf(p) = baseline[c][p]
      BY <1>1, <2>4 DEF Inv, Swept
    <3>3. DataOf(p) = original[c][p]
      BY <1>1, <3>2 DEF Inv, Ledger
    <3> QED
      BY <3>1, <3>3 DEF DataOf
  <2>5. CASE dirty[c][p] # None /\ dirty[c][p].kind = "created"
    <3>1. disk'[p] = Absent
      BY <2>2, <2>5 DEF Restored, OfKind, ToRestore
    <3>2. original[c][p] = Absent
      BY <1>1, <2>5 DEF Inv, CreatedWasAbsent, Ledger
    <3> QED
      BY <3>1, <3>2 DEF DataOf
  <2>6. CASE dirty[c][p] # None /\ dirty[c][p].kind \in {"modified", "deleted"}
    <3>1. p \in ToRestore(c) /\ p \notin OfKind(c, "created")
      BY <2>6 DEF ToRestore, OfKind
    <3>2. backup[c][p] # None
      BY <2>2, <3>1 DEF Unbacked
    <3>3. backup[c][p] = original[c][p]
      BY <1>1, <3>2 DEF Inv, BackupsFaithful
    <3>4. backup[c][p] = Absent => disk'[p] = Absent
      BY <2>2, <3>1 DEF Restored
    <3>5. backup[c][p] # Absent => disk'[p] = [data |-> backup[c][p], stamp |-> NewStamp]
      BY <2>2, <3>1 DEF Restored
    <3>6. [data |-> backup[c][p], stamp |-> NewStamp] # Absent
          \/ backup[c][p] = Absent
      <4>1. backup[c][p] \in Data \cup {Absent} /\ NewStamp \in Nat
        BY <1>1, <3>2 DEF Inv, TypeOK, NewStamp
      <4> QED
        BY <4>1, AbsentAssumption DEF Files
    <3> QED
      BY <3>3, <3>4, <3>5, <3>6 DEF DataOf
  <2> QED
    BY <2>3, <2>4, <2>5, <2>6 DEF Kinds
<1>2. Inv /\ [Next]_vars =>
        [\A c \in Checkpoints, p \in Paths :
           /\ status[c] = "rolling-back" /\ status'[c] = "disposed"
           /\ p \notin gap
           /\ p \notin blind[c] \/ (backup[c][p] = None /\ sweep = "rollback")
           /\ sweep = "rollback" \/ dirty[c][p] # None
           => DataOf(p)' = original[c][p]]_vars
  BY <1>1
<1> QED
  BY <1>2, Invariance, PTL DEF Spec, RollbackRestores
=============================================================================
