------------------------ MODULE AttemptRecoveryProofs ------------------------
(***************************************************************************)
(* Proofs about AttemptRecovery, for any sets of paths and contents and    *)
(* any bounds.                                                             *)
(*                                                                         *)
(* The inductive invariant Inv has four layers:                            *)
(*   PhaseShape  what a phase says of the status and of the fs call;       *)
(*   Records     what records and manifest say of a path, and what a path  *)
(*               without a record still holds;                             *)
(*   Listed      what a path holds that the dirty set does not list;       *)
(*   Durable     the same of the journal, as long as no write was lost.    *)
(* RecordsFaithful and the rollback follow from the first three, what a    *)
(* later process relies on from the last.                                  *)
(***************************************************************************)
EXTENDS AttemptRecovery, TLAPS

CallPhases == {"backup", "manifest", "journal", "apply"}
Up == phase # "down"

\* The status changes with the phase, and a call has backed up and marked every
\* path of its own that is not pending.
PhaseShape ==
    /\ phase = "down" => /\ status = None
                         /\ records = Nothing /\ dirty = Nothing /\ memory = Nothing
    /\ phase \in CallPhases \cup {"idle", "reconcile", "promote"} => status = "active"
    /\ phase = "restore" => status = "rolling-back"
    /\ phase \in {"cleanup", "settled"} => status \in Settled
    /\ phase \in {"manifest", "journal", "apply"} => pending = {}
    /\ phase \in CallPhases =>
          \A p \in PathsOf(todo) \ pending : records[p] # None /\ dirty[p] # None

\* Only a path that did not exist at the snapshot is listed as created.
CreatedWasAbsent ==
    \A p \in Paths : "created" \in {dirty[p], journal.dirty[p]} => original[p] = Absent

\* The manifest lags behind the records of the process.
ManifestBehind ==
    Up => \A p \in Paths : manifest[p] # None => records[p] = manifest[p]

\* A path whose changes were seen is at its original without a record, and a
\* "missing" record means that it did not exist.
Recorded ==
    \A p \in Paths \ blind :
        /\ Up /\ records[p] = None => disk[p] = original[p]
        /\ ~Up /\ manifest[p] = None => disk[p] = original[p]
        /\ manifest[p] = "missing" => original[p] = Absent

Untouched == \A p \in Paths \ touched : disk[p] = original[p]

\* What a rollback has done so far.
Restored ==
    phase = "restore" =>
        \A p \in Paths \ blind : dirty[p] = None => disk[p] = original[p]

\* Without a fault: a path that is not at its original is in the dirty set of
\* the process, in the manifest, and, if the attempt is live, in the journal.
Durable ==
    faults = 0 =>
        /\ phase \in {"journal", "apply"} => manifest = records
        /\ phase = "apply" => journal.dirty = dirty
        /\ phase = "cleanup" => journal.status = status
        /\ outcome # None => journal.status \in Settled /\ phase \in {"settled", "down"}
        /\ \A p \in Paths \ blind :
              /\ manifest[p] = None => disk[p] = original[p]
              /\ p \notin undone \cup outside =>
                    /\ Up /\ dirty[p] = None => disk[p] = original[p]
                    /\ journal.status \in Live /\ journal.dirty[p] = None =>
                          disk[p] = original[p]

Inv ==
    /\ TypeOK
    /\ PhaseShape
    /\ CreatedWasAbsent
    /\ ManifestBehind
    /\ Recorded
    /\ Untouched
    /\ RecordsFaithful
    /\ Restored
    /\ Durable
-----------------------------------------------------------------------------
(* Each part of the invariant is kept by every step. *)

\* A call writes or deletes its paths.
LEMMA OperationType ==
    ASSUME NEW t \in Operations
    PROVE  t \in [Paths -> Effects \cup {None}]
BY DEF Operations, Effects

\* Every variable keeps its type.
LEMMA TypeStep ==
    ASSUME TypeOK, PhaseShape, [Next]_vars
    PROVE  TypeOK'
<1> USE DEF TypeOK, PhaseShape, process, call, counters, history, fixed, Contents, Live,
   Settled, Kinds, Records, Effects, Nothing, PathsOf, CallPhases
<1>1. ASSUME NEW t \in Operations, BeginMutation(t)
      PROVE  TypeOK'
  BY <1>1, OperationType DEF BeginMutation
<1>2. ASSUME NEW p \in Paths, BackUpAndMark(p)
      PROVE  TypeOK'
  BY <1>2, BoundsAssumption DEF BackUpAndMark, Backup, VfsKind
<1>3. ASSUME NEW p \in Paths, RestoreOne(p)
      PROVE  TypeOK'
  BY <1>3, BoundsAssumption DEF RestoreOne, MayRestore, Held
<1>4. ASSUME NEW p \in Paths, OutsideEdit(p)
      PROVE  TypeOK'
  BY <1>4, BoundsAssumption DEF OutsideEdit
<1>5. ASSUME BackupThrows
      PROVE  TypeOK'
  BY <1>5, BoundsAssumption DEF BackupThrows
<1>6. ASSUME SaveManifest
      PROVE  TypeOK'
  BY <1>6, BoundsAssumption DEF SaveManifest, WriteManifest, Fault
<1>7. ASSUME SaveJournal
      PROVE  TypeOK'
  BY <1>7, BoundsAssumption DEF SaveJournal, WriteJournal, Fault
<1>8. ASSUME Apply
      PROVE  TypeOK'
  BY <1>8, BoundsAssumption DEF Apply
<1>9. ASSUME ApplyFails
      PROVE  TypeOK'
  BY <1>9, BoundsAssumption DEF ApplyFails
<1>10. ASSUME Reconcile
       PROVE  TypeOK'
  BY <1>10, BoundsAssumption DEF Reconcile, ReconcileAs, WriteJournal, Fault, DiffKind,
     AtBaseline
<1>11. ASSUME StartRollback
       PROVE  TypeOK'
  BY <1>11, BoundsAssumption DEF StartRollback, WriteJournal, Fault
<1>12. ASSUME ReconcileForRollback
       PROVE  TypeOK'
  BY <1>12, BoundsAssumption DEF ReconcileForRollback, ReconcileAs, WriteJournal, Fault,
     DiffKind, AtBaseline
<1>13. ASSUME RestoreThrows
       PROVE  TypeOK'
  BY <1>13, BoundsAssumption DEF RestoreThrows, WriteJournal, Fault
<1>14. ASSUME FinishRollback
       PROVE  TypeOK'
  BY <1>14, BoundsAssumption DEF FinishRollback, WriteJournal, Fault
<1>15. ASSUME StartPromote
       PROVE  TypeOK'
  BY <1>15, BoundsAssumption DEF StartPromote, ReconcileAs, WriteJournal, Fault,
     DiffKind, AtBaseline
<1>16. ASSUME FinishPromote
       PROVE  TypeOK'
  BY <1>16, BoundsAssumption DEF FinishPromote, WriteJournal, Fault
<1>17. ASSUME PromoteFails
       PROVE  TypeOK'
  BY <1>17, BoundsAssumption DEF PromoteFails
<1>18. ASSUME CleanUp
       PROVE  TypeOK'
  BY <1>18, BoundsAssumption DEF CleanUp, EmptyStorage
<1>19. ASSUME Dispose
       PROVE  TypeOK'
  BY <1>19, BoundsAssumption DEF Dispose, WriteJournal, Fault, EmptyStorage, Forget
<1>20. ASSUME Crash
       PROVE  TypeOK'
  BY <1>20, BoundsAssumption DEF Crash, Forget
<1>21. ASSUME Rehydrate
       PROVE  TypeOK'
  BY <1>21, BoundsAssumption DEF Rehydrate, CanRehydrate
<1>22. CASE UNCHANGED vars
  BY <1>22 DEF vars
<1> QED
  BY <1>1, <1>2, <1>3, <1>4, <1>5, <1>6, <1>7, <1>8, <1>9, <1>10, <1>11, <1>12, <1>13,
     <1>14, <1>15, <1>16, <1>17, <1>18, <1>19, <1>20, <1>21, <1>22 DEF Next

\* The status goes with the phase, and the call in progress keeps its shape.
LEMMA ShapeStep ==
    ASSUME TypeOK, PhaseShape, [Next]_vars
    PROVE  PhaseShape'
<1> USE DEF TypeOK, PhaseShape, process, call, counters, history, fixed, Contents, Live,
   Settled, Kinds, Records, Effects, Nothing, PathsOf, CallPhases
<1>1. ASSUME NEW t \in Operations, BeginMutation(t)
      PROVE  PhaseShape'
  BY <1>1, NoneAssumption DEF BeginMutation
<1>2. ASSUME NEW p \in Paths, BackUpAndMark(p)
      PROVE  PhaseShape'
  BY <1>2, NoneAssumption DEF BackUpAndMark, Backup, VfsKind
<1>3. ASSUME NEW p \in Paths, RestoreOne(p)
      PROVE  PhaseShape'
  BY <1>3, NoneAssumption DEF RestoreOne, MayRestore, Held
<1>4. ASSUME NEW p \in Paths, OutsideEdit(p)
      PROVE  PhaseShape'
  BY <1>4, NoneAssumption DEF OutsideEdit
<1>5. ASSUME BackupThrows
      PROVE  PhaseShape'
  BY <1>5, NoneAssumption DEF BackupThrows
<1>6. ASSUME SaveManifest
      PROVE  PhaseShape'
  BY <1>6, NoneAssumption DEF SaveManifest, WriteManifest, Fault
<1>7. ASSUME SaveJournal
      PROVE  PhaseShape'
  BY <1>7, NoneAssumption DEF SaveJournal, WriteJournal, Fault
<1>8. ASSUME Apply
      PROVE  PhaseShape'
  BY <1>8, NoneAssumption DEF Apply
<1>9. ASSUME ApplyFails
      PROVE  PhaseShape'
  BY <1>9, NoneAssumption DEF ApplyFails
<1>10. ASSUME Reconcile
       PROVE  PhaseShape'
  BY <1>10, NoneAssumption DEF Reconcile, ReconcileAs, WriteJournal, Fault, DiffKind,
     AtBaseline
<1>11. ASSUME StartRollback
       PROVE  PhaseShape'
  BY <1>11, NoneAssumption DEF StartRollback, WriteJournal, Fault
<1>12. ASSUME ReconcileForRollback
       PROVE  PhaseShape'
  BY <1>12, NoneAssumption DEF ReconcileForRollback, ReconcileAs, WriteJournal, Fault,
     DiffKind, AtBaseline
<1>13. ASSUME RestoreThrows
       PROVE  PhaseShape'
  BY <1>13, NoneAssumption DEF RestoreThrows, WriteJournal, Fault
<1>14. ASSUME FinishRollback
       PROVE  PhaseShape'
  BY <1>14, NoneAssumption DEF FinishRollback, WriteJournal, Fault
<1>15. ASSUME StartPromote
       PROVE  PhaseShape'
  BY <1>15, NoneAssumption DEF StartPromote, ReconcileAs, WriteJournal, Fault, DiffKind,
     AtBaseline
<1>16. ASSUME FinishPromote
       PROVE  PhaseShape'
  BY <1>16, NoneAssumption DEF FinishPromote, WriteJournal, Fault
<1>17. ASSUME PromoteFails
       PROVE  PhaseShape'
  BY <1>17, NoneAssumption DEF PromoteFails
<1>18. ASSUME CleanUp
       PROVE  PhaseShape'
  BY <1>18, NoneAssumption DEF CleanUp, EmptyStorage
<1>19. ASSUME Dispose
       PROVE  PhaseShape'
  BY <1>19, NoneAssumption DEF Dispose, WriteJournal, Fault, EmptyStorage, Forget
<1>20. ASSUME Crash
       PROVE  PhaseShape'
  BY <1>20, NoneAssumption DEF Crash, Forget
<1>21. ASSUME Rehydrate
       PROVE  PhaseShape'
  BY <1>21, NoneAssumption DEF Rehydrate, CanRehydrate
<1>22. CASE UNCHANGED vars
  BY <1>22 DEF vars
<1> QED
  BY <1>1, <1>2, <1>3, <1>4, <1>5, <1>6, <1>7, <1>8, <1>9, <1>10, <1>11, <1>12, <1>13,
     <1>14, <1>15, <1>16, <1>17, <1>18, <1>19, <1>20, <1>21, <1>22 DEF Next

\* The dirty set and the journal never list a path of the snapshot as created.
LEMMA CreatedStep ==
    ASSUME TypeOK, PhaseShape, CreatedWasAbsent, [Next]_vars
    PROVE  CreatedWasAbsent'
<1> USE DEF TypeOK, PhaseShape, CreatedWasAbsent, process, call, counters, history,
   fixed, Live, Settled, Kinds, Records, Effects, Nothing, PathsOf, CallPhases
<1>1. ASSUME NEW t \in Operations, BeginMutation(t)
      PROVE  CreatedWasAbsent'
  BY <1>1, NoneAssumption DEF BeginMutation
<1>2. ASSUME NEW p \in Paths, BackUpAndMark(p)
      PROVE  CreatedWasAbsent'
  BY <1>2, NoneAssumption DEF BackUpAndMark, Backup, VfsKind
<1>3. ASSUME NEW p \in Paths, RestoreOne(p)
      PROVE  CreatedWasAbsent'
  BY <1>3, NoneAssumption DEF RestoreOne, MayRestore, Held
<1>4. ASSUME NEW p \in Paths, OutsideEdit(p)
      PROVE  CreatedWasAbsent'
  BY <1>4, NoneAssumption DEF OutsideEdit
<1>5. ASSUME BackupThrows
      PROVE  CreatedWasAbsent'
  BY <1>5, NoneAssumption DEF BackupThrows
<1>6. ASSUME SaveManifest
      PROVE  CreatedWasAbsent'
  BY <1>6, NoneAssumption DEF SaveManifest, WriteManifest, Fault
<1>7. ASSUME SaveJournal
      PROVE  CreatedWasAbsent'
  BY <1>7, NoneAssumption DEF SaveJournal, WriteJournal, Fault
<1>8. ASSUME Apply
      PROVE  CreatedWasAbsent'
  BY <1>8, NoneAssumption DEF Apply
<1>9. ASSUME ApplyFails
      PROVE  CreatedWasAbsent'
  BY <1>9, NoneAssumption DEF ApplyFails
<1>10. ASSUME Reconcile
       PROVE  CreatedWasAbsent'
  BY <1>10, NoneAssumption DEF Reconcile, ReconcileAs, WriteJournal, Fault, DiffKind,
     AtBaseline
<1>11. ASSUME StartRollback
       PROVE  CreatedWasAbsent'
  BY <1>11, NoneAssumption DEF StartRollback, WriteJournal, Fault
<1>12. ASSUME ReconcileForRollback
       PROVE  CreatedWasAbsent'
  BY <1>12, NoneAssumption DEF ReconcileForRollback, ReconcileAs, WriteJournal, Fault,
     DiffKind, AtBaseline
<1>13. ASSUME RestoreThrows
       PROVE  CreatedWasAbsent'
  BY <1>13, NoneAssumption DEF RestoreThrows, WriteJournal, Fault
<1>14. ASSUME FinishRollback
       PROVE  CreatedWasAbsent'
  BY <1>14, NoneAssumption DEF FinishRollback, WriteJournal, Fault
<1>15. ASSUME StartPromote
       PROVE  CreatedWasAbsent'
  BY <1>15, NoneAssumption DEF StartPromote, ReconcileAs, WriteJournal, Fault, DiffKind,
     AtBaseline
<1>16. ASSUME FinishPromote
       PROVE  CreatedWasAbsent'
  BY <1>16, NoneAssumption DEF FinishPromote, WriteJournal, Fault
<1>17. ASSUME PromoteFails
       PROVE  CreatedWasAbsent'
  BY <1>17, NoneAssumption DEF PromoteFails
<1>18. ASSUME CleanUp
       PROVE  CreatedWasAbsent'
  BY <1>18, NoneAssumption DEF CleanUp, EmptyStorage
<1>19. ASSUME Dispose
       PROVE  CreatedWasAbsent'
  BY <1>19, NoneAssumption DEF Dispose, WriteJournal, Fault, EmptyStorage, Forget
<1>20. ASSUME Crash
       PROVE  CreatedWasAbsent'
  BY <1>20, NoneAssumption DEF Crash, Forget
<1>21. ASSUME Rehydrate
       PROVE  CreatedWasAbsent'
  BY <1>21, NoneAssumption DEF Rehydrate, CanRehydrate
<1>22. CASE UNCHANGED vars
  BY <1>22 DEF vars
<1> QED
  BY <1>1, <1>2, <1>3, <1>4, <1>5, <1>6, <1>7, <1>8, <1>9, <1>10, <1>11, <1>12, <1>13,
     <1>14, <1>15, <1>16, <1>17, <1>18, <1>19, <1>20, <1>21, <1>22 DEF Next

\* A file that differs from the snapshot has another stat.
LEMMA UntouchedStep ==
    ASSUME TypeOK, Untouched, [Next]_vars
    PROVE  Untouched'
<1> USE DEF TypeOK, Untouched, process, call, counters, history, fixed, Effects,
   Nothing, PathsOf
<1>1. ASSUME NEW t \in Operations, BeginMutation(t)
      PROVE  Untouched'
  BY <1>1, NoneAssumption DEF BeginMutation
<1>2. ASSUME NEW p \in Paths, BackUpAndMark(p)
      PROVE  Untouched'
  BY <1>2, NoneAssumption DEF BackUpAndMark, Backup, VfsKind
<1>3. ASSUME NEW p \in Paths, RestoreOne(p)
      PROVE  Untouched'
  BY <1>3, NoneAssumption DEF RestoreOne, MayRestore, Held
<1>4. ASSUME NEW p \in Paths, OutsideEdit(p)
      PROVE  Untouched'
  BY <1>4, NoneAssumption DEF OutsideEdit
<1>5. ASSUME BackupThrows
      PROVE  Untouched'
  BY <1>5, NoneAssumption DEF BackupThrows
<1>6. ASSUME SaveManifest
      PROVE  Untouched'
  BY <1>6, NoneAssumption DEF SaveManifest, WriteManifest, Fault
<1>7. ASSUME SaveJournal
      PROVE  Untouched'
  BY <1>7, NoneAssumption DEF SaveJournal, WriteJournal, Fault
<1>8. ASSUME Apply
      PROVE  Untouched'
  BY <1>8, NoneAssumption DEF Apply
<1>9. ASSUME ApplyFails
      PROVE  Untouched'
  BY <1>9, NoneAssumption DEF ApplyFails
<1>10. ASSUME Reconcile
       PROVE  Untouched'
  BY <1>10, NoneAssumption DEF Reconcile, ReconcileAs, WriteJournal, Fault, DiffKind,
     AtBaseline
<1>11. ASSUME StartRollback
       PROVE  Untouched'
  BY <1>11, NoneAssumption DEF StartRollback, WriteJournal, Fault
<1>12. ASSUME ReconcileForRollback
       PROVE  Untouched'
  BY <1>12, NoneAssumption DEF ReconcileForRollback, ReconcileAs, WriteJournal, Fault,
     DiffKind, AtBaseline
<1>13. ASSUME RestoreThrows
       PROVE  Untouched'
  BY <1>13, NoneAssumption DEF RestoreThrows, WriteJournal, Fault
<1>14. ASSUME FinishRollback
       PROVE  Untouched'
  BY <1>14, NoneAssumption DEF FinishRollback, WriteJournal, Fault
<1>15. ASSUME StartPromote
       PROVE  Untouched'
  BY <1>15, NoneAssumption DEF StartPromote, ReconcileAs, WriteJournal, Fault, DiffKind,
     AtBaseline
<1>16. ASSUME FinishPromote
       PROVE  Untouched'
  BY <1>16, NoneAssumption DEF FinishPromote, WriteJournal, Fault
<1>17. ASSUME PromoteFails
       PROVE  Untouched'
  BY <1>17, NoneAssumption DEF PromoteFails
<1>18. ASSUME CleanUp
       PROVE  Untouched'
  BY <1>18, NoneAssumption DEF CleanUp, EmptyStorage
<1>19. ASSUME Dispose
       PROVE  Untouched'
  BY <1>19, NoneAssumption DEF Dispose, WriteJournal, Fault, EmptyStorage, Forget
<1>20. ASSUME Crash
       PROVE  Untouched'
  BY <1>20, NoneAssumption DEF Crash, Forget
<1>21. ASSUME Rehydrate
       PROVE  Untouched'
  BY <1>21, NoneAssumption DEF Rehydrate, CanRehydrate
<1>22. CASE UNCHANGED vars
  BY <1>22 DEF vars
<1> QED
  BY <1>1, <1>2, <1>3, <1>4, <1>5, <1>6, <1>7, <1>8, <1>9, <1>10, <1>11, <1>12, <1>13,
     <1>14, <1>15, <1>16, <1>17, <1>18, <1>19, <1>20, <1>21, <1>22 DEF Next

\* Within a process records are only added, and a later process begins with
\* those of the manifest.
LEMMA ManifestStep ==
    ASSUME TypeOK, PhaseShape, ManifestBehind, [Next]_vars
    PROVE  ManifestBehind'
<1> USE DEF TypeOK, PhaseShape, process, call, counters, history, fixed, Live, Settled,
   Kinds, Records, Effects, Nothing, PathsOf, CallPhases, Up, ManifestBehind
<1>1. ASSUME NEW t \in Operations, BeginMutation(t)
      PROVE  ManifestBehind'
  BY <1>1, NoneAssumption DEF BeginMutation
<1>2. ASSUME NEW p \in Paths, BackUpAndMark(p)
      PROVE  ManifestBehind'
  BY <1>2, NoneAssumption DEF BackUpAndMark, Backup, VfsKind
<1>3. ASSUME NEW p \in Paths, RestoreOne(p)
      PROVE  ManifestBehind'
  BY <1>3, NoneAssumption DEF RestoreOne, MayRestore, Held
<1>4. ASSUME NEW p \in Paths, OutsideEdit(p)
      PROVE  ManifestBehind'
  BY <1>4, NoneAssumption DEF OutsideEdit
<1>5. ASSUME BackupThrows
      PROVE  ManifestBehind'
  BY <1>5, NoneAssumption DEF BackupThrows
<1>6. ASSUME SaveManifest
      PROVE  ManifestBehind'
  BY <1>6, NoneAssumption DEF SaveManifest, WriteManifest, Fault
<1>7. ASSUME SaveJournal
      PROVE  ManifestBehind'
  BY <1>7, NoneAssumption DEF SaveJournal, WriteJournal, Fault
<1>8. ASSUME Apply
      PROVE  ManifestBehind'
  BY <1>8, NoneAssumption DEF Apply
<1>9. ASSUME ApplyFails
      PROVE  ManifestBehind'
  BY <1>9, NoneAssumption DEF ApplyFails
<1>10. ASSUME Reconcile
       PROVE  ManifestBehind'
  BY <1>10, NoneAssumption DEF Reconcile, ReconcileAs, WriteJournal, Fault, DiffKind,
     AtBaseline
<1>11. ASSUME StartRollback
       PROVE  ManifestBehind'
  BY <1>11, NoneAssumption DEF StartRollback, WriteJournal, Fault
<1>12. ASSUME ReconcileForRollback
       PROVE  ManifestBehind'
  BY <1>12, NoneAssumption DEF ReconcileForRollback, ReconcileAs, WriteJournal, Fault,
     DiffKind, AtBaseline
<1>13. ASSUME RestoreThrows
       PROVE  ManifestBehind'
  BY <1>13, NoneAssumption DEF RestoreThrows, WriteJournal, Fault
<1>14. ASSUME FinishRollback
       PROVE  ManifestBehind'
  BY <1>14, NoneAssumption DEF FinishRollback, WriteJournal, Fault
<1>15. ASSUME StartPromote
       PROVE  ManifestBehind'
  BY <1>15, NoneAssumption DEF StartPromote, ReconcileAs, WriteJournal, Fault, DiffKind,
     AtBaseline
<1>16. ASSUME FinishPromote
       PROVE  ManifestBehind'
  BY <1>16, NoneAssumption DEF FinishPromote, WriteJournal, Fault
<1>17. ASSUME PromoteFails
       PROVE  ManifestBehind'
  BY <1>17, NoneAssumption DEF PromoteFails
<1>18. ASSUME CleanUp
       PROVE  ManifestBehind'
  BY <1>18, NoneAssumption DEF CleanUp, EmptyStorage
<1>19. ASSUME Dispose
       PROVE  ManifestBehind'
  BY <1>19, NoneAssumption DEF Dispose, WriteJournal, Fault, EmptyStorage, Forget
<1>20. ASSUME Crash
       PROVE  ManifestBehind'
  BY <1>20, NoneAssumption DEF Crash, Forget
<1>21. ASSUME Rehydrate
       PROVE  ManifestBehind'
  BY <1>21, NoneAssumption DEF Rehydrate, CanRehydrate
<1>22. CASE UNCHANGED vars
  BY <1>22 DEF vars
<1> QED
  BY <1>1, <1>2, <1>3, <1>4, <1>5, <1>6, <1>7, <1>8, <1>9, <1>10, <1>11, <1>12, <1>13,
     <1>14, <1>15, <1>16, <1>17, <1>18, <1>19, <1>20, <1>21, <1>22 DEF Next

\* What has no record keeps its original content, or its change was not seen.
LEMMA RecordedStep ==
    ASSUME TypeOK, PhaseShape, CreatedWasAbsent, ManifestBehind, RecordsFaithful, Recorded, [Next]_vars
    PROVE  Recorded'
<1> USE DEF TypeOK, PhaseShape, process, call, counters, history, fixed, Live, Settled,
   Kinds, Records, Effects, Nothing, PathsOf, CallPhases, Up, CreatedWasAbsent,
   ManifestBehind, RecordsFaithful, Recorded
<1>1. ASSUME NEW t \in Operations, BeginMutation(t)
      PROVE  Recorded'
  BY <1>1, NoneAssumption, DataAssumption DEF BeginMutation
<1>2. ASSUME NEW p \in Paths, BackUpAndMark(p)
      PROVE  Recorded'
  BY <1>2, NoneAssumption, DataAssumption DEF BackUpAndMark, Backup, VfsKind
<1>3. ASSUME NEW p \in Paths, RestoreOne(p)
      PROVE  Recorded'
  BY <1>3, NoneAssumption, DataAssumption DEF RestoreOne, MayRestore, Held
<1>4. ASSUME NEW p \in Paths, OutsideEdit(p)
      PROVE  Recorded'
  BY <1>4, NoneAssumption, DataAssumption DEF OutsideEdit
<1>5. ASSUME BackupThrows
      PROVE  Recorded'
  BY <1>5, NoneAssumption, DataAssumption DEF BackupThrows
<1>6. ASSUME SaveManifest
      PROVE  Recorded'
  BY <1>6, NoneAssumption, DataAssumption DEF SaveManifest, WriteManifest, Fault, Held
<1>7. ASSUME SaveJournal
      PROVE  Recorded'
  BY <1>7, NoneAssumption, DataAssumption DEF SaveJournal, WriteJournal, Fault
<1>8. ASSUME Apply
      PROVE  Recorded'
  BY <1>8, NoneAssumption, DataAssumption DEF Apply
<1>9. ASSUME ApplyFails
      PROVE  Recorded'
  BY <1>9, NoneAssumption, DataAssumption DEF ApplyFails
<1>10. ASSUME Reconcile
       PROVE  Recorded'
  BY <1>10, NoneAssumption, DataAssumption DEF Reconcile, ReconcileAs, WriteJournal,
     Fault, DiffKind, AtBaseline
<1>11. ASSUME StartRollback
       PROVE  Recorded'
  BY <1>11, NoneAssumption, DataAssumption DEF StartRollback, WriteJournal, Fault
<1>12. ASSUME ReconcileForRollback
       PROVE  Recorded'
  BY <1>12, NoneAssumption, DataAssumption DEF ReconcileForRollback, ReconcileAs,
     WriteJournal, Fault, DiffKind, AtBaseline
<1>13. ASSUME RestoreThrows
       PROVE  Recorded'
  BY <1>13, NoneAssumption, DataAssumption DEF RestoreThrows, WriteJournal, Fault
<1>14. ASSUME FinishRollback
       PROVE  Recorded'
  BY <1>14, NoneAssumption, DataAssumption DEF FinishRollback, WriteJournal, Fault
<1>15. ASSUME StartPromote
       PROVE  Recorded'
  BY <1>15, NoneAssumption, DataAssumption DEF StartPromote, ReconcileAs, WriteJournal,
     Fault, DiffKind, AtBaseline
<1>16. ASSUME FinishPromote
       PROVE  Recorded'
  BY <1>16, NoneAssumption, DataAssumption DEF FinishPromote, WriteJournal, Fault
<1>17. ASSUME PromoteFails
       PROVE  Recorded'
  BY <1>17, NoneAssumption, DataAssumption DEF PromoteFails
<1>18. ASSUME CleanUp
       PROVE  Recorded'
  BY <1>18, NoneAssumption, DataAssumption DEF CleanUp, EmptyStorage
<1>19. ASSUME Dispose
       PROVE  Recorded'
  BY <1>19, NoneAssumption, DataAssumption DEF Dispose, WriteJournal, Fault,
     EmptyStorage, Forget
<1>20. ASSUME Crash
       PROVE  Recorded'
  BY <1>20, NoneAssumption, DataAssumption DEF Crash, Forget
<1>21. ASSUME Rehydrate
       PROVE  Recorded'
  BY <1>21, NoneAssumption, DataAssumption DEF Rehydrate, CanRehydrate
<1>22. CASE UNCHANGED vars
  BY <1>22 DEF vars
<1> QED
  BY <1>1, <1>2, <1>3, <1>4, <1>5, <1>6, <1>7, <1>8, <1>9, <1>10, <1>11, <1>12, <1>13,
     <1>14, <1>15, <1>16, <1>17, <1>18, <1>19, <1>20, <1>21, <1>22 DEF Next

\* A backup is made of a path at its original, and is not replaced.
LEMMA FaithfulStep ==
    ASSUME TypeOK, PhaseShape, ManifestBehind, Recorded, RecordsFaithful, [Next]_vars
    PROVE  RecordsFaithful'
<1> USE DEF TypeOK, PhaseShape, process, call, counters, history, fixed, Live, Settled,
   Kinds, Records, Effects, Nothing, PathsOf, CallPhases, Up, ManifestBehind,
   RecordsFaithful, Recorded, Held
<1>1. ASSUME NEW t \in Operations, BeginMutation(t)
      PROVE  RecordsFaithful'
  BY <1>1, NoneAssumption, DataAssumption DEF BeginMutation
<1>2. ASSUME NEW p \in Paths, BackUpAndMark(p)
      PROVE  RecordsFaithful'
  BY <1>2, NoneAssumption, DataAssumption DEF BackUpAndMark, Backup, VfsKind
<1>3. ASSUME NEW p \in Paths, RestoreOne(p)
      PROVE  RecordsFaithful'
  BY <1>3, NoneAssumption, DataAssumption DEF RestoreOne, MayRestore, Held
<1>4. ASSUME NEW p \in Paths, OutsideEdit(p)
      PROVE  RecordsFaithful'
  BY <1>4, NoneAssumption, DataAssumption DEF OutsideEdit
<1>5. ASSUME BackupThrows
      PROVE  RecordsFaithful'
  BY <1>5, NoneAssumption, DataAssumption DEF BackupThrows
<1>6. ASSUME SaveManifest
      PROVE  RecordsFaithful'
  BY <1>6, NoneAssumption, DataAssumption DEF SaveManifest, WriteManifest, Fault
<1>7. ASSUME SaveJournal
      PROVE  RecordsFaithful'
  BY <1>7, NoneAssumption, DataAssumption DEF SaveJournal, WriteJournal, Fault
<1>8. ASSUME Apply
      PROVE  RecordsFaithful'
  BY <1>8, NoneAssumption, DataAssumption DEF Apply
<1>9. ASSUME ApplyFails
      PROVE  RecordsFaithful'
  BY <1>9, NoneAssumption, DataAssumption DEF ApplyFails
<1>10. ASSUME Reconcile
       PROVE  RecordsFaithful'
  BY <1>10, NoneAssumption, DataAssumption DEF Reconcile, ReconcileAs, WriteJournal,
     Fault, DiffKind, AtBaseline
<1>11. ASSUME StartRollback
       PROVE  RecordsFaithful'
  BY <1>11, NoneAssumption, DataAssumption DEF StartRollback, WriteJournal, Fault
<1>12. ASSUME ReconcileForRollback
       PROVE  RecordsFaithful'
  BY <1>12, NoneAssumption, DataAssumption DEF ReconcileForRollback, ReconcileAs,
     WriteJournal, Fault, DiffKind, AtBaseline
<1>13. ASSUME RestoreThrows
       PROVE  RecordsFaithful'
  BY <1>13, NoneAssumption, DataAssumption DEF RestoreThrows, WriteJournal, Fault
<1>14. ASSUME FinishRollback
       PROVE  RecordsFaithful'
  BY <1>14, NoneAssumption, DataAssumption DEF FinishRollback, WriteJournal, Fault
<1>15. ASSUME StartPromote
       PROVE  RecordsFaithful'
  BY <1>15, NoneAssumption, DataAssumption DEF StartPromote, ReconcileAs, WriteJournal,
     Fault, DiffKind, AtBaseline
<1>16. ASSUME FinishPromote
       PROVE  RecordsFaithful'
  BY <1>16, NoneAssumption, DataAssumption DEF FinishPromote, WriteJournal, Fault
<1>17. ASSUME PromoteFails
       PROVE  RecordsFaithful'
  BY <1>17, NoneAssumption, DataAssumption DEF PromoteFails
<1>18. ASSUME CleanUp
       PROVE  RecordsFaithful'
  BY <1>18, NoneAssumption, DataAssumption DEF CleanUp, EmptyStorage
<1>19. ASSUME Dispose
       PROVE  RecordsFaithful'
  BY <1>19, NoneAssumption, DataAssumption DEF Dispose, WriteJournal, Fault,
     EmptyStorage, Forget
<1>20. ASSUME Crash
       PROVE  RecordsFaithful'
  BY <1>20, NoneAssumption, DataAssumption DEF Crash, Forget
<1>21. ASSUME Rehydrate
       PROVE  RecordsFaithful'
  BY <1>21, NoneAssumption, DataAssumption DEF Rehydrate, CanRehydrate
<1>22. CASE UNCHANGED vars
  BY <1>22 DEF vars
<1> QED
  BY <1>1, <1>2, <1>3, <1>4, <1>5, <1>6, <1>7, <1>8, <1>9, <1>10, <1>11, <1>12, <1>13,
     <1>14, <1>15, <1>16, <1>17, <1>18, <1>19, <1>20, <1>21, <1>22 DEF Next

\* A rollback begins with every path that is not at its original, and strikes a
\* path off when it is.
LEMMA RestoredStep ==
    ASSUME TypeOK, PhaseShape, CreatedWasAbsent, Untouched, RecordsFaithful, Restored, [Next]_vars
    PROVE  Restored'
<1> USE DEF TypeOK, PhaseShape, process, call, counters, history, fixed, Live, Settled,
   Kinds, Records, Effects, Nothing, PathsOf, CallPhases, Up, CreatedWasAbsent,
   Untouched, RecordsFaithful, Restored
<1>1. ASSUME NEW t \in Operations, BeginMutation(t)
      PROVE  Restored'
  BY <1>1, NoneAssumption, DataAssumption DEF BeginMutation
<1>2. ASSUME NEW p \in Paths, BackUpAndMark(p)
      PROVE  Restored'
  BY <1>2, NoneAssumption, DataAssumption DEF BackUpAndMark, Backup, VfsKind
<1>3. ASSUME NEW p \in Paths, RestoreOne(p)
      PROVE  Restored'
  BY <1>3, NoneAssumption, DataAssumption DEF RestoreOne, MayRestore, Held
<1>4. ASSUME NEW p \in Paths, OutsideEdit(p)
      PROVE  Restored'
  BY <1>4, NoneAssumption, DataAssumption DEF OutsideEdit
<1>5. ASSUME BackupThrows
      PROVE  Restored'
  BY <1>5, NoneAssumption, DataAssumption DEF BackupThrows
<1>6. ASSUME SaveManifest
      PROVE  Restored'
  BY <1>6, NoneAssumption, DataAssumption DEF SaveManifest, WriteManifest, Fault
<1>7. ASSUME SaveJournal
      PROVE  Restored'
  BY <1>7, NoneAssumption, DataAssumption DEF SaveJournal, WriteJournal, Fault
<1>8. ASSUME Apply
      PROVE  Restored'
  BY <1>8, NoneAssumption, DataAssumption DEF Apply
<1>9. ASSUME ApplyFails
      PROVE  Restored'
  BY <1>9, NoneAssumption, DataAssumption DEF ApplyFails
<1>10. ASSUME Reconcile
       PROVE  Restored'
  BY <1>10, NoneAssumption, DataAssumption DEF Reconcile, ReconcileAs, WriteJournal,
     Fault, DiffKind, AtBaseline
<1>11. ASSUME StartRollback
       PROVE  Restored'
  BY <1>11, NoneAssumption, DataAssumption DEF StartRollback, WriteJournal, Fault
<1>12. ASSUME ReconcileForRollback
       PROVE  Restored'
  BY <1>12, NoneAssumption, DataAssumption DEF ReconcileForRollback, ReconcileAs,
     WriteJournal, Fault, DiffKind, AtBaseline
<1>13. ASSUME RestoreThrows
       PROVE  Restored'
  BY <1>13, NoneAssumption, DataAssumption DEF RestoreThrows, WriteJournal, Fault
<1>14. ASSUME FinishRollback
       PROVE  Restored'
  BY <1>14, NoneAssumption, DataAssumption DEF FinishRollback, WriteJournal, Fault
<1>15. ASSUME StartPromote
       PROVE  Restored'
  BY <1>15, NoneAssumption, DataAssumption DEF StartPromote, ReconcileAs, WriteJournal,
     Fault, DiffKind, AtBaseline
<1>16. ASSUME FinishPromote
       PROVE  Restored'
  BY <1>16, NoneAssumption, DataAssumption DEF FinishPromote, WriteJournal, Fault
<1>17. ASSUME PromoteFails
       PROVE  Restored'
  BY <1>17, NoneAssumption, DataAssumption DEF PromoteFails
<1>18. ASSUME CleanUp
       PROVE  Restored'
  BY <1>18, NoneAssumption, DataAssumption DEF CleanUp, EmptyStorage
<1>19. ASSUME Dispose
       PROVE  Restored'
  BY <1>19, NoneAssumption, DataAssumption DEF Dispose, WriteJournal, Fault,
     EmptyStorage, Forget
<1>20. ASSUME Crash
       PROVE  Restored'
  BY <1>20, NoneAssumption, DataAssumption DEF Crash, Forget
<1>21. ASSUME Rehydrate
       PROVE  Restored'
  BY <1>21, NoneAssumption, DataAssumption DEF Rehydrate, CanRehydrate
<1>22. CASE UNCHANGED vars
  BY <1>22 DEF vars
<1> QED
  BY <1>1, <1>2, <1>3, <1>4, <1>5, <1>6, <1>7, <1>8, <1>9, <1>10, <1>11, <1>12, <1>13,
     <1>14, <1>15, <1>16, <1>17, <1>18, <1>19, <1>20, <1>21, <1>22 DEF Next

\* Manifest and journal are written before the file system is changed.
LEMMA DurableStep ==
    ASSUME TypeOK, PhaseShape, CreatedWasAbsent, Untouched, ManifestBehind, Recorded, RecordsFaithful, Durable, [Next]_vars
    PROVE  Durable'
<1> USE DEF TypeOK, PhaseShape, process, call, counters, history, fixed, Live, Settled,
   Kinds, Records, Effects, Nothing, PathsOf, CallPhases, Up, CreatedWasAbsent,
   ManifestBehind, Untouched, RecordsFaithful, Recorded, Durable
<1>1. ASSUME NEW t \in Operations, BeginMutation(t)
      PROVE  Durable'
  BY <1>1, NoneAssumption, DataAssumption DEF BeginMutation
<1>2. ASSUME NEW p \in Paths, BackUpAndMark(p)
      PROVE  Durable'
  BY <1>2, NoneAssumption, DataAssumption DEF BackUpAndMark, Backup, VfsKind
<1>3. ASSUME NEW p \in Paths, RestoreOne(p)
      PROVE  Durable'
  BY <1>3, NoneAssumption, DataAssumption DEF RestoreOne, MayRestore, Held
<1>4. ASSUME NEW p \in Paths, OutsideEdit(p)
      PROVE  Durable'
  BY <1>4, NoneAssumption, DataAssumption DEF OutsideEdit
<1>5. ASSUME BackupThrows
      PROVE  Durable'
  BY <1>5, NoneAssumption, DataAssumption DEF BackupThrows
<1>6. ASSUME SaveManifest
      PROVE  Durable'
  BY <1>6, NoneAssumption, DataAssumption DEF SaveManifest, WriteManifest, Fault
<1>7. ASSUME SaveJournal
      PROVE  Durable'
  BY <1>7, NoneAssumption, DataAssumption DEF SaveJournal, WriteJournal, Fault
<1>8. ASSUME Apply
      PROVE  Durable'
  BY <1>8, NoneAssumption, DataAssumption DEF Apply
<1>9. ASSUME ApplyFails
      PROVE  Durable'
  BY <1>9, NoneAssumption, DataAssumption DEF ApplyFails
<1>10. ASSUME Reconcile
       PROVE  Durable'
  BY <1>10, NoneAssumption, DataAssumption DEF Reconcile, ReconcileAs, WriteJournal,
     Fault, DiffKind, AtBaseline
<1>11. ASSUME StartRollback
       PROVE  Durable'
  BY <1>11, NoneAssumption, DataAssumption DEF StartRollback, WriteJournal, Fault
<1>12. ASSUME ReconcileForRollback
       PROVE  Durable'
  BY <1>12, NoneAssumption, DataAssumption DEF ReconcileForRollback, ReconcileAs,
     WriteJournal, Fault, DiffKind, AtBaseline
<1>13. ASSUME RestoreThrows
       PROVE  Durable'
  BY <1>13, NoneAssumption, DataAssumption DEF RestoreThrows, WriteJournal, Fault
<1>14. ASSUME FinishRollback
       PROVE  Durable'
  BY <1>14, NoneAssumption, DataAssumption DEF FinishRollback, WriteJournal, Fault
<1>15. ASSUME StartPromote
       PROVE  Durable'
  BY <1>15, NoneAssumption, DataAssumption DEF StartPromote, ReconcileAs, WriteJournal,
     Fault, DiffKind, AtBaseline
<1>16. ASSUME FinishPromote
       PROVE  Durable'
  BY <1>16, NoneAssumption, DataAssumption DEF FinishPromote, WriteJournal, Fault
<1>17. ASSUME PromoteFails
       PROVE  Durable'
  BY <1>17, NoneAssumption, DataAssumption DEF PromoteFails
<1>18. ASSUME CleanUp
       PROVE  Durable'
  BY <1>18, NoneAssumption, DataAssumption DEF CleanUp, EmptyStorage
<1>19. ASSUME Dispose
       PROVE  Durable'
  BY <1>19, NoneAssumption, DataAssumption DEF Dispose, WriteJournal, Fault,
     EmptyStorage, Forget
<1>20. ASSUME Crash
       PROVE  Durable'
  BY <1>20, NoneAssumption, DataAssumption DEF Crash, Forget
<1>21. ASSUME Rehydrate
       PROVE  Durable'
  BY <1>21, NoneAssumption, DataAssumption DEF Rehydrate, CanRehydrate
<1>22. CASE UNCHANGED vars
  BY <1>22 DEF vars
<1> QED
  BY <1>1, <1>2, <1>3, <1>4, <1>5, <1>6, <1>7, <1>8, <1>9, <1>10, <1>11, <1>12, <1>13,
     <1>14, <1>15, <1>16, <1>17, <1>18, <1>19, <1>20, <1>21, <1>22 DEF Next

-----------------------------------------------------------------------------
(* Theorems. *)

LEMMA InitInv == Init => Inv
<1> SUFFICES ASSUME Init PROVE Inv
  OBVIOUS
<1> USE NoneAssumption, DataAssumption
    DEF Init, Nothing, Live, Settled, Kinds, Records, Effects, PathsOf, CallPhases, Up
<1>1. TypeOK
  BY DEF TypeOK, Contents
<1>2. PhaseShape /\ CreatedWasAbsent /\ ManifestBehind /\ Recorded /\ Untouched
  BY DEF PhaseShape, CreatedWasAbsent, ManifestBehind, Recorded, Untouched
<1>3. RecordsFaithful /\ Restored /\ Durable
  BY DEF RecordsFaithful, Held, Restored, Durable
<1> QED
  BY <1>1, <1>2, <1>3 DEF Inv

LEMMA NextInv == Inv /\ [Next]_vars => Inv'
BY TypeStep, ShapeStep, CreatedStep, UntouchedStep, ManifestStep, RecordedStep,
   FaithfulStep, RestoredStep, DurableStep DEF Inv

LEMMA Invariance == Spec => []Inv
BY InitInv, NextInv, PTL DEF Spec

\* Variables keep their types.
THEOREM TypeCorrect == Spec => []TypeOK
<1>1. Inv => TypeOK
  BY DEF Inv
<1> QED
  BY <1>1, Invariance, PTL

\* No record contradicts the snapshot, whichever process made it and wherever
\* crashes fell: not between a backup file and its manifest, not between the
\* manifest and the change.
THEOREM BackupsSurviveCrashes == Spec => []RecordsFaithful
<1>1. Inv => RecordsFaithful
  BY DEF Inv
<1> QED
  BY <1>1, Invariance, PTL

\* Only a rollback that has restored every listed path disposes of the attempt.
LEMMA RollbackStep ==
    ASSUME Inv, [Next]_vars, status = "rolling-back", status' = "disposed",
           NEW p \in Paths \ blind
    PROVE  disk[p] = original[p]
<1>1. Up
  BY NoneAssumption DEF Inv, PhaseShape, Up, Live
<1>2. phase = "restore"
  BY <1>1 DEF Inv, TypeOK, PhaseShape, Up, CallPhases, Live, Settled
<1>3. FinishRollback
  BY <1>1, <1>2, NoneAssumption
     DEF Next, vars, process, BeginMutation, BackUpAndMark, RestoreOne, OutsideEdit,
         BackupThrows, SaveManifest, SaveJournal, Apply, ApplyFails, Reconcile,
         StartRollback, ReconcileForRollback, RestoreThrows, FinishRollback,
         StartPromote, FinishPromote, PromoteFails, CleanUp, Dispose, Crash, Forget,
         Rehydrate, Up, Live, Settled
<1> QED
  BY <1>2, <1>3 DEF Inv, Restored, FinishRollback, Nothing

\* A rollback that succeeds puts back every path whose changes were seen, in
\* the first process or in a later one, also when an earlier rollback crashed
\* half way and when journal writes were lost.
THEOREM RollbackIsComplete == Spec => RollbackRestores
<1>1. Inv /\ [Next]_vars =>
        [status = "rolling-back" /\ status' = "disposed" =>
            \A p \in Paths \ blind : disk[p] = original[p]]_vars
  BY RollbackStep
<1> QED
  BY <1>1, Invariance, PTL DEF Spec, RollbackRestores

\* Whatever a later process finds changed by a patched call is in the journal
\* and in the manifest it reads.
THEOREM JournalIsAhead == Spec => []WriteAhead
<1>1. Inv => WriteAhead
  BY DEF Inv, Durable, WriteAhead
<1> QED
  BY <1>1, Invariance, PTL

\* An attempt that is offered for rehydration can be rolled back.
THEOREM RehydrationIsSafe == Spec => []RehydratableIsRestorable
<1>1. Inv => RehydratableIsRestorable
  <2> SUFFICES ASSUME Inv, phase = "down", faults = 0, CanRehydrate,
                      NEW p \in Paths \ (blind \cup undone \cup outside),
                      disk[p] # original[p], original[p] # Absent
               PROVE  manifest[p] = "file" /\ files[p] = original[p]
    BY DEF RehydratableIsRestorable
  <2>1. journal.dirty[p] # None /\ manifest[p] # None
    BY DEF Inv, Durable, CanRehydrate
  <2>2. journal.dirty[p] \in {"modified", "deleted"}
    BY <2>1 DEF Inv, TypeOK, Kinds, CreatedWasAbsent
  <2>3. HasDurableBackup(p)
    BY <2>2 DEF CanRehydrate
  <2>4. manifest[p] # "missing"
    BY DEF Inv, Recorded
  <2> QED
    BY <2>3, <2>4 DEF HasDurableBackup, Inv, RecordsFaithful
<1> QED
  BY <1>1, Invariance, PTL

\* What was promoted, rolled back or disposed of is never rolled back again by
\* a later process.
THEOREM SettledForGood == Spec => []SettledNotRevived
<1>1. Inv => SettledNotRevived
  BY DEF Inv, Durable, SettledNotRevived, CanRehydrate, Live, Settled
<1> QED
  BY <1>1, Invariance, PTL
=============================================================================
