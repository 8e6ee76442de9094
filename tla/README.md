# Formal model of Hyperion-Delta

Hyperion-Delta gives a coding agent checkpoints of a workspace: `snapshot()` or
`fork()` starts one, the files an agent changes are recorded and backed up as
they change, and `rollback()`, `dropBranch()`, `promote()` or `promoteBranch()`
end it. This directory holds TLA+ models of that program, the TLC runs that
check them on small instances, and proofs for instances of every size.
Paths of the form `workspace.ts:549` are under `src/src/` (or
`src/src/internal/`), the models' exact source lines are in `PROJECT.json` under
`map`.

## 1. The system

| component | state | operations |
|---|---|---|
| **Workspace operations** `workspace.ts` | `branchOperationLocks`, `branchLifecycleQueue`, `checkpointStorage`, `disposed`; per checkpoint `status`, `parentId`, `lock.locked` | `snapshot`, `fork`, `rehydrateAttempt`, `runInBranch`, `promoteBranch`, `promote`, `dropBranch`, `rollback`, `dispose` |
| **Checkpoint store** `checkpoint-store.ts` | id → checkpoint (baseline, dirty map, status) | create, restore, collect disposed ones, capacity test |
| **Dirty tracking** `workspace.ts`, `reconciliation-engine.ts`, `state.ts` | dirty map of every checkpoint | `recordVfsMutations`, `undoVfsMutations`, `reconcile` |
| **Rollback engine** `rollback-engine.ts` | checkpoint lock and status | `rollback`, `restoreDirtyEntries` |
| **Branch merge engine** `branch-merge-engine.ts` | none | conflict plan between a branch and its contenders |
| **File system interceptor** `vfs-interceptor.ts` | the functions found at install time, descriptor → path, suppressed stream paths | `install`, `uninstall`, the wrapper of each `fs` function |
| **Storage strategies** `*-strategy.ts`, `storage-factory.ts` | backup records, memory records, byte count, `linksUnsafe` | `backupFile`, `restoreFile`, `readBackupFile`, `deleteCreatedPath`, `cleanup`, `hydrateBackupRecords` |
| **Attempt journal** `attempt-journal.ts` | `journal.json`, `backups.json` per checkpoint | write, read, `recoverAttempts`, rehydration verdict |
| **Agent session** `agent-session.ts` | `activeAttemptCheckpointId`, children, timers | `runAttempt`, `exec`, and delegation to the workspace |
| **Session GC, lifecycle hooks** `session-gc.ts`, `lifecycle.ts` | session directories and their locks; registered process handlers | collect stale sessions; emergency cleanup on exit, signals, uncaught errors |
| **Ghost directory cleaner** `ghost-directory-cleaner.ts` | none | remove the empty directories above a deleted path |
| **Declared outputs, tracked paths** `workspace.ts` | `toolOutputDeclarations` of the workspace and of each checkpoint, `manualTrackedPaths` | `declareToolOutputs`, `track` |
| **Environment, paths, ignore patterns, patch export, diagnostics** | none of their own | helpers and queries |

How they interact. The interceptor calls the workspace *before* a patched `fs`
function (record, back up, journal) and again if the function fails (undo); the
workspace hands the change to the most recently created live checkpoint and to
nobody else. The workspace calls the storage strategy of a checkpoint for a
backup, the journal store for a durable copy of status, dirty set and backup
records, the state engine for a capture of the tree, the merge engine for a plan
and the rollback engine for a rollback. The agent session calls the workspace
and listens to events of child processes, whose writes nobody intercepts: a
reconcile finds them afterwards. A later process reads the journal and
rehydrates the checkpoint.

What is hard here:

* **Interleaving.** The program is single threaded but its operations await:
  the lifecycle queue, the reconcile, a user callback. At each await any other
  operation, patched call, timer or child event may run.
  `promote()`, `snapshot()`, `dispose()` and `reconcile()` take no part in the
  queue.
* **Locks of three kinds** that must be given back on every failing path; the
  queue is a chain of promises without owner or length.
* **Partial knowledge.** A patched call is recorded by one checkpoint; changes
  by children are seen late, and by then the old content may be gone.
* **Partial failure** of a rollback, a backup, a journal write, a cleanup.
* **Crashes** between any two of: backup, manifest, journal, mutation; half way
  through a rollback; between a promotion and its journal.
* **Late events**: a child that exits after its timeout, or after its attempt
  was rolled back; the callback of a `close` whose number is in use again.
* **Shared things**: one `fs` module patched by several workspaces, one workspace
  directory used by several processes, which collect each other's leftovers, one
  file under two names or held open while it is renamed.
* **Trees**: a call names one path and changes everything below it.

What makes each component correct:

* workspace operations: mutual exclusion in the lifecycle section, no leaked
  lock, final states are final, storage stays while a checkpoint can be rolled
  back, capacity, every call returns;
* dirty tracking and rollback: a backup holds the content at the snapshot, a
  rollback restores every path whose change it could see, and an integrity error
  is never spurious;
* journal and recovery: write-ahead, recovery never accepts what it cannot
  restore, settled attempts are not revived;
* storage: budgets hold, no write to the workspace reaches a backup (but for
  files that had a second name or were open when they were linked), the first
  backup of a path is the one that is restored;
* agent session: attempts never overlap, a result comes after the reconcile, a
  failed attempt is cleaned up;
* interceptor: the patched functions are those of the installed workspaces, a
  descriptor's path is its own, suppression ends with its stream, and a patched
  change goes unreported only through gaps that can be named;
* session collection and process hooks: what is in use stays, what is abandoned
  goes, and an orderly end of a process leaves no interceptor, no storage in
  use, no file in tmpfs and no session directory, unless a removal failed;
* rollback over a tree: files, directories and nothing else come back, ghost
  directories go, ignored files stay.

The hazards behind these are listed one by one, at their lines, in
`PROJECT.json` under `hazards`.

## 2. Modules

```
FifoMutex  <------(refinement)------ BranchLifecycle <--- MCBranchLifecycle
BackupStore <-----(refinement)------ StorageStrategies <- MCStorageStrategies
                                     DirtyTracking <----- MCDirtyTracking
                                     AttemptRecovery <--- MCAttemptRecovery
                                     TreeRollback <------ MCTreeRollback
                                     AgentSession <------ MCAgentSession
                                     Interceptor <------- MCInterceptor
                                     SessionCleanup <---- MCSessionCleanup
```

Each of the eight models `M` has its theorems in `MProofs`, which extends `M` and
holds the inductive invariant, the lemmas and the proofs.

The models share no variables. Each looks at one question and takes from the
others what it needs as stated in its header: DirtyTracking and AgentSession use
that one rollback runs at a time (`MutualExclusion`, proved of BranchLifecycle), DirtyTracking uses
that a backup keeps its content (BackupStore, implemented by
StorageStrategies, but for its exposed backups) and that every patched call is
reported before it changes anything (`ChangesHeard` of Interceptor, with its exceptions), AttemptRecovery
and TreeRollback leave interleaving inside one process to DirtyTracking.

**BranchLifecycle** cuts each asynchronous operation at its awaits; the text
between two awaits is one action. A *call* is one invocation; `pc` says at which
await it stands. `Begin*` actions are the synchronous openings (a call whose
opening checks throw changes nothing and is left out), `Enter*` the turn of a
call in `withBranchLifecycleLock`, `Restore*`, `Plan*` and `Promote*` what comes
after the reconcile, `CleanStorage` the cleanup that follows a rollback,
`LeaveQueue` and `ReleaseOpLock` the two `finally` blocks.

| variable | code |
|---|---|
| `status`, `parent`, `lock` | `StoredCheckpoint.status`, `.parentId`, `.lock.locked` |
| `store`, `storage` | the keys of `CheckpointStore.checkpoints` and `checkpointStorage` |
| `opLocks` | `branchOperationLocks` |
| `tail`, `prev`, `resolved` | `branchLifecycleQueue`; the `previous` each call awaits; the released promises |
| `goal` | `options.targetCheckpointId`, then the target of the plan |
| `arrivals` | history: the order in which calls joined the queue |

What depends on the contents of files (conflict or not, an I/O error or not) is
a free choice here. `Rehydrate` enters an attempt of an earlier process; that
its journal allows it is AttemptRecovery's business.

**FifoMutex** is what the promise chain is meant to be: a line, and its head
inside. The code keeps neither; BranchLifecycle maps `line` to the calls that
joined and have not released (`Line`: the arrivals after the first
`Cardinality(resolved)` of them), `inside` to the calls in the section.

**DirtyTracking** has the files (data and stamp), and for every checkpoint its
baseline, dirty map and backups. `VfsStart` is everything `recordVfsMutations`
does before the patched function runs, `VfsFinish` and `VfsFail` its two ends
(success writes the file, failure calls `undoVfsMutations`); `ChildWrite` and
`ChildDelete` go past the interceptor; `Reconcile` captures and diffs; a
rollback is `StartRollback` (plan, reconcile unless it is a drop) and
`FinishRollback` or `FailRollback`, with patched calls and child processes in
between. `original`, `blind` and `gap` are history: what the snapshot saw, which
paths changed while a checkpoint had no backup of them, and what changed after
the rollback looked.

**AttemptRecovery** has one attempt over several processes, cut at every durable
write: backup file, `backups.json`, `journal.json`, the mutation, each restored
path. `Crash` may come between any two, `OutsideEdit` while no process is there,
and a best-effort write may be lost (`faults`). `CanRehydrate` is the verdict of
`getRehydrationStatus` and `assertRehydratable`.

**StorageStrategies** has files as inodes, because a hard link shares one. It
covers the hot buffer over a strategy that links (posix, ntfs) or copies (pure
manifest, tmpfs; `linksUnsafe` from the start). A failing link, materialization
or copy is a choice inside the action. The workspace may hold hard links before
the first backup and get them later (`Link`; `fs.link` is patched), files are
renamed (`Move`) and held open (`OpenFile`, `WriteByDescriptor`). `exposed` is
history: the paths that were backed up by a link while something else in the
workspace had the inode. **BackupStore** is the promise: the first
backup of a path keeps its content, a restore puts it back, nothing else
changes either; except that a backup may be exposed when it is made, and then
changes with the workspace.

**AgentSession** has the attempts of one session and the children of `exec()`,
each of which may create a file, hang, ignore the signal of a timeout, and
outlive its attempt. `OnClose`, `OnError` and `OnTimeout` are the event
handlers; `SettleClose` is what follows the reconcile in `onClose`.

**TreeRollback** has one checkpoint over a tree. A path is the sequence of its
names, a node a file (the original whose content it has, and a stamp) or a
directory (whose stamp changes with its entries, as its mtime does). `WriteFile`,
`MakeDir`, `RemoveTree` and `Rename` are file system calls, each of them made by
a patched function that succeeds or fails (`Patched`, `PatchedFails`) or by
somebody nobody hears (`ByChild`). A call reports the paths it names: those below
them are not recorded. `DeclareFor`, `Declare` and `Track` are
`declareToolOutputs()` with and without a checkpoint, and `track()`. A rollback is one
step, since `restoreDirtyEntries` is synchronous: `RunOf` is its state after `k`
entries, a recursive function that applies `Pass` to the `First` entry still to
do, in the order of the code (by kind, then by `Length`, a constant of the model
because paths are compared as strings there and are sequences of names here).
`Undo` is what it does with one entry, `Ghosts` the climb of the cleaner,
`CanRestore` where a rename or mkdir must fail.
`RollbackFails` stops the run after any entry. `blind` and `late` are history:
changes made before there was a backup, and paths declared after the snapshot.

**Interceptor** has the wrappers in the `fs` module as a chain, since each
installation keeps the function it finds and puts its own in front; `Install` and
`Uninstall` do what `install()` and `uninstall()` do to all patched functions at
once. `descriptorPaths`, `streamPathSuppressions` and `streamSuppressionOwners`
are the fields of these names. `OpenRuns`, `OpenCallback`, `CloseRuns` and
`CloseCallback` are the file system and the callback of an asynchronous `open` or
`close`; write streams open, write and end by themselves. `at` is the path at which the
file behind a descriptor is now: `Rename` and `Remove` change it, and the stored
path does not follow. `OpenSync` and `OpenRuns` may create or empty the file
(`OpenChanges`), `WriteByNumber` is `writeFile` on a descriptor. A workspace
*watches* from its latest snapshot on; `missed` is history: who was not told of a
patched change, and how that change was made. `Gaps` are the five ways in which
the code does miss one.

**SessionCleanup** has processes with host and number, the session directories
with their locks, temporary files, and where the backup files of a workspace are:
in tmpfs, where `cleanup()` removes them, or below the session root, where it does
nothing (`CleanStorage`). A collection (`runStartupGarbageCollection`) is cut at
every directory it judges and removes, because other processes go on in between;
inside one process the operation is synchronous, which `busy` says. `Exit`,
`Signal`, `UncaughtException`, `UnhandledRejection` and `Dispose` are the ways into
`emergencyCleanupSync`, `Kill` the end without any. `late` is history: the
directories that had no readable lock when they were a day old, which a
collection takes for abandoned whoever works in them; `foreign` those removed
from another host; `revived` the workspaces used after their cleanup; `due` what
was abandoned when a collection began; `stuck`, `stuckTemps` and `leaked` the
directories, temporary files and tmpfs files whose removal failed. `ignored` are
the temporary files in directories that some workspace ignores: a collection may
pass them over (`RemoveTemps`).

Definitions whose names end in `_<Suffix>` are variants of the definition after
them with a plausible bug; no specification uses them. They show for each
property that it can fail.

## 3. Runs

| run | instance | distinct states | shows |
|---|---|---|---|
| `lifecycle_safety` | 3 calls, 2 checkpoints, capacity 2 | 405 309 (symmetry) | locks are owned, storage kept, final states final, targets and running branches kept; the promise chain implements FifoMutex |
| `lifecycle_liveness` | 2 calls, 2 checkpoints, capacity 1 | 49 672 | every call returns; capacity respected |
| `dirty_tracking` | 1 path, 2 checkpoints, 2 data, clock ≤ 3 | about 1 106 000 (symmetry, view) | backups faithful, integrity errors not spurious, rollback restores, with nested and sibling checkpoints |
| `tree_rollback` | 5 paths in 3 levels, 1 of them ignored, 3 trees to begin with, 3 steps and a rollback | about 189 000 (view) | trees come back, also when a rollback fails half way and is tried again; ghost directories go; ignored files stay |
| `attempt_recovery` | 2 paths, 3 edits, 1 lost write, 3 processes | 2 647 162 (symmetry) | records never mixed up, write-ahead, recovery sound, settled attempts stay settled |
| `storage_strategies` | 3 paths, 2 contents of 1 and 2 bytes, 8 inodes, 1 open file; budgets of 3 bytes, 2 files, 2 bytes a file | about 29 000 (symmetry, view) | budgets, detached backups, implementation of BackupStore |
| `agent_session` | 2 attempts, 2 children | about 1 292 000 (symmetry, view) | no overlap, results after the reconcile, clean rollback |
| `interceptor` | 2 workspaces, 2 paths, 1 descriptor number, 1 stream, 3 installations | about 1 359 000 (symmetry, view) | hooks match installations, descriptor paths are true, suppression ends, a patched change is missed through the five gaps only |
| `session_cleanup` | 2 processes, 2 sessions, 2 hosts, 2 process numbers, 2 snapshots | about 897 000 (symmetry, view) | live sessions keep their directory, abandoned things go, an orderly end leaves no interceptor, storage in use, tmpfs file or session directory but what could not be removed |
| `partial_rollback` | 2 paths, 1 checkpoint | violated | finding 1 |
| `sibling_work` | 1 path, 3 checkpoints | violated | finding 2 |
| `volatile_recovery` | as `attempt_recovery` | violated | finding 3 |

Why the bounds are enough for what they ask:

* Two checkpoints give a target and a branch, a parent and a child, or two
  siblings under a parent that is not in the store; three calls give one inside
  the section, one waiting, and one outside it (a `promote()` or a
  `runInBranch()`), and a queue with two waiting behind one another. Each call
  is used once, and an action of a further call is one of these.
* `lifecycle_liveness` has capacity 1 so that a failing rollback competes with a
  new snapshot for the only place. It has no symmetry, since symmetry is unsound
  for liveness.
* One path and two checkpoints show every order in which a path is changed,
  backed up, reconciled and rolled back by two checkpoints. Several paths meet
  only in a rollback that fails half way, in renames and in directories, where a
  second checkpoint adds nothing: that is `tree_rollback`.
  `MaxClock` = 3 allows a change before a backup, one after it, and the one the
  rollback makes or one that races it.
* `MaxLives` = 3: an attempt crashes in its rollback, is rehydrated, crashes and
  is rehydrated again. `MaxFaults` = 1: one lost write; properties that do not
  survive one say `faults = 0`.
* Eight inodes are one for each path and backup of three paths, one that only a
  descriptor holds, and one for the copy in progress. Two medium files exceed the
  bytes, three small ones the number of files. A file larger than `MaxFileBytes`
  is not in the run: it spills as one that finds the buffer full does, and
  `BudgetsAreKept` covers any budgets and sizes.
* `tree_rollback`: a directory with two more in it, each with place for a file,
  is the smallest tree with a climb of two levels, a sibling that stops it, and a
  directory to rename onto another. Three steps let a rollback fail once after
  one or two changes before the last one. The three trees it begins with are an
  empty one, one without the ignored file and one with no other file. An
  instance with the directory of the ignored file ignored as well takes too long
  to be kept as a run; the theorems of section 5 cover it.
* `interceptor`: one number is enough for its reuse; three installations are one
  workspace coming back after another came; one flight is one callback that runs
  after the number was given out again; two paths are one for an open file to be
  renamed to, or to be replaced from.
* `session_cleanup`: two processes are a collector and an owner, two hosts and two
  numbers let a number be given out again and be in use on another host. A
  process has one temporary file, its latest: for a collection an earlier one
  that stayed is as that of another process.
* Two attempts and two children: a child of the first attempt lives on into the
  second, beside a child of the second.

Symmetry is used for sets of interchangeable model values in runs without
liveness properties. A `VIEW` drops what no action and no property reads any
more: what a settled checkpoint recorded, how a finished attempt ended, which
inode numbers are used, through which gap a change was missed, what an ended
workspace was used for once it is known to have ended clean; the
counts of these runs vary a little with the order of the search. Deadlock is not checked: clients may stop calling, and
each call, checkpoint and child of an instance is used once.

**Fairness.** Only `FairSpec` of BranchLifecycle has fairness: weak fairness on
`Resume(k)`, the next segment of a call that has begun. The event loop runs the
continuation of every settled promise, and the awaited reconcile and restores
are finite file system work. It also assumes that the callback given to
`runInBranch()` settles, which is its author's duty. Nothing is assumed of
clients: no call need ever begin.

## 4. Findings

1. **A rollback that fails may have rolled back part of the workspace**
   (`partial_rollback`). `restoreDirtyEntries` deletes created files and
   restores earlier entries before it meets an entry without backup record
   (`rollback-engine.ts:53`). `docs/src/content/docs/architecture/safety.md:84`
   says "the workspace is not partially rolled back", and `README.md:208` that
   a missing record fails "instead of ... partially restoring the workspace".
2. **A rollback may revert a live sibling's work** (`sibling_work`). Conflicts
   are planned from the dirty sets before the reconcile of the same rollback
   (`workspace.ts:557`); what the reconcile adds is not compared.
   `README.md:87` says rollback "rejects overlapping sibling-branch conflicts".
3. **Recovery may accept an attempt whose backup was volatile**
   (`volatile_recovery`). A patched call that fails drops the dirty entry of its
   path although an earlier call on it succeeded (`workspace.ts:1136`); the
   next journal omits the path, so that after a crash nothing asks for its
   backup, which was in memory. `README.md:140` says volatile backups
   "intentionally block rehydration after restart".

Noted without a run of their own: a path that a child process changed before
the first patched write is backed up with the changed content, which a rollback
then restores without an error (`BackupsFaithful` excludes just these paths by
`blind`); `dropBranch()` after an undo leaves the change the undo forgot;
`rehydrateAttempt()` of an id that is known returns it even if that checkpoint
is settled (`workspace.ts:691`); a child whose `exec()` timed out may write
after the rollback of its attempt (`RolledBackClean` excludes this by `gap`).

Of trees (`RollbackSound` excludes each by what the checkpoint cannot know, or
speaks only of rollbacks that succeed):

* A patched rename or removal of a directory backs up the directory, not the
  files in it (`pure-manifest-strategy.ts:57`). The rollback deletes the new
  directory, which has the only copy of the files, and then throws for the files
  that have no backup. The same happens to a file a child process renamed.
* A file that a child process replaced by a directory is passed over without an
  error (`rollback-engine.ts:62`): the entry says "directory" and has no backup.
* A file that patched calls replaced by a directory, or the reverse, can not be
  rolled back: the restore renames a file over a directory, or makes a directory
  where a file is, and throws each time.
* An ignored file that is declared without a checkpoint, or tracked, after the
  snapshot is taken for created, and the rollback deletes it
  (`workspace.ts:1028`). A declaration with a checkpoint makes the current state
  the baseline (`workspace.ts:1003`), and earlier changes stay.
* Created directories are deleted with all they hold, ignored files and, in a
  drop, unrecorded ones too; `docs/src/content/docs/architecture/safety.md:45`
  says "no recursive cleanup outside the dirty set".
* The order of `dirtyEntriesByKind`, longest path first, does not matter: with the
  opposite order the run finds no difference, as removal and mkdir are recursive.

Of interceptors and sessions:

* Workspaces that are uninstalled in another order than the reverse of their
  installation leave wrappers of one that is gone, or take away those of one that
  is installed; `ARCHITECTURE.md:128` says uninstalling "restores the original
  Node module functions exactly once". `HooksMatch` has the premise `lifo`.
* A workspace that was used after an emergency cleanup its process survived is
  not cleaned up by `dispose()` (`EndsClean` excludes these by `revived`).
* The process number in a lock is looked up on the own host whatever host the
  lock names, so that a live session of another host may be removed (`foreign`);
  `ARCHITECTURE.md:502` speaks of sessions "whose owner process no longer exists".
* Temporary files of other processes are removed although a restore may be about
  to rename them (`session-gc.ts:175`): the restore then throws. Those in ignored
  directories are never removed (`session-gc.ts:164`); the default patterns have
  `.hyperion/**` and with it the journals' own temporary files
  (`AbandonedCollected` excludes them by `ignored`).
* Backup files below the session root stay after every end, orderly or not:
  `cleanup()` of those strategies is empty, and the comment there, "lifecycle GC
  owns persistent cleanup" (`pure-manifest-strategy.ts:141`), names a collector
  that never looks at them. Rehydration needs them.
* `docs/src/content/docs/architecture/strategies.md:45` says "Startup GC removes
  stale tmpfs session directories"; the collection looks below the session root
  only. Files in tmpfs go with `cleanup()`, which swallows its failures
  (`EndsClean` excludes these by `leaked`) and leaves the directory of the
  session; those of a killed process stay.
* An open that creates or empties a file is not reported, nor is `writeFile` on a
  descriptor, and a write through a descriptor is reported under the path the
  file was opened by even after a rename (`vfs-interceptor.ts:366-466`). These
  are gaps of `ChangesHeard`; a reconcile finds the changes, but by then there is
  no backup.

Of storage: the link strategies materialize the one name they back up. If the
file has a second name, or is open, at that moment, a later write through either
changes the backup (`BackupsDetached` excludes these by `exposed`), although
`README.md:136` and `docs/src/content/docs/architecture/strategies.md:55` say that
materializing is "so later writes cannot mutate the backup inode". It also severs
the user's own hard link: the path backed up is a file of its own afterwards.

## 5. Proofs

For every safety property, action property and refinement that a passing run
checks there is a theorem, for any sets of calls, checkpoints, paths, processes
and so on, and any bounds. The first step was always the same: let TLC check the
property and the conjuncts of the inductive invariant on the instance of the run,
then prove that the initial states satisfy the invariant, that every action keeps
each of its conjuncts (one lemma `...Step` per conjunct, with one step per
action), and that it implies the property.

The proofs assume what the named `ASSUME`s of the models say, and TLC evaluates
these for the constants of each run. They are of four kinds: bounds are natural
numbers; the values for "none", "absent" and "pending" are not among the
things they stand beside; `Checkpoints` of DirtyTracking and `Paths` of
TreeRollback are finite (a program makes finitely many, and an ordering has to
have a last one); and paths of TreeRollback are non-empty sequences closed under
parents, with `Length`, their length as strings, larger below than above, and
what is below an ignored path ignored and what has paths below it a directory.
None is about the behaviour of the program.

| module | theorems | inductive invariant, and why the properties alone are not inductive |
|---|---|---|
| `BranchLifecycleProofs` | `Invariance`, `TypeCorrect`, `MutualExclusion`, `OperationLocks`, `CheckpointLocks`, `BackupsKept`, `TargetsKept`, `RunsKept`, `SettledForGood`, `Capacity`, `LineIsWaiting`, `QueueIsFair` | `CallShape`, `Chain`, `Custody`: below |
| `DirtyTrackingProofs` | `TypeCorrect`, `BackupsAreOriginals`, `ErrorsAreReal`, `RollbackIsFaithful` | `Ledger`: a stat that is the baseline's means the content of the snapshot; `Unseen`: a path without a backup whose changes were seen has not changed; `Swept`: what the rollback in progress does not list and nobody touched since is at its original |
| `AttemptRecoveryProofs` | `TypeCorrect`, `BackupsSurviveCrashes`, `JournalIsAhead`, `RehydrationIsSafe`, `RollbackIsComplete`, `SettledForGood` | `PhaseShape` ties phase, status and pending paths; `Recorded` says of memory while the process is up, and of the manifest while it is down, that a path without a record is unchanged; `Durable` says the same of the journal as long as no write was lost |
| `StorageStrategiesProofs` | `TypeCorrect`, `LinksAreSafe`, `BudgetsAreKept`, `StrategiesKeepBackups` | `RecordsShape`: a path has one record and a backup file only with it; `BackupsDetached` is kept together with it, since a name or a descriptor can only come by an inode that is free or that another name has; the accounts of bytes and files |
| `TreeRollbackProofs` | `TypeCorrect`, `KnowledgeIsRight`, `RollbackIsSound` | `KnownRight`, `BaselineRight`, `EntriesRight`: below |
| `AgentSessionProofs` | `TypeCorrect`, `AttemptsExclude`, `ResultsAreReconciled`, `RollbackIsClean` | `OneRollback`; `Swept`: no file appears during a rollback without being in the gap; `Reported`: what a child wrote is in the dirty set once its close is handled |
| `SessionCleanupProofs` | `TypeCorrect`, `LiveDirectoriesStay`, `CollectionsComplete`, `EndsAreClean` | `Doomed` and `Owed`: what a collection may rely on between its judgement of a directory and the removal, though other processes start, end and collect in between; `Cleaned` and `Registered`: what emergency cleanup leaves is excused, and it will run for every workspace that has not had it |
| `InterceptorProofs` | `TypeCorrect`, `HooksAreRight`, `MappingIsTrue`, `SuppressionIsBounded`, `NothingIsMissed` | `Holders`: a descriptor number has one holder at most, though it is given out again before the callback of its close; `StreamsMatch`; `MappedTrue`; `Informed`: who is not deaf to a descriptor has the path it was opened by; `Told`: who was told of a stream has its path |

**The lifecycle.** `CallShape` says which operations pass through which label;
without it `OpLockOwned` says nothing of whose id a `finally` block removes.
`Chain` says that the promise a call awaits is that of its predecessor in
`arrivals`, that a promise is resolved exactly when its call is past the section,
and that a call is in the section only if all its predecessors are resolved.
Mutual exclusion follows from this alone: of two calls inside, the earlier one
would be both resolved and inside. `Custody` says what the holder of
`checkpoint.lock` may rely on; it makes a second rollback, a promotion and a plan
against one checkpoint exclude each other although they use different locks.
`Capacity` needs also that the store is finite, since `Cardinality` says nothing
of an infinite set. `QueueIsFair` is the refinement of FifoMutex: `Front` says that
the released calls are exactly the first `Cardinality(resolved)` arrivals, so
that the line is a suffix; a call that joins appends to it, the one inside
is its head, and the one that leaves takes the head away. `LineIsWaiting` says of
that line, in terms of the calls alone, that it is what it is meant to be: each
call that joined and has not left is there once, in the order of `JoinedBefore`,
and the one in the section is first.

**Storage.** `StrategiesKeepBackups` is the refinement of BackupStore, for every
strategy at once: a backup by link, by copy or in memory is `Backup`, a restore puts
the kept content back, and nothing else changes what a backup holds, because
`BackupsDetached` (`LinksAreSafe`) is invariant: `ChangeStep` shows of every
change of the workspace, whichever names share inodes, that only exposed backups
change with it. `BudgetsAreKept` contains a sum
over a set, which is a fold that chooses its elements in an order nobody knows;
the proof shows that the sum is the number of pairs of a buffered path and one of
its bytes, and of those it is easy to say what one more path adds.

**Rollback over a tree.** A rollback is one step that runs a loop, so the hard
part is about the loop, which is a recursive function. `RunOfKeeps` is its
induction principle: a set of states of the loop that holds `Start` and is kept by
every `Pass` holds `RunOf(e, k)` for all `k`. It takes a set, not a predicate, and
is proved by a smallest counterexample in the natural numbers, since an induction
theorem with an operator parameter is out of the provers' reach. With it
`LoopKeepsRight` says that no entry undone takes a path away from what it was,
if the checkpoint knows the paths above it (when it existed) or below it (when it
did not); `OwnTurn` and `LoopPutsRight` say that the turn of its own entry
brings it there; `LoopKeepsHeld` that a directory only created paths were in is
gone or holds something. What the checkpoint knows is the invariant: `KnownRight`
says that a backup of a path it was told of in time is the original, and that such
a path without a backup is unchanged, `BaselineRight` the same of the baseline,
`EntriesRight` that the dirty map agrees with both. `KnowledgeIsRight` says that a
rollback that failed half way, after any entry, keeps this, which is why it can be
tried again. `TypeCorrect` is not obvious here: it contains that the workspace
stays a tree, whatever is moved, removed or restored.

**Interceptor.** `OnceEach` shows that, as long as interceptors are removed in the
reverse order, the chain has each wrapper once and the wrapper in front is the one
to be removed. `SuppressionEnds` compares a counter with the number of
streams that are still writing; `ReleaseCounts` and `CreateCounts` show that both
change together, and `FewStreams` that the number is one. For `ChangesHeard`,
`HeardStep` shows of every action that changes a file that a workspace with an
interceptor either has the path of the change or that the action names its gap;
`MappingTrue` ties what is reported to the path a file was opened by, and `Moved`
is exactly the case in which that is not the path of the change.

**Session collection.** The collector works on a listing and a judgement that
other processes may have overtaken. `Owed` follows each thing that was abandoned
when a collection began: it is still to be judged, is doomed, is gone, or could
not be removed. `CleanupEffect` and `StorageEffect` say what one emergency cleanup
leaves, `EndEffect` and `DisposeEffect` for which workspaces each way of ending
runs it.

What remains only model-checked:

* `CallsReturn`, since liveness under fairness and `ENABLED` are outside the
  prover's reach.
* The properties of the runs that expect a violation, which do not hold.
* That the variants `_<Suffix>` break the properties.

A proof is relative to its model: that the atomic steps and the abstractions of
sections 2 and 6 are those of the code was checked by reading.

## 6. Not modelled

* Symbolic links and modes: a chmod counts as a modification.
* Hard links outside of StorageStrategies: Interceptor, DirtyTracking and
  TreeRollback take a path for a file with one name. A write through a second
  name is, for the first one, a change by a child process; a backup that it
  reaches (`exposed`) is outside of what their theorems say.
* Calls of Interceptor on directories, and streams on a descriptor given in their
  options.
* Several checkpoints over a tree: DirtyTracking has the checkpoints, TreeRollback
  the tree.
* The git index, glob patterns, path normalization, environment probes, patch
  text, diagnostics: I/O and pure string work without control of its own.
* The list of ignored writes and strict mode, which throws before anything
  changes; the apply order and rename pairs that the merge engine and the
  reconcile report (no code applies them).
* Functions of `fs` that are not patched (such as `writeSync` or `rmdir`, or a
  write by a `FileHandle`): they are the child process of DirtyTracking and
  TreeRollback, and so are the gaps of `ChangesHeard`.
* Backup files one by one in SessionCleanup, which has those of a workspace
  together; the storage that `rehydrateAttempt` creates is there as that of a
  snapshot.
* The restamping of a workspace file when a link strategy materializes it:
  DirtyTracking assumes a backup does not change the file.
* Two processes holding one attempt at once; several attempts in one recovery.
* That `exec()` settles: only its safety is modelled.

## 7. Plan

Done: the lifecycle first, since every other part relies on its exclusion; then
tracking and rollback, recovery, storage, session; then the interceptor, session
collection, and rollback over directories. Every safety property, action property
and refinement that a passing run checks has a theorem.

Next, in this order:

1. Proofs: the abstract specification of a rollback over a set of paths, with
   DirtyTracking and TreeRollback as two implementations of it; `RollbackFails`
   of TreeRollback followed by a rollback that succeeds restores the same tree as
   one rollback (now only a consequence of `RollbackIsSound` on the paths it
   speaks of).
2. Two processes in AttemptRecovery.
3. Patch export and the session's delegation to it.
