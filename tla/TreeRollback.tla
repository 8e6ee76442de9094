---------------------------- MODULE TreeRollback ----------------------------
(***************************************************************************)
(* A rollback of one checkpoint over a tree of directories: what the dirty *)
(* entries say when a call moves or removes a whole subtree, the order in  *)
(* which the entries are undone, the ghost directories cleaned up after    *)
(* created paths, and the ignored paths that a declaration or track() puts *)
(* under watch.                                                            *)
(*                                                                         *)
(* The tree changes through the patched fs functions and through child     *)
(* processes.  reconcile() and restoreDirtyEntries do not await, so that   *)
(* each is one step here; what happens between the two, and between the    *)
(* record of a call and its effect, is in DirtyTracking.                   *)
(*                                                                         *)
(* A path is the sequence of its names.  A file is known by the original   *)
(* whose content it has, and by its stamp, what its stat says apart from   *)
(* the type.  Modes, symbolic links and hard links are left out.           *)
(***************************************************************************)
EXTENDS Integers, Sequences, FiniteSets, SequencesExt

CONSTANTS
    Paths,    \* a set of paths closed under parents
    Ignored,  \* those the ignore patterns match, closed under descendants
    Folders,  \* those that are directories, if anything, at the snapshot
    Trees,    \* the sets of paths that may exist at the snapshot
    Length,   \* of the path as a string
    MaxOps,   \* bound on the changes before the last rollback
    New,      \* content no original file has
    None,     \* nothing recorded
    Absent    \* the path does not exist

ASSUME PathsAssumption ==
    /\ IsFiniteSet(Paths) /\ Paths \subseteq Seq(STRING) \ {<<>>}
    /\ \A p \in Paths : Len(p) > 1 => Front(p) \in Paths
ASSUME IgnoredAssumption ==
    Ignored \subseteq Paths /\ \A p \in Ignored, q \in Paths : IsPrefix(p, q) => q \in Ignored
ASSUME FoldersAssumption == \A p \in Paths : Len(p) > 1 => Front(p) \in Folders
ASSUME TreesAssumption == Trees \subseteq SUBSET Paths
ASSUME LengthAssumption ==
    Length \in [Paths -> Nat] /\ \A p, q \in Paths : IsStrictPrefix(p, q) => Length[p] < Length[q]
ASSUME MaxOpsAssumption == MaxOps \in Nat

VARIABLES
    node,      \* the workspace: Absent or [type, src, stamp] for every path
    baseline,  \* the checkpoint's baseline.statEntries: such nodes
    declared,  \* toolOutputDeclarations and the checkpoint's own: paths
    tracked,   \* manualTrackedPaths
    dirty,     \* the checkpoint's dirty map: None or [kind, fileType]
    backup,    \* its backupRecords: None, Absent ("missing") or [type, src]
    status,    \* "active"; "rolled back" and "dropped" are both disposed
    clock,     \* the steps so far: the last stamp given
    original,  \* history: what every path was at the snapshot
    blind,     \* history: paths that changed while there was no backup of them
    late       \* history: paths declared or tracked after the snapshot

vars == <<node, baseline, declared, tracked, dirty, backup, status, clock,
          original, blind, late>>

Contents == [type : {"file"}, src : Paths \cup {New}] \cup [type : {"dir"}, src : {New}]
Nodes == [type : {"file"}, src : Paths \cup {New}, stamp : Nat]
             \cup [type : {"dir"}, src : {New}, stamp : Nat]
Kinds == {"created", "modified", "deleted", "metadata"}
FileOps == {"write", "delete", "mkdir"}

ASSUME NothingAssumption ==
    /\ Absent \notin Nodes \cup Contents /\ None # Absent /\ None \notin Contents
    /\ None \notin [kind : Kinds, fileType : {"file", "dir", "unknown"}]

Content(x) == IF x = Absent THEN Absent ELSE [type |-> x.type, src |-> x.src]

Ancestors == [p \in Paths |-> {d \in Paths : IsStrictPrefix(d, p)}]
Below == [p \in Paths |-> {q \in Paths : IsStrictPrefix(p, q)}]
Subtree == [p \in Paths |-> {p} \cup Below[p]]
Children == [p \in Paths |-> {q \in Below[p] : Front(q) = p}]

\* The operators below take the tree they are about.
Is(n, p, type) == n[p] # Absent /\ n[p].type = type
Parented(n, p) == Len(p) > 1 => Is(n, Front(p), "dir")
Clear(n, p) == \A d \in Ancestors[p] : ~Is(n, d, "file")

WellFormed(n) == \A p \in Paths : n[p] # Absent => Parented(n, p)

Stamp == clock + 1
NewDir == [type |-> "dir", src |-> New, stamp |-> Stamp]

\* A directory gets a new stamp when an entry appears in it or leaves it.
Touched(n, entries) ==
    [d \in Paths |->
        IF Is(n, d, "dir") /\ Children[d] \cap entries # {}
        THEN [n[d] EXCEPT !.stamp = Stamp] ELSE n[d]]
-----------------------------------------------------------------------------
(* Calls of the file system, as what becomes of a tree. *)

Missing(n, S) == {p \in S : n[p] = Absent}

Written(n, p, src) ==
    Touched([n EXCEPT ![p] = [type |-> "file", src |-> src, stamp |-> Stamp]],
            Missing(n, {p}))

MadeDirs(n, S) ==
    Touched([p \in Paths |-> IF p \in Missing(n, S) THEN NewDir ELSE n[p]], Missing(n, S))

Removed(n, p) ==
    Touched([q \in Paths |-> IF q \in Subtree[p] THEN Absent ELSE n[q]],
            {p} \ Missing(n, {p}))

\* The path that r, at or below q, was before p was renamed to q.
Source(p, q, r) == p \o SubSeq(r, Len(q) + 1, Len(r))

Moved(n, p, q) ==
    Touched([r \in Paths |->
               CASE r \in Subtree[p] -> Absent
                 [] r \in Subtree[q] -> IF Source(p, q, r) \in Paths
                                      THEN n[Source(p, q, r)] ELSE Absent
                 [] OTHER -> n[r]], {p, q})

\* rename replaces a file by a file, and an empty directory by a directory.
\* The last conjunct keeps the moved tree within Paths.
CanMove(n, p, q) ==
    /\ n[p] # Absent /\ q \notin Subtree[p] /\ p \notin Subtree[q] /\ Parented(n, q)
    /\ n[q] # Absent => n[q].type = n[p].type /\ \A r \in Below[q] : n[r] = Absent
    /\ \A r \in Subtree[p] : n[r] # Absent => Source(q, p, r) \in Paths
-----------------------------------------------------------------------------
(* What the checkpoint sees. *)

\* recordVfsMutations skips an ignored path nobody declared, tracked or not.
Seen(p) == p \notin Ignored \/ p \in declared

\* captureManifest skips ignored paths; withDeclaredToolOutputStats adds the
\* declared and the tracked ones.
InManifest(p) == p \notin Ignored \/ p \in declared \cup tracked
Captured(p) == IF InManifest(p) THEN node[p] ELSE Absent

\* What p is at the snapshot, if it exists.
FirstNode(p) == IF p \in Folders THEN [type |-> "dir", src |-> New, stamp |-> 0]
                ELSE [type |-> "file", src |-> p, stamp |-> 0]

Init ==
    /\ \E E \in Trees : node = [p \in Paths |-> IF p \in E THEN FirstNode(p) ELSE Absent]
    /\ WellFormed(node)
    /\ declared \in SUBSET Ignored
    /\ tracked \in SUBSET Ignored
    /\ baseline = [p \in Paths |-> Captured(p)]
    /\ dirty = [p \in Paths |-> None]
    /\ backup = [p \in Paths |-> None]
    /\ status = "active"
    /\ clock = 0
    /\ original = [p \in Paths |-> Content(node[p])]
    /\ blind = {}
    /\ late = {}
-----------------------------------------------------------------------------
(* Changes of the tree. *)

Step == status = "active" /\ clock' = clock + 1
Change == clock < MaxOps /\ Step

\* inferVfsDirtyKind
VfsKind(p, fileOp, rec) ==
    CASE baseline[p] = Absent /\ rec = Absent -> "created"
      [] fileOp = "delete" /\ ~(baseline[p] = Absent /\ rec = Absent) -> "deleted"
      [] fileOp = "mkdir" /\ baseline[p] # Absent -> "metadata"
      [] OTHER -> "modified"

Hint(fileOp) == CASE fileOp = "write" -> "file" [] fileOp = "mkdir" -> "dir" [] OTHER -> "unknown"

\* createVfsDirtyEntry
VfsEntry(p, fileOp, rec) ==
    [kind |-> VfsKind(p, fileOp, rec),
     fileType |-> CASE baseline[p] # Absent -> baseline[p].type
                    [] baseline[p] = Absent /\ rec # Absent -> rec.type
                    [] OTHER -> Hint(fileOp)]

\* backupFile, for the paths of the records: a directory's content is not saved.
BackedUp(ops) ==
    [p \in Paths |-> IF p \in DOMAIN ops /\ Seen(p) /\ backup[p] = None
                     THEN Content(node[p]) ELSE backup[p]]

\* A call of a patched function: ops maps the paths it reports to their fileOp.
\* What it does to the paths below those it does not report.
Patched(ops, n) ==
    /\ Change
    /\ backup' = BackedUp(ops)
    /\ dirty' = [p \in Paths |-> IF p \in DOMAIN ops /\ Seen(p)
                                 THEN VfsEntry(p, ops[p], backup'[p]) ELSE dirty[p]]
    /\ node' = n
    /\ blind' = blind \cup {p \in Paths : Content(n[p]) # Content(node[p]) /\ backup'[p] = None}
    /\ UNCHANGED <<baseline, declared, tracked, status, original, late>>

\* The call fails: the backups stay, undoVfsMutations drops the entries.
PatchedFails(ops) ==
    /\ Change
    /\ backup' = BackedUp(ops)
    /\ dirty' = [p \in Paths |-> IF p \in DOMAIN ops THEN None ELSE dirty[p]]
    /\ UNCHANGED <<node, baseline, declared, tracked, status, original, blind, late>>

\* A child process, or a function that is not patched: nothing is recorded.
ByChild(n) ==
    /\ Change
    /\ n # node
    /\ node' = n
    /\ blind' = blind \cup {p \in Paths : Content(n[p]) # Content(node[p]) /\ backup[p] = None}
    /\ UNCHANGED <<baseline, declared, tracked, dirty, backup, status, original, late>>

\* Whoever calls, whatever the outcome; n is the tree when the call is possible.
Call(ops, possible, n) == PatchedFails(ops) \/ (possible /\ (Patched(ops, n) \/ ByChild(n)))

WriteFile(p) ==
    Call([r \in {p} |-> "write"],
         Parented(node, p) /\ ~Is(node, p, "dir"), Written(node, p, New))

\* mkdir with recursive: only the path itself is reported.
MakeDir(p) ==
    Call([r \in {p} |-> "mkdir"],
         Clear(node, p) /\ ~Is(node, p, "file"), MadeDirs(node, {p} \cup Ancestors[p]))

\* rm with recursive and force.
RemoveTree(p) == Call([r \in {p} |-> "delete"], TRUE, Removed(node, p))

Rename(p, q) ==
    /\ p # q
    /\ Call([r \in {p, q} |-> IF r = p THEN "delete" ELSE "write"],
            CanMove(node, p, q), Moved(node, p, q))
-----------------------------------------------------------------------------
(* declareToolOutputs() and track() after the snapshot. *)

\* addDeclaredOutputToBaseline: what the path is by now becomes its baseline.
DeclareFor(p) ==
    /\ Change
    /\ declared' = declared \cup {p}
    /\ baseline' = [baseline EXCEPT ![p] = IF node[p] # Absent THEN node[p] ELSE baseline[p]]
    /\ late' = late \cup {p}
    /\ UNCHANGED <<node, tracked, dirty, backup, status, original, blind>>

\* Without a checkpointId the baseline does not change.
Declare(p) ==
    /\ Change
    /\ declared' = declared \cup {p}
    /\ late' = IF InManifest(p) THEN late ELSE late \cup {p}
    /\ UNCHANGED <<node, baseline, tracked, dirty, backup, status, original, blind>>

Track(p) ==
    /\ Change
    /\ tracked' = tracked \cup {p}
    /\ late' = IF InManifest(p) THEN late ELSE late \cup {p}
    /\ UNCHANGED <<node, baseline, declared, dirty, backup, status, original, blind>>
-----------------------------------------------------------------------------
(* reconcile(), rollback() and dropBranch() *)

\* The entry left for a path, from diffStateManifests: none at its baseline.
DiffEntry(p) ==
    LET before == baseline[p]
        after == Captured(p)
    IN  IF before = after THEN None
        ELSE [kind |-> CASE before = Absent -> "created"
                         [] after = Absent -> "deleted"
                         [] OTHER -> "modified",
              fileType |-> IF after # Absent THEN after.type ELSE before.type]

Reconciled == [p \in Paths |-> DiffEntry(p)]

Reconcile ==
    /\ Change
    /\ dirty' = Reconciled
    /\ UNCHANGED <<node, baseline, declared, tracked, backup, status, original, blind, late>>

\* dirtyEntriesByKind, and the order of the kinds in restoreDirtyEntries.
Turn == [created |-> 1, modified |-> 2, deleted |-> 3, metadata |-> 4]

Before(entries, p, q) ==
    \/ Turn[entries[p].kind] < Turn[entries[q].kind]
    \/ entries[p].kind = entries[q].kind /\ Length[p] > Length[q]

\* The next entry to undo; of paths of one length any, for neither lies below
\* the other.
First(entries, todo) == CHOOSE p \in todo : \A q \in todo : ~Before(entries, q, p)

\* Mutant: directories of the snapshot are cleaned up as well.
Ghost_OfTheSnapshot(n, p, d) ==
    /\ Is(n, d, "dir")
    /\ d \notin Ignored
    /\ \A q \in Below[d] : n[q] # Absent => q \in Ancestors[p]

\* An ancestor d of the deleted path p that cleanupAfterCreatedPath may remove
\* when all it holds are ancestors of p removed before it.
Ghost(n, p, d) ==
    /\ Is(n, d, "dir")
    /\ d \notin Ignored
    /\ baseline[d] = Absent
    /\ \A q \in Below[d] : n[q] # Absent => q \in Ancestors[p]

\* It climbs from the parent of p up to the first directory it may not remove.
Ghosts(n, p) == {d \in Ancestors[p] : \A e \in Ancestors[p] \cap Subtree[d] : Ghost(n, p, e)}

WithoutGhosts(n, p) ==
    LET G == Ghosts(n, p) IN Touched([q \in Paths |-> IF q \in G THEN Absent ELSE n[q]], G)

\* Mutant: the parent directories are not made first.
Restored_NoParents(n, p) ==
    CASE backup[p] = Absent -> Removed(n, p)
      [] backup[p] # Absent /\ backup[p].type = "dir" -> MadeDirs(n, {p} \cup Ancestors[p])
      [] OTHER -> Touched(Written(n, p, backup[p].src), {p})

\* restoreFile: the tree it leaves, and whether it can.  A file is renamed over
\* the path, which fails on a directory.
Restored(n, p) ==
    CASE backup[p] = Absent -> Removed(n, p)
      [] backup[p] # Absent /\ backup[p].type = "dir" -> MadeDirs(n, {p} \cup Ancestors[p])
      [] OTHER -> Touched(Written(MadeDirs(n, Ancestors[p]), p, backup[p].src), {p})

CanRestore(n, p) ==
    CASE backup[p] = Absent -> TRUE
      [] backup[p] # Absent /\ backup[p].type = "dir" -> Clear(n, p) /\ ~Is(n, p, "file")
      [] OTHER -> Clear(n, p) /\ ~Is(n, p, "dir")

\* One entry of restoreDirtyEntries.  An entry that throws ends the loop; a
\* directory without a backup is passed over and keeps its entry.
Undo(run, p) ==
    LET entry == run.dirty[p]
        undone == [run EXCEPT !.dirty[p] = None]
    IN  CASE run.thrown -> run
          [] ~run.thrown /\ entry.kind = "created" ->
               [undone EXCEPT !.node = WithoutGhosts(Removed(run.node, p), p)]
          [] ~run.thrown /\ entry.kind # "created" /\ backup[p] = None ->
               [run EXCEPT !.thrown = entry.fileType # "dir" \/ entry.kind = "deleted"]
          [] OTHER -> IF CanRestore(run.node, p)
                      THEN [undone EXCEPT !.node = Restored(run.node, p)]
                      ELSE [run EXCEPT !.thrown = TRUE]

Entries(mode) == IF mode = "rolled back" THEN Reconciled ELSE dirty

ToUndo(entries) == {p \in Paths : entries[p] # None}

Start(entries) ==
    [todo |-> ToUndo(entries), node |-> node, dirty |-> entries, thrown |-> FALSE]

Pass(entries, run) ==
    LET p == First(entries, run.todo) IN [Undo(run, p) EXCEPT !.todo = run.todo \ {p}]

\* restoreDirtyEntries, over the first k entries.
RunOf(entries, k) ==
    LET run[i \in 0..k] == IF i = 0 THEN Start(entries) ELSE Pass(entries, run[i - 1])
    IN  run[k]

\* The rollback ends, well or with an error; the backups stay for another one.
Rollback(mode) ==
    /\ clock <= MaxOps /\ Step
    /\ LET run == RunOf(Entries(mode), Cardinality(ToUndo(Entries(mode))))
       IN  /\ node' = run.node
           /\ dirty' = run.dirty
           /\ status' = IF run.thrown THEN "active" ELSE mode
    /\ UNCHANGED <<baseline, declared, tracked, backup, original, blind, late>>

\* A file system error ends it after k entries, and leaves the next as it was.
RollbackFails(mode, k) ==
    /\ Change
    /\ LET run == RunOf(Entries(mode), k)
       IN  /\ ~run.thrown
           /\ node' = run.node
           /\ dirty' = run.dirty
    /\ UNCHANGED <<baseline, declared, tracked, backup, status, original, blind, late>>
-----------------------------------------------------------------------------
Modes == {"rolled back", "dropped"}

Next ==
    \/ \E p \in Paths : WriteFile(p) \/ MakeDir(p) \/ RemoveTree(p)
    \/ \E p, q \in Paths : Rename(p, q)
    \/ \E p \in Paths : DeclareFor(p)
    \/ \E p \in Ignored : Declare(p) \/ Track(p)
    \/ Reconcile
    \/ \E mode \in Modes : Rollback(mode)
    \/ \E mode \in Modes : \E k \in 0..(Cardinality(ToUndo(Entries(mode))) - 1) :
         RollbackFails(mode, k)

Spec == Init /\ [][Next]_vars
-----------------------------------------------------------------------------
\* Types, and the workspace is a tree: whatever exists lies in a directory.
TypeOK ==
    /\ node \in [Paths -> Nodes \cup {Absent}]
    /\ WellFormed(node)
    /\ baseline \in [Paths -> Nodes \cup {Absent}]
    /\ declared \subseteq Paths /\ tracked \subseteq Ignored
    /\ dirty \in [Paths -> [kind : Kinds, fileType : {"file", "dir", "unknown"}] \cup {None}]
    /\ backup \in [Paths -> Contents \cup {None, Absent}]
    /\ status \in {"active"} \cup Modes
    /\ clock \in Nat
    /\ original \in [Paths -> Contents \cup {Absent}]
    /\ blind \subseteq Paths /\ late \subseteq Paths

Settles(mode) == status = "active" /\ status' = mode

\* The checkpoint cannot know what p was: a backup of p, or of a path above or
\* below it, was made after a change it did not see, or was declared too late.
Unknowable(p) ==
    \E q \in Subtree[p] \cup Ancestors[p] : q \in late \/ (q \in blind /\ backup[q] # None)

\* A directory that took the place of a file nobody backed up is passed over.
Retyped(p) ==
    /\ backup[p] = None
    /\ original[p] # Absent /\ original[p].type = "file"
    /\ Is(node, p, "dir")

\* After a rollback every path of the manifest is what it was at the snapshot.
TreeRestored ==
    \A p \in Paths :
        InManifest(p) /\ ~Unknowable(p) /\ ~Retyped(p) => Content(node'[p]) = original[p]

\* After a drop the paths it had recorded are, if their changes were seen.
DirtyRestored ==
    \A p \in Paths :
        dirty[p] # None /\ ~Unknowable(p) /\ p \notin blind => Content(node'[p]) = original[p]

\* No empty directory is left that only held what was created.
NoGhosts ==
    \A p \in Paths : \A d \in Ancestors[p] :
        /\ dirty[p] # None /\ dirty[p].kind = "created" /\ node[p] # Absent
        /\ d \notin Ignored /\ baseline[d] = Absent /\ ~Unknowable(d)
        => node'[d] = Absent \/ \E q \in Below[d] : node'[q] # Absent

\* An ignored path nobody declared or tracked stays, where it was at the snapshot.
IgnoredKept ==
    \A p \in Ignored \ (declared \cup tracked) :
        /\ ~\E q \in Ancestors[p] : q \in late \/ q \in blind
        /\ original[p] # Absent /\ Content(node[p]) = original[p]
        => Content(node'[p]) = original[p]

\* A rollback or a drop that succeeds puts back, file by file and directory by
\* directory, what it could see change, cleans up the directories that only
\* held created paths, and leaves ignored paths alone (RollbackEngine,
\* GhostDirectoryCleaner, withDeclaredToolOutputStats).
RollbackSound ==
    [][/\ WellFormed(node')
       /\ Settles("rolled back") => TreeRestored /\ IgnoredKept
       /\ Settles("dropped") => DirtyRestored /\ NoGhosts /\ IgnoredKept]_vars
=============================================================================
