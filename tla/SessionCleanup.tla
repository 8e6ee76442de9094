--------------------------- MODULE SessionCleanup ---------------------------
(***************************************************************************)
(* What workspaces leave behind, and who takes it away.  A workspace has   *)
(* a session directory with a lock that names its process; it collects the *)
(* directories and temporary files of others when it is constructed and at *)
(* every snapshot, and its own things when it is disposed of or when an    *)
(* event ends its process.  Processes share the file system only, so each  *)
(* step of a collection may meet steps of other processes; within one      *)
(* process a synchronous operation (busy) admits no other step.            *)
(*                                                                         *)
(* The checkpoints of a workspace are one storage here, whose backup files *)
(* are in tmpfs or below the session root: only those in tmpfs are removed *)
(* with it.  What cleanup does to journals is in AttemptRecovery, to locks *)
(* and calls in flight in BranchLifecycle.  External: process numbers, the *)
(* order in which Node runs the listeners of an event, and that it ends a  *)
(* process in which a listener of uncaughtException throws.                *)
(***************************************************************************)
EXTENDS Naturals, Sequences, FiniteSets, Functions

CONSTANTS
    Procs,     \* each runs once
    Sessions,  \* each the session of one workspace
    Hosts,     \* machines that share the workspace's file system
    Pids,      \* process numbers, which each host gives out again
    MaxSnapshots, \* bound on the snapshots of all workspaces
    None

ASSUME MaxSnapshotsAssumption == MaxSnapshots \in Nat
ASSUME NoneAssumption == None \notin Procs \cup Sessions \cup Hosts \cup Pids

VARIABLES
    proc,      \* "unborn", "running", or how the process ended
    place,     \* its [host, pid]
    owner,     \* the process of a session, or None
    handlers,  \* the registries of each process with listeners, in their order
    busy,      \* the synchronous operation a process is in, or None
    dir,       \* session directories: "none", "bare" (no readable lock), "locked"
    old,       \* bare ones that have not changed for STALE_SESSION_TTL_MS
    temps,     \* processes whose latest .hyperion-*.tmp file exists
    ignored,   \* those of them whose file is in a directory some workspace ignores
    built,     \* sessions whose constructor has returned
    hooked,    \* workspaces whose interceptor is installed
    snapshots, \* snapshots so far
    stored,    \* workspaces with checkpoint storage
    files,     \* where the backup files of a workspace are
    cleanupHasRun, emergencyCleanupCompleted, disposed,  \* flags, as sets of sessions
    foreign,   \* history: directories removed by a process of another host
    late,      \* history: directories that had no lock when they were a day old
    stuck,     \* history: directories whose removal failed
    stuckTemps, \* history: temporary files whose removal failed
    leaked,    \* history: workspaces with files in tmpfs whose removal failed
    revived,   \* history: workspaces used after their emergency cleanup
    due        \* history: what the collection of a process has to remove

procVars == <<proc, place, owner>>
dirVars == <<dir, old, foreign, late, stuck>>
tempVars == <<temps, ignored, stuckTemps>>
storageVars == <<stored, files, leaked>>
useVars == <<hooked, storageVars, snapshots, revived>>
flagVars == <<built, cleanupHasRun, emergencyCleanupCompleted, disposed>>
vars == <<procVars, handlers, busy, dirVars, tempVars, useVars, flagVars, due>>

Running(p) == proc[p] = "running"
Idle(p) == Running(p) /\ busy[p] = None
Of(p) == {s \in Sessions : owner[s] = p}
NothingDue == [dirs |-> {}, temps |-> {}]

\* A workspace whose process can use it now.
Usable(s) == s \in built \ disposed /\ Idle(owner[s])

Init ==
    /\ proc = [p \in Procs |-> "unborn"] /\ place = [p \in Procs |-> None]
    /\ owner = [s \in Sessions |-> None]
    /\ handlers = [p \in Procs |-> <<>>] /\ busy = [p \in Procs |-> None]
    /\ dir = [s \in Sessions |-> "none"] /\ old = {} /\ temps = {}
    /\ ignored = {} /\ stuckTemps = {}
    /\ built = {} /\ hooked = {} /\ stored = {} /\ snapshots = 0
    /\ files = [s \in Sessions |-> {}] /\ leaked = {}
    /\ cleanupHasRun = {} /\ emergencyCleanupCompleted = {} /\ disposed = {}
    /\ foreign = {} /\ late = {} /\ stuck = {} /\ revived = {}
    /\ due = [p \in Procs |-> NothingDue]
-----------------------------------------------------------------------------
(* The outside: processes start, and time passes. *)

\* isProcessAlive: some process of this host has the number.
IsProcessAlive(host, pid) ==
    \E q \in Procs : Running(q) /\ place[q] = [host |-> host, pid |-> pid]

Start(p, host, pid) ==
    /\ proc[p] = "unborn"
    /\ ~IsProcessAlive(host, pid)
    /\ proc' = [proc EXCEPT ![p] = "running"]
    /\ place' = [place EXCEPT ![p] = [host |-> host, pid |-> pid]]
    /\ due' = [q \in Procs |->
         IF q # p /\ Running(q) /\ place[q].host = host
         THEN [due[q] EXCEPT !.dirs = {d \in @ : place[owner[d]].pid # pid}]
         ELSE due[q]]
    /\ UNCHANGED <<owner, handlers, busy, dirVars, tempVars, useVars, flagVars>>

DayPasses ==
    /\ old' = {s \in Sessions : dir[s] = "bare"}
    /\ old' # old
    /\ late' = late \cup old'
    /\ UNCHANGED <<procVars, handlers, busy, dir, foreign, stuck, tempVars, useVars,
                   flagVars, due>>
-----------------------------------------------------------------------------
(* runStartupGarbageCollection, by the constructor or by a snapshot of s:  *)
(* list the directories, judge and remove one after the other, then the    *)
(* temporary files of everybody.                                           *)

\* Mutant: without a lock that names its process a directory is kept.
ShouldRemove_LockedOnly(p, d) ==
    dir[d] = "locked" /\ ~IsProcessAlive(place[p].host, place[owner[d]].pid)

\* Mutant: a lock of any other process is taken for a stale one.
ShouldRemove_OthersLocks(p, d) ==
    \/ dir[d] = "locked" /\ owner[d] # p
    \/ dir[d] = "bare" /\ d \in old

\* shouldRemoveSessionDirectory.  The host that the lock names is not read.
ShouldRemove(p, d) ==
    \/ dir[d] = "locked" /\ ~IsProcessAlive(place[p].host, place[owner[d]].pid)
    \/ dir[d] = "bare" /\ d \in old

\* History: directories and temporary files a collection of p finds abandoned.
Abandoned(p) ==
    [dirs |-> {d \in Sessions :
                 /\ dir[d] # "none"
                 /\ ~Running(owner[d])
                 /\ \/ dir[d] = "bare" /\ d \in old
                    \/ /\ dir[d] = "locked"
                       /\ ~IsProcessAlive(place[p].host, place[owner[d]].pid)},
     temps |-> {q \in temps : ~Running(q)}]

Collect(p, s, task) ==
    /\ busy' = [busy EXCEPT ![p] = [task |-> task, session |-> s, step |-> "judge",
                                    todo |-> {d \in Sessions : dir[d] # "none"},
                                    doomed |-> None]]
    /\ due' = [due EXCEPT ![p] = Abandoned(p)]

Construct(p, s) ==
    /\ Idle(p)
    /\ owner[s] = None
    /\ owner' = [owner EXCEPT ![s] = p]
    /\ Collect(p, s, "construct")
    /\ UNCHANGED <<proc, place, handlers, dirVars, tempVars, useVars, flagVars>>

Snapshot(s) ==
    /\ Usable(s)
    /\ snapshots < MaxSnapshots
    /\ snapshots' = snapshots + 1
    /\ Collect(owner[s], s, "snapshot")
    /\ UNCHANGED <<procVars, handlers, dirVars, tempVars, hooked, storageVars, revived, flagVars>>

Step(p) == IF Running(p) /\ busy[p] # None THEN busy[p].step ELSE "none"

Judge(p, d) ==
    /\ Step(p) = "judge" /\ busy[p].doomed = None
    /\ d \in busy[p].todo
    /\ busy' = [busy EXCEPT ![p] =
                 [busy[p] EXCEPT !.todo = @ \ {d},
                                 !.doomed = IF ShouldRemove(p, d) THEN d ELSE None]]
    /\ UNCHANGED <<procVars, handlers, dirVars, tempVars, useVars, flagVars, due>>

\* removeSessionDirectory.  It may fail when the lock is gone; a failure before
\* that leaves what a collection that judged otherwise leaves.
Remove(p) ==
    /\ Step(p) = "judge" /\ busy[p].doomed # None
    /\ LET d == busy[p].doomed
       IN  \E left \in {"none", "bare"} :
             /\ dir[d] = "none" => left = "none"
             /\ dir' = [dir EXCEPT ![d] = left]
             /\ stuck' = IF left = "none" THEN stuck ELSE stuck \cup {d}
             /\ old' = old \ {d}
             /\ foreign' = IF place[owner[d]].host = place[p].host THEN foreign
                           ELSE foreign \cup {d}
    /\ busy' = [busy EXCEPT ![p].doomed = None]
    /\ UNCHANGED <<procVars, handlers, late, tempVars, useVars, flagVars, due>>

\* removeAbandonedTempFiles does not ask whose files they are.  It does not see
\* those in directories its workspace ignores, and the removal of others may fail.
RemoveTemps(p) ==
    /\ Step(p) = "judge" /\ busy[p].todo = {} /\ busy[p].doomed = None
    /\ temps' \in SUBSET temps
    /\ ignored' = ignored \cap temps'
    /\ stuckTemps' = temps' \ ignored
    /\ busy' = [busy EXCEPT ![p].step = "swept"]
    /\ UNCHANGED <<procVars, handlers, dirVars, useVars, flagVars, due>>

\* The files of s are in one more place.
Placed(s, where) == files' = [files EXCEPT ![s] = @ \cup {where}]

\* The rest of the snapshot: a checkpoint and its storage.  If it fails, the
\* storage is cleaned up again, which may fail in tmpfs.
Store(p) ==
    /\ Step(p) = "swept" /\ busy[p].task = "snapshot"
    /\ LET s == busy[p].session
       IN  \/ /\ stored' = stored \cup {s}
              /\ \E where \in {"tmpfs", "session root"} : Placed(s, where)
              /\ revived' = IF s \in emergencyCleanupCompleted THEN revived \cup {s} ELSE revived
              /\ UNCHANGED leaked
           \/ UNCHANGED <<storageVars, revived>>
           \/ /\ Placed(s, "tmpfs") /\ leaked' = leaked \cup {s}
              /\ UNCHANGED <<stored, revived>>
    /\ busy' = [busy EXCEPT ![p] = None]
    /\ due' = [due EXCEPT ![p] = NothingDue]
    /\ UNCHANGED <<procVars, handlers, dirVars, tempVars, hooked, snapshots, flagVars>>

MakeDirectory(p) ==
    /\ Step(p) = "swept" /\ busy[p].task = "construct"
    /\ dir' = [dir EXCEPT ![busy[p].session] = "bare"]
    /\ old' = old \ {busy[p].session}
    /\ busy' = [busy EXCEPT ![p].step = "made"]
    /\ due' = [due EXCEPT ![p] = NothingDue]
    /\ UNCHANGED <<procVars, handlers, foreign, late, stuck, tempVars, useVars, flagVars>>

\* The lock, and the listeners at the end of the constructor.
WriteLock(p) ==
    /\ Step(p) = "made"
    /\ LET s == busy[p].session
       IN  /\ dir[s] = "bare"
           /\ dir' = [dir EXCEPT ![s] = "locked"]
           /\ old' = old \ {s}
           /\ built' = built \cup {s}
           /\ handlers' = [handlers EXCEPT ![p] = Append(@, s)]
    /\ busy' = [busy EXCEPT ![p] = None]
    /\ UNCHANGED <<procVars, foreign, late, stuck, tempVars, useVars, cleanupHasRun,
                   emergencyCleanupCompleted, disposed, due>>

\* The directory was collected in between: the constructor throws.
LockFails(p) ==
    /\ Step(p) = "made"
    /\ dir[busy[p].session] = "none"
    /\ busy' = [busy EXCEPT ![p] = None]
    /\ UNCHANGED <<procVars, handlers, dirVars, tempVars, useVars, flagVars, due>>
-----------------------------------------------------------------------------
(* Work between the collections *)

\* restoreRegularFile: copy to a temporary file, then rename it; if it was
\* collected in between, the restore fails and the target is as it was.  When
\* the rename fails the file is removed, which may fail too.
BeginRestore(s) ==
    /\ Usable(s) /\ s \in stored
    /\ temps' = temps \cup {owner[s]}
    /\ ignored' \in {ignored \cup {owner[s]}, ignored \ {owner[s]}}
    /\ stuckTemps' = stuckTemps \ {owner[s]}
    /\ busy' = [busy EXCEPT ![owner[s]] = [task |-> "restore", session |-> s,
                                           step |-> "copied", todo |-> {}, doomed |-> None]]
    /\ UNCHANGED <<procVars, handlers, dirVars, useVars, flagVars, due>>

EndRestore(p) ==
    /\ Step(p) = "copied"
    /\ temps' \in {temps, temps \ {p}}
    /\ ignored' = ignored \cap temps' /\ stuckTemps' = stuckTemps \cap temps'
    /\ busy' = [busy EXCEPT ![p] = None]
    /\ UNCHANGED <<procVars, handlers, dirVars, useVars, flagVars, due>>

InstallFsInterceptor(s) ==
    /\ Usable(s) /\ s \notin hooked
    /\ hooked' = hooked \cup {s}
    /\ revived' = IF s \in emergencyCleanupCompleted THEN revived \cup {s} ELSE revived
    /\ UNCHANGED <<procVars, handlers, busy, dirVars, tempVars, storageVars, snapshots, flagVars, due>>

UninstallFsInterceptor(s) ==
    /\ s \in built /\ Idle(owner[s]) /\ s \in hooked
    /\ hooked' = hooked \ {s}
    /\ UNCHANGED <<procVars, handlers, busy, dirVars, tempVars, storageVars, snapshots, revived, flagVars, due>>

\* cleanup() of all storage of the workspaces S.  For files below the session
\* root it does nothing, and a removal that fails in tmpfs is not noticed.
CleanStorage(S) ==
    \E failed \in SUBSET {s \in S : "tmpfs" \in files[s]} :
        /\ stored' = stored \ S
        /\ leaked' = leaked \cup failed
        /\ files' = [s \in Sessions |-> IF s \in S \ leaked' THEN files[s] \ {"tmpfs"}
                                       ELSE files[s]]

LastCheckpointEnds(s) ==
    /\ Usable(s) /\ s \in stored
    /\ CleanStorage({s})
    /\ UNCHANGED <<procVars, handlers, busy, dirVars, tempVars, hooked, snapshots, revived, flagVars, due>>
-----------------------------------------------------------------------------
(* Emergency cleanup: by dispose(), or by the listeners of process events.  *)

\* emergencyCleanupSync of the workspaces S: for each of them the first only.
EmergencyCleanup(S) ==
    LET first == S \ emergencyCleanupCompleted
    IN  /\ emergencyCleanupCompleted' = emergencyCleanupCompleted \cup S
        /\ hooked' = hooked \ first
        /\ CleanStorage(first)
        /\ \E left \in [first -> {"none", "bare"}] :
             /\ \A s \in first : dir[s] = "none" => left[s] = "none"
             /\ dir' = [s \in Sessions |-> IF s \in first THEN left[s] ELSE dir[s]]
             /\ stuck' = stuck \cup {s \in first : left[s] # "none"}
        /\ old' = old \ first
        /\ UNCHANGED <<foreign, late, snapshots, revived>>

\* runEmergencyCleanup of the registries of S.
RunCleanups(S) ==
    /\ cleanupHasRun' = cleanupHasRun \cup S
    /\ EmergencyCleanup(S \ cleanupHasRun)
    /\ UNCHANGED <<built, disposed>>

\* Mutant: a workspace that is disposed of keeps its listeners.
Unregister_Keeps(s) == UNCHANGED handlers

\* A workspace has one place at most among the listeners.
Unregister(s) ==
    \/ /\ s \notin Range(handlers[owner[s]])
       /\ UNCHANGED handlers
    \/ \E i \in DOMAIN handlers[owner[s]] :
         /\ handlers[owner[s]][i] = s
         /\ handlers' = [handlers EXCEPT ![owner[s]] = SubSeq(@, 1, i - 1) \o SubSeq(@, i + 1, Len(@))]

Ends(p, how) ==
    /\ proc' = [proc EXCEPT ![p] = how]
    /\ handlers' = [handlers EXCEPT ![p] = <<>>]
    /\ busy' = [busy EXCEPT ![p] = None]
    /\ due' = [due EXCEPT ![p] = NothingDue]
    /\ UNCHANGED <<place, owner, tempVars>>

\* Each listener that ran has unregistered itself.
Survives(p) ==
    /\ handlers' = [handlers EXCEPT ![p] = <<>>]
    /\ UNCHANGED <<procVars, busy, tempVars, due>>

Dispose(s) ==
    /\ Usable(s)
    /\ EmergencyCleanup({s})
    /\ Unregister(s)
    /\ disposed' = disposed \cup {s}
    /\ UNCHANGED <<procVars, busy, tempVars, built, cleanupHasRun, due>>

Exit(p) ==
    /\ Idle(p)
    /\ RunCleanups(Range(handlers[p]))
    /\ Ends(p, "exited")

\* Mutant: the first listener sends the signal again before the others run.
Signal_FirstOnly(p) ==
    /\ Idle(p) /\ handlers[p] # <<>>
    /\ RunCleanups({Head(handlers[p])})
    /\ Ends(p, "signalled")

\* Every listener runs, unregisters its workspace and sends the signal again.
\* The process survives if the program has a listener of its own.
Signal(p) ==
    /\ Idle(p) /\ handlers[p] # <<>>
    /\ RunCleanups(Range(handlers[p]))
    /\ Ends(p, "signalled") \/ Survives(p)

\* uncaughtException: the first listener throws the error again, and the
\* listeners of other workspaces do not run.
UncaughtException(p) ==
    /\ Idle(p) /\ handlers[p] # <<>>
    /\ RunCleanups({Head(handlers[p])})
    /\ Ends(p, "crashed")

\* unhandledRejection: what the first listener throws is an uncaught exception
\* for the second; without a second the program's own listener may handle it.
UnhandledRejection(p) ==
    /\ Idle(p) /\ handlers[p] # <<>>
    /\ LET S == {handlers[p][i] : i \in 1..(IF Len(handlers[p]) = 1 THEN 1 ELSE 2)}
       IN  /\ RunCleanups(S)
           /\ Ends(p, "crashed") \/ (Len(handlers[p]) = 1 /\ Survives(p))

\* SIGKILL, a power cut, or a signal that nobody listens to.
Kill(p) ==
    /\ Running(p)
    /\ Ends(p, "killed")
    /\ UNCHANGED <<dirVars, useVars, flagVars>>
-----------------------------------------------------------------------------
Next ==
    \/ DayPasses
    \/ \E p \in Procs, h \in Hosts, i \in Pids : Start(p, h, i)
    \/ \E p \in Procs, s \in Sessions : Construct(p, s) \/ Judge(p, s)
    \/ \E p \in Procs :
         \/ Remove(p) \/ RemoveTemps(p) \/ Store(p) \/ MakeDirectory(p)
         \/ WriteLock(p) \/ LockFails(p) \/ EndRestore(p)
         \/ Exit(p) \/ Signal(p) \/ UncaughtException(p) \/ UnhandledRejection(p) \/ Kill(p)
    \/ \E s \in Sessions :
         \/ Snapshot(s) \/ BeginRestore(s) \/ LastCheckpointEnds(s) \/ Dispose(s)
         \/ InstallFsInterceptor(s) \/ UninstallFsInterceptor(s)

Spec == Init /\ [][Next]_vars
-----------------------------------------------------------------------------
StateOK ==
    /\ proc \in [Procs -> {"unborn", "running", "exited", "signalled", "crashed", "killed"}]
    /\ place \in [Procs -> {None} \cup [host : Hosts, pid : Pids]]
    /\ owner \in [Sessions -> Procs \cup {None}]
    /\ handlers \in [Procs -> Seq(Sessions)]
    /\ \A p \in Procs : Range(handlers[p]) \subseteq (built \cap Of(p)) \ disposed
    /\ busy \in [Procs -> {None} \cup
         [task : {"construct", "snapshot", "restore"}, session : Sessions,
          step : {"judge", "swept", "made", "copied"}, todo : SUBSET Sessions,
          doomed : Sessions \cup {None}]]
    /\ dir \in [Sessions -> {"none", "bare", "locked"}]
    /\ temps \subseteq Procs /\ snapshots \in 0..MaxSnapshots
    /\ \A S \in {old, foreign, late, stuck, hooked, stored, revived, built, cleanupHasRun,
                 emergencyCleanupCompleted, disposed} : S \subseteq Sessions
    /\ due \in [Procs -> [dirs : SUBSET Sessions, temps : SUBSET Procs]]

LeftoversOK ==
    /\ ignored \subseteq temps /\ stuckTemps \subseteq temps
    /\ files \in [Sessions -> SUBSET {"tmpfs", "session root"}]
    /\ leaked \subseteq Sessions

TypeOK == StateOK /\ LeftoversOK

\* A workspace in use has its session directory, with its lock: collections of
\* other processes remove directories of processes that are gone only
\* (session-gc.ts:123-153).  Excepted are removals by a process of another
\* host, where the number means nothing, and locks that were written a day
\* after the directory was made.
LiveSessionsKept ==
    \A s \in built \ (emergencyCleanupCompleted \cup foreign \cup late) :
        Running(owner[s]) => dir[s] = "locked"

\* When a collection is through, what was abandoned before it began is gone:
\* directories of processes that ended, old directories without a lock, and
\* temporary files of processes that ended (session-gc.ts:118-181).  Excepted
\* are what could not be removed, directories whose process number was given
\* out again meanwhile, and temporary files in directories that are ignored.
AbandonedCollected ==
    \A p \in Procs :
        Step(p) = "swept" =>
            /\ \A d \in due[p].dirs : dir[d] = "none" \/ d \in stuck
            /\ due[p].temps \cap temps \subseteq ignored \cup stuckTemps

\* A workspace that was disposed of, or whose process exited or ended by a
\* signal it had listeners for, has no interceptor, no storage in use, no files
\* in tmpfs and no session directory any more (lifecycle.ts:94-129,
\* workspace.ts:607, 1702); unless a removal failed, or the workspace was used
\* after an emergency cleanup that the process survived: that is not cleaned
\* up again.  Files below the session root stay, for recovery.
EndsClean ==
    \A s \in built :
        s \in disposed \/ proc[owner[s]] \in {"exited", "signalled"} =>
            /\ s \in hooked \cup stored => s \in revived
            /\ "tmpfs" \in files[s] => s \in revived \cup leaked
            /\ dir[s] = "none" \/ s \in stuck
=============================================================================
