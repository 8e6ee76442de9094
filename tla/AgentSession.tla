---------------------------- MODULE AgentSession ----------------------------
(***************************************************************************)
(* HyperionAgentSession on top of the workspace: runAttempt() takes a      *)
(* snapshot, runs a callback, and reconciles or rolls back; exec() runs a  *)
(* child process, whose exit, its timeout and the attempt it belongs to    *)
(* race with each other.                                                   *)
(*                                                                         *)
(* A child writes without the interceptor: each may create one file, known *)
(* by the name of its exec().  A checkpoint is reduced to its status, the  *)
(* files of its baseline, and its dirty set; BranchLifecycle proves what   *)
(* is used here, that one rollback runs at a time.  A promotion is one     *)
(* step.  Paths with a backup are left out: DirtyTracking has them.        *)
(***************************************************************************)
EXTENDS FiniteSets

CONSTANTS
    Attempts,  \* calls of runAttempt(), each with its checkpoint
    Execs,     \* calls of exec(), each with its child and the file it creates
    None,      \* no attempt, no outcome
    Pending    \* the value "pending" of activeAttemptCheckpointId

ASSUME DistinctAssumption == {None, Pending} \cap Attempts = {} /\ None # Pending

VARIABLES
    active,   \* activeAttemptCheckpointId
    pc,       \* where each runAttempt() stands
    outcome,  \* how it ended
    status,   \* StoredCheckpoint.status of its checkpoint
    base,     \* the files in its baseline
    dirty,    \* the files in its dirty set
    disk,     \* the files that exist
    owner,    \* the checkpointId given to execute(), None for session.exec()
    child,    \* the child process of each exec()
    timer,    \* its timeout is armed
    promise,  \* its promise; "closing" while onClose() awaits the reconcile
    gap       \* history: files created since the rollback in progress reconciled

attemptVars == <<active, pc, outcome>>
checkpointVars == <<status, base, dirty>>
execVars == <<owner, child, timer, promise>>
vars == <<attemptVars, checkpointVars, disk, execVars, gap>>

Live == {"active", "rolling-back"}
InProgress(a) == pc[a] \notin {"idle", "done"}

Init ==
    /\ active = None
    /\ pc = [a \in Attempts |-> "idle"]
    /\ outcome = [a \in Attempts |-> None]
    /\ status = [a \in Attempts |-> "unborn"]
    /\ base = [a \in Attempts |-> {}]
    /\ dirty = [a \in Attempts |-> {}]
    /\ disk = {}
    /\ owner = [x \in Execs |-> None]
    /\ child = [x \in Execs |-> "none"]
    /\ timer = [x \in Execs |-> FALSE]
    /\ promise = [x \in Execs |-> "none"]
    /\ gap = {}
-----------------------------------------------------------------------------
(* What the session uses of the workspace. *)

\* The paths that differ from the baseline.
Changed(a) == (disk \ base[a]) \cup (base[a] \ disk)

Reconciled(a) == dirty' = [dirty EXCEPT ![a] = Changed(a)]

\* reconcile() refuses a settled checkpoint, and may fail on the file system.
ReconcileThrows == UNCHANGED dirty

NoRollback == \A a \in Attempts : status[a] # "rolling-back"

SetStatus(a, s) == status' = [status EXCEPT ![a] = s]
GoTo(a, label) == pc' = [pc EXCEPT ![a] = label]

\* Mutant: the attempt is not over for the session when it failed.
End_OnSuccess(a, how) ==
    /\ GoTo(a, "done")
    /\ outcome' = [outcome EXCEPT ![a] = how]
    /\ active' = IF how = "success" THEN None ELSE active

\* runAttempt() returns or throws: the finally block.
End(a, how) ==
    /\ GoTo(a, "done")
    /\ outcome' = [outcome EXCEPT ![a] = how]
    /\ active' = None

\* session.promote(), by the callback or after the attempt.
Promote(a) ==
    /\ status[a] = "active"
    /\ pc[a] # "starting"
    /\ Reconciled(a)
    /\ SetStatus(a, "promoted")
    /\ UNCHANGED <<attemptVars, base, disk, execVars, gap>>

\* session.rollback(), by the callback or after the attempt, up to the end of
\* its reconcile.
ClientRollback(a) ==
    /\ status[a] = "active" /\ NoRollback
    /\ pc[a] \in {"running", "done"}
    /\ Reconciled(a)
    /\ SetStatus(a, "rolling-back")
    /\ gap' = {}
    /\ UNCHANGED <<attemptVars, base, disk, execVars>>
-----------------------------------------------------------------------------
(* runAttempt() *)

\* The snapshot, or the fork, is taken at once; or it fails.
BeginAttempt(a) ==
    /\ pc[a] = "idle" /\ active = None
    /\ active' = Pending
    /\ GoTo(a, "starting")
    /\ \/ SetStatus(a, "active") /\ base' = [base EXCEPT ![a] = disk]
       \/ UNCHANGED <<status, base>>
    /\ UNCHANGED <<outcome, dirty, disk, execVars, gap>>

StartCallback(a) ==
    /\ pc[a] = "starting"
    /\ \/ /\ status[a] = "active"
          /\ active' = a
          /\ GoTo(a, "running")
          /\ UNCHANGED outcome
       \/ status[a] = "unborn" /\ End(a, "failed")
    /\ UNCHANGED <<checkpointVars, disk, execVars, gap>>

\* reconcileOnSuccess: the reconcile runs now, and is awaited.  When it throws
\* the attempt has failed, and the one in the catch block throws as well or not.
CallbackReturns(a) ==
    /\ pc[a] = "running"
    /\ \/ status[a] \in Live /\ Reconciled(a) /\ GoTo(a, "returning") /\ UNCHANGED <<active, outcome>>
       \/ status[a] \in Live /\ Reconciled(a) /\ GoTo(a, "failing") /\ UNCHANGED <<active, outcome>>
       \/ ReconcileThrows /\ GoTo(a, "failing") /\ UNCHANGED <<active, outcome>>
       \/ ReconcileThrows /\ End(a, "success")          \* reconcileOnSuccess: false
    /\ UNCHANGED <<status, base, disk, execVars, gap>>

CallbackThrows(a) ==
    /\ pc[a] = "running"
    /\ GoTo(a, "failing")
    /\ (status[a] \in Live /\ Reconciled(a)) \/ ReconcileThrows
    /\ UNCHANGED <<active, outcome, status, base, disk, execVars, gap>>

ReturnResult(a) ==
    /\ pc[a] = "returning"
    /\ End(a, "success")
    /\ UNCHANGED <<checkpointVars, disk, execVars, gap>>

\* rollbackOnThrow is false; or rollback() refuses: the checkpoint is settled,
\* its operation lock is held, or the merge plan conflicts.
AbandonRollback(a) ==
    /\ pc[a] = "failing"
    /\ End(a, "failed")
    /\ UNCHANGED <<checkpointVars, disk, execVars, gap>>

\* Mutant: the rollback goes by what the catch block has reconciled.
StartRollback_NoReconcile(a) ==
    /\ pc[a] = "failing"
    /\ status[a] = "active" /\ NoRollback
    /\ GoTo(a, "rollingBack")
    /\ SetStatus(a, "rolling-back")
    /\ gap' = {}
    /\ UNCHANGED <<active, outcome, base, dirty, disk, execVars>>

\* rollback() up to the end of its own reconcile.
StartRollback(a) ==
    /\ pc[a] = "failing"
    /\ status[a] = "active" /\ NoRollback
    /\ GoTo(a, "rollingBack")
    /\ Reconciled(a)
    /\ SetStatus(a, "rolling-back")
    /\ gap' = {}
    /\ UNCHANGED <<active, outcome, base, disk, execVars>>

\* Whoever awaits the rollback goes on.
AfterRollback(a, how) ==
    IF pc[a] = "rollingBack" THEN End(a, how) ELSE UNCHANGED attemptVars

\* A path of the baseline that is gone has no backup here, so that restoring it
\* throws.
FinishRollback(a) ==
    /\ status[a] = "rolling-back"
    /\ dirty[a] \cap base[a] = {}
    /\ disk' = disk \ dirty[a]
    /\ dirty' = [dirty EXCEPT ![a] = {}]
    /\ SetStatus(a, "disposed")
    /\ AfterRollback(a, "rolledBack")
    /\ gap' = {}
    /\ UNCHANGED <<base, execVars>>

\* Mutant: a failed rollback leaves a status of its own.
FailRollback_Failed(a) ==
    /\ status[a] = "rolling-back"
    /\ \E D \in SUBSET (dirty[a] \ base[a]) :
         /\ disk' = disk \ D
         /\ dirty' = [dirty EXCEPT ![a] = dirty[a] \ D]
    /\ SetStatus(a, "failed")
    /\ AfterRollback(a, "failed")
    /\ gap' = {}
    /\ UNCHANGED <<base, execVars>>

\* It throws, after it has deleted some of the created files.
FailRollback(a) ==
    /\ status[a] = "rolling-back"
    /\ \E D \in SUBSET (dirty[a] \ base[a]) :
         /\ disk' = disk \ D
         /\ dirty' = [dirty EXCEPT ![a] = dirty[a] \ D]
    /\ SetStatus(a, "active")
    /\ AfterRollback(a, "failed")
    /\ gap' = {}
    /\ UNCHANGED <<base, execVars>>
-----------------------------------------------------------------------------
(* exec() and the child process *)

\* The callback uses its context while it runs, and need not await the promise.
\* The timeout is off when timeoutMs is 0.
Spawn(x, a) ==
    /\ promise[x] = "none"
    /\ a # None => pc[a] = "running"
    /\ owner' = [owner EXCEPT ![x] = a]
    /\ \E c \in {"running", "failed"} : child' = [child EXCEPT ![x] = c]
    /\ \E armed \in BOOLEAN : timer' = [timer EXCEPT ![x] = armed]
    /\ promise' = [promise EXCEPT ![x] = "pending"]
    /\ UNCHANGED <<attemptVars, checkpointVars, disk, gap>>

CreateFile(x) ==
    /\ child[x] = "running"
    /\ disk' = disk \cup {x}
    /\ gap' = IF NoRollback THEN gap ELSE gap \cup {x}
    /\ UNCHANGED <<attemptVars, checkpointVars, execVars>>

Exit(x) ==
    /\ child[x] = "running"
    /\ child' = [child EXCEPT ![x] = "exited"]
    /\ UNCHANGED <<attemptVars, checkpointVars, disk, owner, timer, promise, gap>>

Disarm(x) == timer' = [timer EXCEPT ![x] = FALSE]
Become(x, p) == promise' = [promise EXCEPT ![x] = p]

\* Mutant: the checkpoint of the attempt is not reconciled.
OnClose_NoReconcile(x) ==
    /\ promise[x] = "pending" /\ child[x] = "exited"
    /\ Disarm(x)
    /\ Become(x, "closing")
    /\ UNCHANGED <<attemptVars, checkpointVars, disk, owner, child, gap>>

\* "close" comes before the timeout: the timer is cleared, then the checkpoint
\* of the attempt is reconciled.
OnClose(x) ==
    /\ promise[x] = "pending" /\ child[x] = "exited"
    /\ Disarm(x)
    /\ \/ owner[x] = None /\ UNCHANGED dirty
          /\ (Become(x, "resolved") \/ Become(x, "rejected"))
       \/ /\ owner[x] # None /\ status[owner[x]] \in Live
          /\ Reconciled(owner[x])
          /\ Become(x, "closing")
       \/ owner[x] # None /\ ReconcileThrows /\ Become(x, "closeFailed")
    /\ UNCHANGED <<attemptVars, status, base, disk, owner, child, gap>>

\* After the reconcile: a result, or an error for its exit code.
SettleClose(x) ==
    /\ \/ promise[x] = "closing" /\ Become(x, "resolved")
       \/ promise[x] \in {"closing", "closeFailed"} /\ Become(x, "rejected")
    /\ UNCHANGED <<attemptVars, checkpointVars, disk, owner, child, timer, gap>>

\* The child could not be spawned.
OnError(x) ==
    /\ promise[x] = "pending" /\ child[x] = "failed"
    /\ Disarm(x)
    /\ Become(x, "rejected")
    /\ UNCHANGED <<attemptVars, checkpointVars, disk, owner, child, gap>>

\* A signal is sent and the promise rejected; the child goes on until the
\* signal ends it, or for ever if it ignores the signal.
OnTimeout(x) ==
    /\ promise[x] = "pending" /\ timer[x]
    /\ Disarm(x)
    /\ Become(x, "timedOut")
    /\ UNCHANGED <<attemptVars, checkpointVars, disk, owner, child, gap>>
-----------------------------------------------------------------------------
Settle(x) == OnClose(x) \/ SettleClose(x) \/ OnError(x) \/ OnTimeout(x)

Next ==
    \/ \E a \in Attempts :
        \/ BeginAttempt(a) \/ StartCallback(a)
        \/ CallbackReturns(a) \/ CallbackThrows(a) \/ ReturnResult(a)
        \/ AbandonRollback(a) \/ StartRollback(a)
        \/ FinishRollback(a) \/ FailRollback(a)
        \/ Promote(a) \/ ClientRollback(a)
    \/ \E x \in Execs :
        \/ \E a \in Attempts \cup {None} : Spawn(x, a)
        \/ CreateFile(x) \/ Exit(x) \/ Settle(x)

Spec == Init /\ [][Next]_vars
-----------------------------------------------------------------------------
TypeOK ==
    /\ active \in Attempts \cup {None, Pending}
    /\ pc \in [Attempts -> {"idle", "starting", "running", "returning", "failing",
                            "rollingBack", "done"}]
    /\ outcome \in [Attempts -> {None, "success", "failed", "rolledBack"}]
    /\ status \in [Attempts -> {"unborn", "active", "rolling-back", "promoted", "disposed"}]
    /\ base \in [Attempts -> SUBSET Execs]
    /\ dirty \in [Attempts -> SUBSET Execs]
    /\ disk \subseteq Execs
    /\ owner \in [Execs -> Attempts \cup {None}]
    /\ child \in [Execs -> {"none", "running", "failed", "exited"}]
    /\ timer \in [Execs -> BOOLEAN]
    /\ promise \in [Execs -> {"none", "pending", "closing", "closeFailed", "resolved",
                              "rejected", "timedOut"}]
    /\ gap \subseteq Execs

\* Attempts never overlap, and whatever way one ends, the session is free for
\* the next: activeAttemptCheckpointId is set exactly while one is in progress.
OneAttempt ==
    /\ \A a, b \in Attempts : InProgress(a) /\ InProgress(b) => a = b
    /\ active # None <=> \E a \in Attempts : InProgress(a)
    /\ active \in Attempts => InProgress(active)

\* When exec() returns a result to an attempt, what the child wrote is in the
\* attempt's dirty set, whatever happened between its exit and the result.
ExecReportsWrites ==
    \A x \in Execs :
        LET a == owner[x]
        IN  promise[x] = "resolved" /\ a # None /\ x \in disk =>
              (status[a] = "active" /\ x \notin base[a] => x \in dirty[a])

\* An attempt reported as rolled back leaves the files of its baseline and
\* nothing else, except for what children that were still alive created after
\* the rollback's own reconcile.
RolledBackClean ==
    [][\A a \in Attempts :
         outcome[a] # "rolledBack" /\ outcome'[a] = "rolledBack" =>
             base[a] \subseteq disk' /\ disk' \subseteq base[a] \cup gap]_vars
=============================================================================
