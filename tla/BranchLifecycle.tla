-------------------------- MODULE BranchLifecycle --------------------------
(***************************************************************************)
(* How the asynchronous checkpoint operations of HyperionWorkspace         *)
(* interleave.  The program is single threaded, so what runs between two   *)
(* awaits is one step here; a call that awaits is cut into the segments    *)
(* the awaits leave, and any other call may run in between.                *)
(*                                                                         *)
(* Three devices keep the operations apart:                                *)
(*   opLocks   branchOperationLocks: one branch operation per checkpoint;  *)
(*   tail/prev branchLifecycleQueue: a chain of promises.  A call stores a *)
(*             new promise as the tail and awaits the one it found there;  *)
(*   lock      checkpoint.lock.locked, with the status "rolling-back".     *)
(* promote() takes only the last one, snapshot() and dispose() take none.  *)
(*                                                                         *)
(* A "call" is one invocation of an API function.  A call whose opening    *)
(* checks throw changes nothing, and is left out.  What depends on file    *)
(* contents (does the merge plan conflict, does reconcile, restore, patch  *)
(* export or storage cleanup throw) is nondeterministic here: DirtyTracking *)
(* models it.                                                              *)
(***************************************************************************)
EXTENDS Integers, Sequences, FiniteSets

CONSTANTS
    Calls,        \* invocations of the API, each used once
    Checkpoints,  \* checkpoint identifiers, each created at most once
    MaxActive,    \* config.maxConcurrentCheckpoints
    None          \* no checkpoint, no promise

ASSUME NoneAssumption == None \notin Calls /\ None \notin Checkpoints
ASSUME MaxActiveAssumption == MaxActive \in Nat

VARIABLES
    status,    \* StoredCheckpoint.status, "unborn" before snapshot()
    parent,    \* StoredCheckpoint.parentId
    lock,      \* StoredCheckpoint.lock.locked
    store,     \* the ids in CheckpointStore.checkpoints
    storage,   \* the ids in HyperionWorkspace.checkpointStorage
    disposed,  \* HyperionWorkspace.disposed
    opLocks,   \* branchOperationLocks
    tail,      \* branchLifecycleQueue, named by the call that stored it
    prev,      \* the promise each call awaits in withBranchLifecycleLock
    resolved,  \* the calls whose promise has been released
    pc,        \* where each call stands
    op,        \* the function called
    arg,       \* its checkpoint
    goal,      \* promoteBranch: options.targetCheckpointId, then the target
    result,    \* how the call ends
    arrivals   \* history: the calls in the order they joined the queue

checkpointVars == <<status, parent, lock, store, storage, disposed>>
queueVars == <<tail, prev, resolved, arrivals>>
callVars == <<pc, op, arg, goal, result>>
vars == <<checkpointVars, opLocks, queueVars, callVars>>

Live == {"active", "rolling-back"}
Settled == {"promoted", "disposed"}
Statuses == {"unborn"} \cup Live \cup Settled
RollbackOps == {"rollback", "dropBranch"}
Ops == RollbackOps \cup {"promoteBranch", "promote", "runInBranch"}
PCs == {"idle", "queued", "reconciled", "locked", "cleaning", "releasing",
        "running", "unlocking", "done"}

Init ==
    /\ status = [c \in Checkpoints |-> "unborn"]
    /\ parent = [c \in Checkpoints |-> None]
    /\ lock = [c \in Checkpoints |-> FALSE]
    /\ store = {}
    /\ storage = {}
    /\ disposed = FALSE
    /\ opLocks = {}
    /\ tail = None
    /\ prev = [k \in Calls |-> None]
    /\ resolved = {}
    /\ pc = [k \in Calls |-> "idle"]
    /\ op = [k \in Calls |-> None]
    /\ arg = [k \in Calls |-> None]
    /\ goal = [k \in Calls |-> None]
    /\ result = [k \in Calls |-> None]
    /\ arrivals = <<>>
-----------------------------------------------------------------------------
(* The checks the operations share. *)

\* Mutant: promoted checkpoints are let through.
Usable_PromotedToo(c) == c \in store /\ status[c] # "disposed"

\* requireActiveCheckpoint: known, and neither disposed nor promoted.  A
\* checkpoint that is rolling back passes.
Usable(c) == c \in store /\ status[c] \in Live

\* What promote() and RollbackEngine.rollback() ask before they take the lock.
Lockable(c) == c \in storage /\ ~lock[c] /\ status[c] # "rolling-back"

ActiveCheckpoints == {c \in store : status[c] \in Live}

\* resolveDefaultMergeTarget: the parent, while it is in the store and live.
DefaultTarget(c) ==
    IF parent[c] \in Checkpoints /\ Usable(parent[c]) THEN parent[c] ELSE None

\* collectBranchMergeContenders: the live target and the live siblings.
Contenders(c, t) ==
    {d \in ActiveCheckpoints \ {c} :
        d = t \/ (parent[c] # None /\ parent[d] = parent[c])}

\* Mutant: the previous promise is not awaited.
MyTurn_NotAwaited(k) == TRUE

\* The awaited promise is resolved; the very first one is so from the start.
MyTurn(k) == prev[k] = None \/ prev[k] \in resolved

GoTo(k, label) == pc' = [pc EXCEPT ![k] = label]

Open(k, name, c, t, label) ==
    /\ pc[k] = "idle"
    /\ GoTo(k, label)
    /\ op' = [op EXCEPT ![k] = name]
    /\ arg' = [arg EXCEPT ![k] = c]
    /\ goal' = [goal EXCEPT ![k] = t]
    /\ UNCHANGED result

End(k, r, label) ==
    /\ GoTo(k, label)
    /\ result' = [result EXCEPT ![k] = r]
    /\ UNCHANGED <<op, arg>>

AcquireOpLock(c) == c \notin opLocks /\ opLocks' = opLocks \cup {c}

\* Mutant: the new promise does not become the tail.
Enqueue_TailKept(k) ==
    /\ prev' = [prev EXCEPT ![k] = tail]
    /\ tail' = IF tail = None THEN k ELSE tail
    /\ arrivals' = Append(arrivals, k)
    /\ UNCHANGED resolved

Enqueue(k) ==
    /\ prev' = [prev EXCEPT ![k] = tail]
    /\ tail' = k
    /\ arrivals' = Append(arrivals, k)
    /\ UNCHANGED resolved
-----------------------------------------------------------------------------
(* snapshot(), fork() and rehydrateAttempt(): no await, so one step. *)

\* runCapacityGarbageCollection: disposed checkpoints leave the store, and
\* their storage goes with them, whether its cleanup throws or not.
Collected == {c \in store : status[c] = "disposed"}

\* Mutant: the capacity check does not count checkpoints that roll back.
Register_RollingBackUncounted(c, p) ==
    /\ ~disposed
    /\ status[c] = "unborn"
    /\ Cardinality({d \in store : status[d] = "active"}) < MaxActive
    /\ status' = [status EXCEPT ![c] = "active"]
    /\ parent' = [parent EXCEPT ![c] = p]
    /\ store' = (store \ Collected) \cup {c}
    /\ storage' = (storage \ Collected) \cup {c}
    /\ UNCHANGED <<lock, disposed, opLocks, queueVars, callVars>>

\* Collect, ask for a place, and enter the checkpoint with its storage.
Register(c, p) ==
    /\ ~disposed
    /\ status[c] = "unborn"
    /\ Cardinality(ActiveCheckpoints) < MaxActive
    /\ status' = [status EXCEPT ![c] = "active"]
    /\ parent' = [parent EXCEPT ![c] = p]
    /\ store' = (store \ Collected) \cup {c}
    /\ storage' = (storage \ Collected) \cup {c}
    /\ UNCHANGED <<lock, disposed, opLocks, queueVars, callVars>>

\* A new id, which no checkpoint can name as its parent yet.
Snapshot(c, p) ==
    /\ p = None \/ Usable(p)
    /\ \A d \in Checkpoints : parent[d] # c
    /\ Register(c, p)

\* The attempt of an earlier process.  Its parent is an older attempt, which
\* need not be live, nor known here.
Rehydrate(c, p) ==
    /\ p # c
    /\ p \in Checkpoints => parent[p] # c
    /\ Register(c, p)

\* No capacity, or a capture or journal error: the new checkpoint is taken
\* back, what was collected stays collected.
SnapshotFails ==
    /\ ~disposed
    /\ Collected # {}
    /\ store' = store \ Collected
    /\ storage' = storage \ Collected
    /\ UNCHANGED <<status, parent, lock, disposed, opLocks, queueVars, callVars>>
-----------------------------------------------------------------------------
(* rollback() and dropBranch() *)

\* rollback() takes the operation lock before it looks at the checkpoint.
BeginRollback(k, c) ==
    /\ ~disposed
    /\ AcquireOpLock(c)
    /\ Enqueue(k)
    /\ Open(k, "rollback", c, None, "queued")
    /\ UNCHANGED checkpointVars

\* Mutant: dropBranch() does not test the operation lock.
BeginDrop_LockUntested(k, c) ==
    /\ ~disposed
    /\ Usable(c)
    /\ opLocks' = opLocks \cup {c}
    /\ Enqueue(k)
    /\ Open(k, "dropBranch", c, None, "queued")
    /\ UNCHANGED checkpointVars

BeginDrop(k, c) ==
    /\ ~disposed
    /\ Usable(c)
    /\ AcquireOpLock(c)
    /\ Enqueue(k)
    /\ Open(k, "dropBranch", c, None, "queued")
    /\ UNCHANGED checkpointVars

\* The call's turn: plan, then lock the checkpoint and start the reconcile.
EnterRollback(k) ==
    /\ pc[k] = "queued" /\ op[k] \in RollbackOps /\ MyTurn(k)
    /\ Usable(arg[k]) /\ Lockable(arg[k])
    /\ lock' = [lock EXCEPT ![arg[k]] = TRUE]
    /\ status' = [status EXCEPT ![arg[k]] = "rolling-back"]
    /\ GoTo(k, "locked")
    /\ UNCHANGED <<parent, store, storage, disposed, opLocks, queueVars,
                   op, arg, goal, result>>

\* The call's turn, and it throws: the checkpoint settled while the call
\* waited, its storage is gone, someone holds its lock, or the plan conflicts
\* with a contender.  In promoteBranch() the reconcile may always throw.
EnterFails(k) ==
    /\ pc[k] = "queued" /\ MyTurn(k)
    /\ \/ op[k] = "promoteBranch"
       \/ ~Usable(arg[k]) \/ ~Lockable(arg[k])
       \/ Contenders(arg[k], DefaultTarget(arg[k])) # {}
    /\ End(k, "error", "releasing")
    /\ UNCHANGED <<checkpointVars, opLocks, queueVars, goal>>

\* After the reconcile: every dirty entry is restored.
RestoreSucceeds(k) ==
    /\ pc[k] = "locked" /\ op[k] \in RollbackOps
    /\ status' = [status EXCEPT ![arg[k]] = "disposed"]
    /\ lock' = [lock EXCEPT ![arg[k]] = FALSE]
    /\ GoTo(k, "cleaning")
    /\ UNCHANGED <<parent, store, storage, disposed, opLocks, queueVars,
                   op, arg, goal, result>>

\* Mutant: a failed rollback leaves a status of its own.
RestoreFails_Failed(k) ==
    /\ pc[k] = "locked" /\ op[k] \in RollbackOps
    /\ status' = [status EXCEPT ![arg[k]] = "failed"]
    /\ lock' = [lock EXCEPT ![arg[k]] = FALSE]
    /\ End(k, "error", "releasing")
    /\ UNCHANGED <<parent, store, storage, disposed, opLocks, queueVars, goal>>

\* Mutant: a failed rollback leaves the checkpoint "rolling-back".
RestoreFails_StatusKept(k) ==
    /\ pc[k] = "locked" /\ op[k] \in RollbackOps
    /\ lock' = [lock EXCEPT ![arg[k]] = FALSE]
    /\ End(k, "error", "releasing")
    /\ UNCHANGED <<status, parent, store, storage, disposed, opLocks, queueVars, goal>>

\* The reconcile or a restore threw: the checkpoint is active again.
RestoreFails(k) ==
    /\ pc[k] = "locked" /\ op[k] \in RollbackOps
    /\ status' = [status EXCEPT ![arg[k]] = "active"]
    /\ lock' = [lock EXCEPT ![arg[k]] = FALSE]
    /\ End(k, "error", "releasing")
    /\ UNCHANGED <<parent, store, storage, disposed, opLocks, queueVars, goal>>

\* cleanupCheckpointStorage: the storage leaves the map unless cleanup throws.
CleanStorage(k) ==
    /\ pc[k] = "cleaning"
    /\ \/ /\ storage' = storage \ {arg[k]}
          /\ End(k, "ok", "releasing")
       \/ /\ arg[k] \in storage
          /\ End(k, "error", "releasing")
          /\ UNCHANGED storage
    /\ UNCHANGED <<status, parent, lock, store, disposed, opLocks, queueVars, goal>>
-----------------------------------------------------------------------------
(* promoteBranch() and promote() *)

BeginPromoteBranch(k, c, t) ==
    /\ ~disposed
    /\ Usable(c)
    /\ AcquireOpLock(c)
    /\ Enqueue(k)
    /\ Open(k, "promoteBranch", c, t, "queued")
    /\ UNCHANGED checkpointVars

\* The call's turn: the reconcile before the plan.
EnterPromoteBranch(k) ==
    /\ pc[k] = "queued" /\ op[k] = "promoteBranch" /\ MyTurn(k)
    /\ Usable(arg[k])
    /\ GoTo(k, "reconciled")
    /\ UNCHANGED <<checkpointVars, opLocks, queueVars, op, arg, goal, result>>

PlanTarget(k) == IF goal[k] = None THEN DefaultTarget(arg[k]) ELSE goal[k]

\* Mutant: a target given by the caller is not checked again after the reconcile.
MayPlan_TargetUnchecked(k) ==
    /\ ~disposed
    /\ Usable(arg[k]) /\ Lockable(arg[k])

\* No check of promoteBranch() or of the promote() it calls throws.
MayPlan(k) ==
    /\ goal[k] # None => Usable(goal[k])
    /\ ~disposed
    /\ Usable(arg[k]) /\ Lockable(arg[k])

\* The plan found no conflict; promote() takes the lock in the same step.
PlanPromotion(k) ==
    /\ pc[k] = "reconciled"
    /\ MayPlan(k)
    /\ goal' = [goal EXCEPT ![k] = PlanTarget(k)]
    /\ lock' = [lock EXCEPT ![arg[k]] = TRUE]
    /\ GoTo(k, "locked")
    /\ UNCHANGED <<status, parent, store, storage, disposed, opLocks, queueVars,
                   op, arg, result>>

PlanFails(k) ==
    /\ pc[k] = "reconciled"
    /\ ~MayPlan(k) \/ Contenders(arg[k], PlanTarget(k)) # {}
    /\ End(k, "error", "releasing")
    /\ UNCHANGED <<checkpointVars, opLocks, queueVars, goal>>

BeginPromote(k, c) ==
    /\ ~disposed
    /\ Usable(c) /\ Lockable(c)
    /\ lock' = [lock EXCEPT ![c] = TRUE]
    /\ Open(k, "promote", c, None, "locked")
    /\ UNCHANGED <<status, parent, store, storage, disposed, opLocks, queueVars>>

AfterPromote(k) == IF op[k] = "promote" THEN "done" ELSE "releasing"

\* A storage whose cleanup throws stays in the map: storageCleaned is false.
PromoteSucceeds(k) ==
    /\ pc[k] = "locked" /\ op[k] \in {"promote", "promoteBranch"}
    /\ status' = [status EXCEPT ![arg[k]] = "promoted"]
    /\ storage' \in {storage, storage \ {arg[k]}}
    /\ lock' = [lock EXCEPT ![arg[k]] = FALSE]
    /\ End(k, "ok", AfterPromote(k))
    /\ UNCHANGED <<parent, store, disposed, opLocks, queueVars, goal>>

\* Mutant: the storage is freed before the patch export that may throw.
PromoteFails_StorageFreed(k) ==
    /\ pc[k] = "locked" /\ op[k] \in {"promote", "promoteBranch"}
    /\ storage' = storage \ {arg[k]}
    /\ lock' = [lock EXCEPT ![arg[k]] = FALSE]
    /\ End(k, "error", AfterPromote(k))
    /\ UNCHANGED <<status, parent, store, disposed, opLocks, queueVars, goal>>

\* The reconcile or the patch export threw: the status is what it was.
PromoteFails(k) ==
    /\ pc[k] = "locked" /\ op[k] \in {"promote", "promoteBranch"}
    /\ lock' = [lock EXCEPT ![arg[k]] = FALSE]
    /\ End(k, "error", AfterPromote(k))
    /\ UNCHANGED <<status, parent, store, storage, disposed, opLocks, queueVars, goal>>
-----------------------------------------------------------------------------
(* runInBranch() *)

BeginRun(k, c) ==
    /\ ~disposed
    /\ Usable(c)
    /\ AcquireOpLock(c)
    /\ Open(k, "runInBranch", c, None, "running")
    /\ UNCHANGED <<checkpointVars, queueVars>>

\* The callback has ended and the reconcile after it has run; either may throw.
EndRun(k) ==
    /\ pc[k] = "running"
    /\ \/ Usable(arg[k]) /\ End(k, "ok", "unlocking")
       \/ End(k, "error", "unlocking")
    /\ UNCHANGED <<checkpointVars, opLocks, queueVars, goal>>
-----------------------------------------------------------------------------
(* The two finally blocks, and dispose(). *)

\* Mutant: the promise is released after success only, not in a finally block.
LeaveQueue_OnSuccess(k) ==
    /\ pc[k] = "releasing"
    /\ resolved' = IF result[k] = "ok" THEN resolved \cup {k} ELSE resolved
    /\ GoTo(k, "unlocking")
    /\ UNCHANGED <<checkpointVars, opLocks, tail, prev, arrivals, op, arg, goal, result>>

LeaveQueue(k) ==
    /\ pc[k] = "releasing"
    /\ resolved' = resolved \cup {k}
    /\ GoTo(k, "unlocking")
    /\ UNCHANGED <<checkpointVars, opLocks, tail, prev, arrivals, op, arg, goal, result>>

\* Mutant: the operation lock is released after success only.
ReleaseOpLock_OnSuccess(k) ==
    /\ pc[k] = "unlocking"
    /\ opLocks' = IF result[k] = "ok" THEN opLocks \ {arg[k]} ELSE opLocks
    /\ GoTo(k, "done")
    /\ UNCHANGED <<checkpointVars, queueVars, op, arg, goal, result>>

ReleaseOpLock(k) ==
    /\ pc[k] = "unlocking"
    /\ opLocks' = opLocks \ {arg[k]}
    /\ GoTo(k, "done")
    /\ UNCHANGED <<checkpointVars, queueVars, op, arg, goal, result>>

\* Live checkpoints that still have a storage are marked; calls in flight keep
\* their reference to the checkpoint and go on.
Dispose ==
    /\ ~disposed
    /\ disposed' = TRUE
    /\ status' = [c \in Checkpoints |->
                    IF c \in storage /\ Usable(c) THEN "disposed" ELSE status[c]]
    /\ store' = {}
    /\ storage' = {}
    /\ UNCHANGED <<parent, lock, opLocks, queueVars, callVars>>
-----------------------------------------------------------------------------
Begin(k) ==
    \E c \in Checkpoints :
        \/ BeginRollback(k, c)
        \/ BeginDrop(k, c)
        \/ \E t \in Checkpoints \cup {None} : BeginPromoteBranch(k, c, t)
        \/ BeginPromote(k, c)
        \/ BeginRun(k, c)

\* The next segment of a call in flight.
Resume(k) ==
    \/ EnterRollback(k) \/ EnterPromoteBranch(k) \/ EnterFails(k)
    \/ RestoreSucceeds(k) \/ RestoreFails(k) \/ CleanStorage(k)
    \/ PlanPromotion(k) \/ PlanFails(k)
    \/ PromoteSucceeds(k) \/ PromoteFails(k)
    \/ EndRun(k) \/ LeaveQueue(k) \/ ReleaseOpLock(k)

Next ==
    \/ \E c \in Checkpoints, p \in Checkpoints \cup {None} :
          Snapshot(c, p) \/ Rehydrate(c, p)
    \/ SnapshotFails
    \/ Dispose
    \/ \E k \in Calls : Begin(k) \/ Resume(k)

Spec == Init /\ [][Next]_vars

\* The event loop runs the continuation of every settled promise, and the
\* callback given to runInBranch() is assumed to settle.
FairSpec == Spec /\ \A k \in Calls : WF_vars(Resume(k))
-----------------------------------------------------------------------------
TypeOK ==
    /\ status \in [Checkpoints -> Statuses]
    /\ parent \in [Checkpoints -> Checkpoints \cup {None}]
    /\ lock \in [Checkpoints -> BOOLEAN]
    /\ store \subseteq Checkpoints
    /\ storage \subseteq Checkpoints
    /\ disposed \in BOOLEAN
    /\ opLocks \subseteq Checkpoints
    /\ tail \in Calls \cup {None}
    /\ prev \in [Calls -> Calls \cup {None}]
    /\ resolved \subseteq Calls
    /\ pc \in [Calls -> PCs]
    /\ op \in [Calls -> Ops \cup {None}]
    /\ arg \in [Calls -> Checkpoints \cup {None}]
    /\ goal \in [Calls -> Checkpoints \cup {None}]
    /\ result \in [Calls -> {"ok", "error", None}]
    /\ arrivals \in Seq(Calls)

\* Between its begin and its finally block a branch operation holds opLocks.
HoldsOpLock(k) == pc[k] \notin {"idle", "done"} /\ op[k] # "promote"

\* Inside the callback given to withBranchLifecycleLock.
InSection(k) ==
    /\ pc[k] \in {"reconciled", "locked", "cleaning", "releasing"}
    /\ op[k] # "promote"

HoldsCheckpointLock(k) == pc[k] = "locked"

\* Two calls are never inside the lifecycle section together: the chain of
\* promises is a mutex although it has no owner and is never tested.
LifecycleMutex ==
    \A j, k \in Calls : InSection(j) /\ InSection(k) => j = k

\* A checkpoint has a branch operation in flight exactly while its id is in
\* branchOperationLocks, and one at most: no path leaks the id, and no finally
\* block removes an id another call still relies on.
OpLockOwned ==
    /\ \A j, k \in Calls :
          HoldsOpLock(j) /\ HoldsOpLock(k) /\ arg[j] = arg[k] => j = k
    /\ \A c \in Checkpoints :
          c \in opLocks <=> \E k \in Calls : HoldsOpLock(k) /\ arg[k] = c

\* checkpoint.lock is set exactly while one call awaits its reconcile, and
\* "rolling-back" is seen only under a rollback or a drop: neither outlives the
\* call, whatever fails, and dispose() in between does not free it.
CheckpointLockOwned ==
    /\ \A j, k \in Calls :
          HoldsCheckpointLock(j) /\ HoldsCheckpointLock(k) /\ arg[j] = arg[k] => j = k
    /\ \A c \in Checkpoints :
          /\ lock[c] <=> \E k \in Calls : HoldsCheckpointLock(k) /\ arg[k] = c
          /\ status[c] = "rolling-back" =>
                \E k \in Calls : HoldsCheckpointLock(k) /\ arg[k] = c /\ op[k] \in RollbackOps

\* While a checkpoint can still be rolled back its backups are there: no
\* capacity collection, promotion or failed call takes them early.
RevertibleHasStorage == ActiveCheckpoints \subseteq storage

\* promoteBranch() reports a merge into a target: from the plan to the end of
\* the promotion that target is not rolled back, though only the queue, and no
\* lock on the target, keeps it so.
TargetNotRolledBack ==
    \A k \in Calls :
        /\ op[k] = "promoteBranch" /\ pc[k] = "locked"
        /\ goal[k] # None /\ ~disposed
        => status[goal[k]] \in {"active", "promoted"}

\* A callback of runInBranch() never sees its branch rolled back or dropped
\* under it; a plain promote() is not kept out.
RunKeepsBranch ==
    \A k \in Calls :
        pc[k] = "running" /\ ~disposed => status[arg[k]] \in {"active", "promoted"}

\* maxConcurrentCheckpoints bounds the checkpoints alive, also after a failed
\* rollback brings one back.
CapacityRespected == Cardinality(ActiveCheckpoints) <= MaxActive

\* Promoted and disposed are final while the workspace lives: a promotion and
\* a rollback of one checkpoint cannot both take effect.
SettledIsFinal ==
    [][\A c \in Checkpoints :
         status[c] \in Settled /\ ~disposed => status'[c] = status[c]]_vars

\* The queue as its users see it: as many calls as have been released are gone
\* from its front, and one at most is inside.
Left == Cardinality(resolved)
Line == SubSeq(arrivals, Left + 1, Len(arrivals))
Inside == {k \in Calls : InSection(k)}

\* The chain of promises is a FIFO mutex.
Fifo == INSTANCE FifoMutex WITH line <- Line, inside <- Inside

QueueIsFifoMutex == Fifo!Spec

\* Every call returns: no operation waits for ever in the queue, whoever fails
\* ahead of it.
CallsReturn == \A k \in Calls : pc[k] # "idle" ~> pc[k] = "done"
=============================================================================
