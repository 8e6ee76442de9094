----------------------- MODULE BranchLifecycleProofs -----------------------
(***************************************************************************)
(* Proofs about BranchLifecycle, for any sets of calls and checkpoints and *)
(* any capacity.                                                           *)
(*                                                                         *)
(* The inductive invariant Inv has three layers:                           *)
(*   CallShape   what a label says of the call that stands at it;          *)
(*   Chain       how the promises link the calls in their order of arrival; *)
(*   Custody     what the holder of a checkpoint's lock may rely on.       *)
(* The mutual exclusion of the lifecycle section follows from Chain, the   *)
(* ownership of the locks from CallShape and Custody.                      *)
(***************************************************************************)
EXTENDS BranchLifecycle, FiniteSetTheorems, SequenceTheorems, TLAPS

QueueOps == RollbackOps \cup {"promoteBranch"}

\* A call that has begun has an operation and a checkpoint, and the labels it
\* passes through are those of its operation.
CallShape ==
    \A k \in Calls :
        /\ pc[k] # "idle" => op[k] \in Ops /\ arg[k] \in Checkpoints
        /\ pc[k] = "running" => op[k] = "runInBranch"
        /\ pc[k] \in {"queued", "releasing"} => op[k] \in QueueOps
        /\ pc[k] = "reconciled" => op[k] = "promoteBranch"
        /\ pc[k] = "locked" => op[k] \in QueueOps \cup {"promote"}
        /\ pc[k] = "cleaning" => op[k] \in RollbackOps
        /\ pc[k] = "unlocking" => op[k] # "promote"

\* A call has joined the queue.
Joined(k) == \E i \in 1 .. Len(arrivals) : arrivals[i] = k

\* The promise chain follows the order of arrival, and a call goes in only
\* when every earlier one has gone out.
Chain ==
    /\ \A i \in 1 .. Len(arrivals) :
          /\ pc[arrivals[i]] # "idle" /\ op[arrivals[i]] \in QueueOps
          /\ prev[arrivals[i]] = IF i = 1 THEN None ELSE arrivals[i - 1]
          /\ pc[arrivals[i]] \in {"unlocking", "done"} <=> arrivals[i] \in resolved
    /\ \A i, j \in 1 .. Len(arrivals) : arrivals[i] = arrivals[j] => i = j
    /\ tail = IF Len(arrivals) = 0 THEN None ELSE arrivals[Len(arrivals)]
    /\ \A k \in Calls : pc[k] # "idle" /\ op[k] \in QueueOps => Joined(k)
    /\ \A k \in resolved : Joined(k)
    /\ \A i, j \in 1 .. Len(arrivals) :
          i < j /\ pc[arrivals[j]] # "queued" => arrivals[i] \in resolved

\* The checkpoint whose lock a call holds is live until dispose(); a rolled
\* back checkpoint waiting for its cleanup is unlocked and stays disposed.
Custody ==
    /\ disposed => store = {}
    /\ \A k \in Calls :
          /\ pc[k] = "locked" /\ ~disposed => Usable(arg[k])
          /\ pc[k] = "cleaning" => status[arg[k]] = "disposed" /\ ~lock[arg[k]]
    /\ \A c \in store : status[c] # "unborn"

Inv ==
    /\ TypeOK
    /\ CallShape
    /\ Chain
    /\ OpLockOwned
    /\ CheckpointLockOwned
    /\ Custody
    /\ RevertibleHasStorage
    /\ RunKeepsBranch
    /\ TargetNotRolledBack
-----------------------------------------------------------------------------
(* The queue. *)

\* A call whose awaited promise is resolved is preceded by resolved calls only:
\* the one just before it has left, and so, by Chain, have those before that.
LEMMA TurnMeansFirst ==
    ASSUME TypeOK, Chain,
           NEW k \in Calls, pc[k] = "queued", MyTurn(k),
           NEW i \in 1 .. Len(arrivals), NEW j \in 1 .. Len(arrivals),
           i < j, arrivals[j] = k
    PROVE  arrivals[i] \in resolved
<1>1. prev[k] = arrivals[j - 1] /\ j - 1 \in 1 .. Len(arrivals)
  BY DEF Chain, TypeOK
<1>2. arrivals[j - 1] \in Calls
  BY <1>1 DEF TypeOK
<1>3. arrivals[j - 1] \in resolved
  BY <1>1, <1>2, NoneAssumption DEF MyTurn
<1>4. CASE i = j - 1
  BY <1>3, <1>4
<1>5. CASE i < j - 1
  <2>1. pc[arrivals[j - 1]] \in {"unlocking", "done"}
    BY <1>1, <1>3 DEF Chain
  <2> QED
    BY <1>1, <1>5, <2>1 DEF Chain
<1> QED
  BY <1>4, <1>5 DEF TypeOK

\* Chain says that of two calls inside the section the earlier has left it.
LEMMA ChainIsMutex == TypeOK /\ CallShape /\ Chain => LifecycleMutex
<1> SUFFICES ASSUME TypeOK, CallShape, Chain,
                    NEW j \in Calls, NEW k \in Calls, InSection(j), InSection(k)
             PROVE  j = k
  BY DEF LifecycleMutex
<1>1. Joined(j) /\ Joined(k)
  BY DEF Chain, CallShape, InSection, Ops, QueueOps, RollbackOps
<1>2. PICK i \in 1 .. Len(arrivals), l \in 1 .. Len(arrivals) :
         arrivals[i] = j /\ arrivals[l] = k
  BY <1>1 DEF Joined
<1>3. ~(i < l) /\ ~(l < i)
  BY <1>2 DEF Chain, InSection
<1> QED
  BY <1>2, <1>3 DEF TypeOK

-----------------------------------------------------------------------------
(* Each layer of the invariant is kept by every step. *)

\* Every variable keeps its type.
LEMMA TypeStep ==
    ASSUME TypeOK, CallShape, [Next]_vars
    PROVE  TypeOK'
<1> USE DEF TypeOK, CallShape, Statuses, Live, Settled, RollbackOps, Ops, PCs,
   QueueOps, Usable, PlanTarget, DefaultTarget
<1>1. ASSUME NEW c \in Checkpoints, NEW p \in Checkpoints \cup {None}, Register(c, p)
      PROVE  TypeOK'
  BY <1>1 DEF Register, Collected, checkpointVars, queueVars, callVars
<1>2. ASSUME SnapshotFails
      PROVE  TypeOK'
  BY <1>2 DEF SnapshotFails, Collected, checkpointVars, queueVars, callVars
<1>3. ASSUME Dispose
      PROVE  TypeOK'
  BY <1>3 DEF Dispose, checkpointVars, queueVars, callVars
<1>4. ASSUME NEW k \in Calls, NEW c \in Checkpoints, BeginRollback(k, c)
      PROVE  TypeOK'
  BY <1>4 DEF BeginRollback, AcquireOpLock, Enqueue, Open, GoTo, checkpointVars,
     queueVars, callVars
<1>5. ASSUME NEW k \in Calls, NEW c \in Checkpoints, BeginDrop(k, c)
      PROVE  TypeOK'
  BY <1>5 DEF BeginDrop, AcquireOpLock, Enqueue, Open, GoTo, checkpointVars, queueVars,
     callVars
<1>6. ASSUME NEW k \in Calls, NEW c \in Checkpoints, NEW t \in Checkpoints \cup {None},
                 BeginPromoteBranch(k, c, t)
      PROVE  TypeOK'
  BY <1>6 DEF BeginPromoteBranch, AcquireOpLock, Enqueue, Open, GoTo, checkpointVars,
     queueVars, callVars
<1>7. ASSUME NEW k \in Calls, NEW c \in Checkpoints, BeginPromote(k, c)
      PROVE  TypeOK'
  BY <1>7 DEF BeginPromote, Open, GoTo, checkpointVars, queueVars, callVars
<1>8. ASSUME NEW k \in Calls, NEW c \in Checkpoints, BeginRun(k, c)
      PROVE  TypeOK'
  BY <1>8 DEF BeginRun, AcquireOpLock, Open, GoTo, checkpointVars, queueVars, callVars
<1>9. ASSUME NEW k \in Calls, EnterRollback(k)
      PROVE  TypeOK'
  BY <1>9 DEF EnterRollback, GoTo, checkpointVars, queueVars, callVars
<1>10. ASSUME NEW k \in Calls, EnterPromoteBranch(k)
      PROVE  TypeOK'
  BY <1>10 DEF EnterPromoteBranch, GoTo, checkpointVars, queueVars, callVars
<1>11. ASSUME NEW k \in Calls, EnterFails(k)
      PROVE  TypeOK'
  BY <1>11 DEF EnterFails, End, GoTo, checkpointVars, queueVars, callVars
<1>12. ASSUME NEW k \in Calls, RestoreSucceeds(k)
      PROVE  TypeOK'
  BY <1>12 DEF RestoreSucceeds, GoTo, checkpointVars, queueVars, callVars
<1>13. ASSUME NEW k \in Calls, RestoreFails(k)
      PROVE  TypeOK'
  BY <1>13 DEF RestoreFails, End, GoTo, checkpointVars, queueVars, callVars
<1>14. ASSUME NEW k \in Calls, CleanStorage(k)
      PROVE  TypeOK'
  BY <1>14 DEF CleanStorage, End, GoTo, checkpointVars, queueVars, callVars
<1>15. ASSUME NEW k \in Calls, PlanPromotion(k)
      PROVE  TypeOK'
  BY <1>15 DEF PlanPromotion, GoTo, MayPlan, checkpointVars, queueVars, callVars
<1>16. ASSUME NEW k \in Calls, PlanFails(k)
      PROVE  TypeOK'
  BY <1>16 DEF PlanFails, End, GoTo, checkpointVars, queueVars, callVars
<1>17. ASSUME NEW k \in Calls, PromoteSucceeds(k)
      PROVE  TypeOK'
  BY <1>17 DEF PromoteSucceeds, End, GoTo, AfterPromote, checkpointVars, queueVars,
     callVars
<1>18. ASSUME NEW k \in Calls, PromoteFails(k)
      PROVE  TypeOK'
  BY <1>18 DEF PromoteFails, End, GoTo, AfterPromote, checkpointVars, queueVars,
     callVars
<1>19. ASSUME NEW k \in Calls, EndRun(k)
      PROVE  TypeOK'
  BY <1>19 DEF EndRun, End, GoTo, checkpointVars, queueVars, callVars
<1>20. ASSUME NEW k \in Calls, LeaveQueue(k)
      PROVE  TypeOK'
  BY <1>20 DEF LeaveQueue, GoTo, checkpointVars, queueVars, callVars
<1>21. ASSUME NEW k \in Calls, ReleaseOpLock(k)
      PROVE  TypeOK'
  BY <1>21 DEF ReleaseOpLock, GoTo, checkpointVars, queueVars, callVars
<1>22. CASE UNCHANGED vars
  BY <1>22 DEF vars, checkpointVars, queueVars, callVars
<1> QED
  BY <1>1, <1>2, <1>3, <1>4, <1>5, <1>6, <1>7, <1>8, <1>9, <1>10, <1>11, <1>12, <1>13,
     <1>14, <1>15, <1>16, <1>17, <1>18, <1>19, <1>20, <1>21, <1>22 DEF Next, Snapshot,
     Rehydrate, Begin, Resume

\* A label keeps saying which operation stands at it.
LEMMA ShapeStep ==
    ASSUME TypeOK, CallShape, [Next]_vars
    PROVE  CallShape'
<1> USE DEF TypeOK, CallShape, RollbackOps, Ops, QueueOps
<1>1. ASSUME NEW c \in Checkpoints, NEW p \in Checkpoints \cup {None}, Register(c, p)
      PROVE  CallShape'
  BY <1>1 DEF Register, Collected, checkpointVars, queueVars, callVars
<1>2. ASSUME SnapshotFails
      PROVE  CallShape'
  BY <1>2 DEF SnapshotFails, Collected, checkpointVars, queueVars, callVars
<1>3. ASSUME Dispose
      PROVE  CallShape'
  BY <1>3 DEF Dispose, checkpointVars, queueVars, callVars
<1>4. ASSUME NEW k \in Calls, NEW c \in Checkpoints, BeginRollback(k, c)
      PROVE  CallShape'
  BY <1>4 DEF BeginRollback, AcquireOpLock, Enqueue, Open, GoTo, checkpointVars,
     queueVars, callVars
<1>5. ASSUME NEW k \in Calls, NEW c \in Checkpoints, BeginDrop(k, c)
      PROVE  CallShape'
  BY <1>5 DEF BeginDrop, AcquireOpLock, Enqueue, Open, GoTo, checkpointVars, queueVars,
     callVars
<1>6. ASSUME NEW k \in Calls, NEW c \in Checkpoints, NEW t \in Checkpoints \cup {None},
                 BeginPromoteBranch(k, c, t)
      PROVE  CallShape'
  BY <1>6 DEF BeginPromoteBranch, AcquireOpLock, Enqueue, Open, GoTo, checkpointVars,
     queueVars, callVars
<1>7. ASSUME NEW k \in Calls, NEW c \in Checkpoints, BeginPromote(k, c)
      PROVE  CallShape'
  BY <1>7 DEF BeginPromote, Open, GoTo, checkpointVars, queueVars, callVars
<1>8. ASSUME NEW k \in Calls, NEW c \in Checkpoints, BeginRun(k, c)
      PROVE  CallShape'
  BY <1>8 DEF BeginRun, AcquireOpLock, Open, GoTo, checkpointVars, queueVars, callVars
<1>9. ASSUME NEW k \in Calls, EnterRollback(k)
      PROVE  CallShape'
  BY <1>9 DEF EnterRollback, GoTo, checkpointVars, queueVars, callVars
<1>10. ASSUME NEW k \in Calls, EnterPromoteBranch(k)
      PROVE  CallShape'
  BY <1>10 DEF EnterPromoteBranch, GoTo, checkpointVars, queueVars, callVars
<1>11. ASSUME NEW k \in Calls, EnterFails(k)
      PROVE  CallShape'
  BY <1>11 DEF EnterFails, End, GoTo, checkpointVars, queueVars, callVars
<1>12. ASSUME NEW k \in Calls, RestoreSucceeds(k)
      PROVE  CallShape'
  BY <1>12 DEF RestoreSucceeds, GoTo, checkpointVars, queueVars, callVars
<1>13. ASSUME NEW k \in Calls, RestoreFails(k)
      PROVE  CallShape'
  BY <1>13 DEF RestoreFails, End, GoTo, checkpointVars, queueVars, callVars
<1>14. ASSUME NEW k \in Calls, CleanStorage(k)
      PROVE  CallShape'
  BY <1>14 DEF CleanStorage, End, GoTo, checkpointVars, queueVars, callVars
<1>15. ASSUME NEW k \in Calls, PlanPromotion(k)
      PROVE  CallShape'
  BY <1>15 DEF PlanPromotion, GoTo, MayPlan, checkpointVars, queueVars, callVars
<1>16. ASSUME NEW k \in Calls, PlanFails(k)
      PROVE  CallShape'
  BY <1>16 DEF PlanFails, End, GoTo, checkpointVars, queueVars, callVars
<1>17. ASSUME NEW k \in Calls, PromoteSucceeds(k)
      PROVE  CallShape'
  BY <1>17 DEF PromoteSucceeds, End, GoTo, AfterPromote, checkpointVars, queueVars,
     callVars
<1>18. ASSUME NEW k \in Calls, PromoteFails(k)
      PROVE  CallShape'
  BY <1>18 DEF PromoteFails, End, GoTo, AfterPromote, checkpointVars, queueVars,
     callVars
<1>19. ASSUME NEW k \in Calls, EndRun(k)
      PROVE  CallShape'
  BY <1>19 DEF EndRun, End, GoTo, checkpointVars, queueVars, callVars
<1>20. ASSUME NEW k \in Calls, LeaveQueue(k)
      PROVE  CallShape'
  BY <1>20 DEF LeaveQueue, GoTo, checkpointVars, queueVars, callVars
<1>21. ASSUME NEW k \in Calls, ReleaseOpLock(k)
      PROVE  CallShape'
  BY <1>21 DEF ReleaseOpLock, GoTo, checkpointVars, queueVars, callVars
<1>22. CASE UNCHANGED vars
  BY <1>22 DEF vars, checkpointVars, queueVars, callVars
<1> QED
  BY <1>1, <1>2, <1>3, <1>4, <1>5, <1>6, <1>7, <1>8, <1>9, <1>10, <1>11, <1>12, <1>13,
     <1>14, <1>15, <1>16, <1>17, <1>18, <1>19, <1>20, <1>21, <1>22 DEF Next, Snapshot,
     Rehydrate, Begin, Resume

\* A call joins at the end of the chain, goes in when every earlier call is out,
\* and comes out when it resolves its promise.
LEMMA ChainStep ==
    ASSUME TypeOK, CallShape, Chain, [Next]_vars
    PROVE  Chain'
<1> USE DEF TypeOK, CallShape
<1>1. ASSUME NEW c \in Checkpoints, NEW p \in Checkpoints \cup {None}, Register(c, p)
      PROVE  Chain'
  BY <1>1 DEF Register, Collected, checkpointVars, queueVars, callVars, Chain, Joined,
     QueueOps, RollbackOps, Ops
<1>2. ASSUME SnapshotFails
      PROVE  Chain'
  BY <1>2 DEF SnapshotFails, Collected, checkpointVars, queueVars, callVars, Chain,
     Joined, QueueOps, RollbackOps, Ops
<1>3. ASSUME Dispose
      PROVE  Chain'
  BY <1>3 DEF Dispose, checkpointVars, queueVars, callVars, Chain, Joined, QueueOps,
     RollbackOps, Ops
<1>4. ASSUME NEW k \in Calls, NEW c \in Checkpoints, BeginRollback(k, c)
      PROVE  Chain'
  BY <1>4 DEF BeginRollback, AcquireOpLock, Enqueue, Open, GoTo, checkpointVars,
     queueVars, callVars, Chain, Joined, QueueOps, RollbackOps, Ops
<1>5. ASSUME NEW k \in Calls, NEW c \in Checkpoints, BeginDrop(k, c)
      PROVE  Chain'
  BY <1>5 DEF BeginDrop, AcquireOpLock, Enqueue, Open, GoTo, checkpointVars, queueVars,
     callVars, Chain, Joined, QueueOps, RollbackOps, Ops
<1>6. ASSUME NEW k \in Calls, NEW c \in Checkpoints, NEW t \in Checkpoints \cup {None},
                 BeginPromoteBranch(k, c, t)
      PROVE  Chain'
  BY <1>6 DEF BeginPromoteBranch, AcquireOpLock, Enqueue, Open, GoTo, checkpointVars,
     queueVars, callVars, Chain, Joined, QueueOps, RollbackOps, Ops
<1>7. ASSUME NEW k \in Calls, NEW c \in Checkpoints, BeginPromote(k, c)
      PROVE  Chain'
  BY <1>7 DEF BeginPromote, Open, GoTo, checkpointVars, queueVars, callVars, Chain,
     Joined, QueueOps, RollbackOps, Ops
<1>8. ASSUME NEW k \in Calls, NEW c \in Checkpoints, BeginRun(k, c)
      PROVE  Chain'
  BY <1>8 DEF BeginRun, AcquireOpLock, Open, GoTo, checkpointVars, queueVars, callVars,
     Chain, Joined, QueueOps, RollbackOps, Ops
<1>9. ASSUME NEW k \in Calls, EnterRollback(k)
      PROVE  Chain'
  <2>1. \A i, j \in 1 .. Len(arrivals) :
           i < j /\ arrivals[j] = k => arrivals[i] \in resolved
    BY <1>9, TurnMeansFirst DEF EnterRollback
  <2> QED
    BY <1>9, <2>1 DEF EnterRollback, GoTo, checkpointVars, queueVars, callVars, Chain,
       Joined, QueueOps, RollbackOps, Ops
<1>10. ASSUME NEW k \in Calls, EnterPromoteBranch(k)
      PROVE  Chain'
  <2>1. \A i, j \in 1 .. Len(arrivals) :
           i < j /\ arrivals[j] = k => arrivals[i] \in resolved
    BY <1>10, TurnMeansFirst DEF EnterPromoteBranch
  <2> QED
    BY <1>10, <2>1 DEF EnterPromoteBranch, GoTo, checkpointVars, queueVars, callVars,
       Chain, Joined, QueueOps, RollbackOps, Ops
<1>11. ASSUME NEW k \in Calls, EnterFails(k)
      PROVE  Chain'
  <2>1. \A i, j \in 1 .. Len(arrivals) :
           i < j /\ arrivals[j] = k => arrivals[i] \in resolved
    BY <1>11, TurnMeansFirst DEF EnterFails
  <2> QED
    BY <1>11, <2>1 DEF EnterFails, End, GoTo, checkpointVars, queueVars, callVars,
       Chain, Joined, QueueOps, RollbackOps, Ops
<1>12. ASSUME NEW k \in Calls, RestoreSucceeds(k)
      PROVE  Chain'
  BY <1>12 DEF RestoreSucceeds, GoTo, checkpointVars, queueVars, callVars, Chain,
     Joined, QueueOps, RollbackOps, Ops
<1>13. ASSUME NEW k \in Calls, RestoreFails(k)
      PROVE  Chain'
  BY <1>13 DEF RestoreFails, End, GoTo, checkpointVars, queueVars, callVars, Chain,
     Joined, QueueOps, RollbackOps, Ops
<1>14. ASSUME NEW k \in Calls, CleanStorage(k)
      PROVE  Chain'
  BY <1>14 DEF CleanStorage, End, GoTo, checkpointVars, queueVars, callVars, Chain,
     Joined, QueueOps, RollbackOps, Ops
<1>15. ASSUME NEW k \in Calls, PlanPromotion(k)
      PROVE  Chain'
  BY <1>15 DEF PlanPromotion, GoTo, MayPlan, checkpointVars, queueVars, callVars,
     Chain, Joined, QueueOps, RollbackOps, Ops
<1>16. ASSUME NEW k \in Calls, PlanFails(k)
      PROVE  Chain'
  BY <1>16 DEF PlanFails, End, GoTo, checkpointVars, queueVars, callVars, Chain,
     Joined, QueueOps, RollbackOps, Ops
<1>17. ASSUME NEW k \in Calls, PromoteSucceeds(k)
      PROVE  Chain'
  BY <1>17 DEF PromoteSucceeds, End, GoTo, AfterPromote, checkpointVars, queueVars,
     callVars, Chain, Joined, QueueOps, RollbackOps, Ops
<1>18. ASSUME NEW k \in Calls, PromoteFails(k)
      PROVE  Chain'
  BY <1>18 DEF PromoteFails, End, GoTo, AfterPromote, checkpointVars, queueVars,
     callVars, Chain, Joined, QueueOps, RollbackOps, Ops
<1>19. ASSUME NEW k \in Calls, EndRun(k)
      PROVE  Chain'
  BY <1>19 DEF EndRun, End, GoTo, checkpointVars, queueVars, callVars, Chain, Joined,
     QueueOps, RollbackOps, Ops
<1>20. ASSUME NEW k \in Calls, LeaveQueue(k)
      PROVE  Chain'
  BY <1>20 DEF LeaveQueue, GoTo, checkpointVars, queueVars, callVars, Chain, Joined,
     QueueOps, RollbackOps, Ops
<1>21. ASSUME NEW k \in Calls, ReleaseOpLock(k)
      PROVE  Chain'
  BY <1>21 DEF ReleaseOpLock, GoTo, checkpointVars, queueVars, callVars, Chain, Joined,
     QueueOps, RollbackOps, Ops
<1>22. CASE UNCHANGED vars
  BY <1>22 DEF vars, checkpointVars, queueVars, callVars, Chain, Joined, QueueOps,
     RollbackOps, Ops
<1> QED
  BY <1>1, <1>2, <1>3, <1>4, <1>5, <1>6, <1>7, <1>8, <1>9, <1>10, <1>11, <1>12, <1>13,
     <1>14, <1>15, <1>16, <1>17, <1>18, <1>19, <1>20, <1>21, <1>22 DEF Next, Snapshot,
     Rehydrate, Begin, Resume

\* A branch operation acquires a free id and removes only its own.
LEMMA OpLockStep ==
    ASSUME TypeOK, CallShape, OpLockOwned, [Next]_vars
    PROVE  OpLockOwned'
<1> USE DEF TypeOK, CallShape, OpLockOwned, HoldsOpLock, RollbackOps, Ops, QueueOps
<1>1. ASSUME NEW c \in Checkpoints, NEW p \in Checkpoints \cup {None}, Register(c, p)
      PROVE  OpLockOwned'
  BY <1>1 DEF Register, Collected, checkpointVars, queueVars, callVars
<1>2. ASSUME SnapshotFails
      PROVE  OpLockOwned'
  BY <1>2 DEF SnapshotFails, Collected, checkpointVars, queueVars, callVars
<1>3. ASSUME Dispose
      PROVE  OpLockOwned'
  BY <1>3 DEF Dispose, checkpointVars, queueVars, callVars
<1>4. ASSUME NEW k \in Calls, NEW c \in Checkpoints, BeginRollback(k, c)
      PROVE  OpLockOwned'
  BY <1>4 DEF BeginRollback, AcquireOpLock, Enqueue, Open, GoTo, checkpointVars,
     queueVars, callVars
<1>5. ASSUME NEW k \in Calls, NEW c \in Checkpoints, BeginDrop(k, c)
      PROVE  OpLockOwned'
  BY <1>5 DEF BeginDrop, AcquireOpLock, Enqueue, Open, GoTo, checkpointVars, queueVars,
     callVars
<1>6. ASSUME NEW k \in Calls, NEW c \in Checkpoints, NEW t \in Checkpoints \cup {None},
                 BeginPromoteBranch(k, c, t)
      PROVE  OpLockOwned'
  BY <1>6 DEF BeginPromoteBranch, AcquireOpLock, Enqueue, Open, GoTo, checkpointVars,
     queueVars, callVars
<1>7. ASSUME NEW k \in Calls, NEW c \in Checkpoints, BeginPromote(k, c)
      PROVE  OpLockOwned'
  BY <1>7 DEF BeginPromote, Open, GoTo, checkpointVars, queueVars, callVars
<1>8. ASSUME NEW k \in Calls, NEW c \in Checkpoints, BeginRun(k, c)
      PROVE  OpLockOwned'
  BY <1>8 DEF BeginRun, AcquireOpLock, Open, GoTo, checkpointVars, queueVars, callVars
<1>9. ASSUME NEW k \in Calls, EnterRollback(k)
      PROVE  OpLockOwned'
  BY <1>9 DEF EnterRollback, GoTo, checkpointVars, queueVars, callVars
<1>10. ASSUME NEW k \in Calls, EnterPromoteBranch(k)
      PROVE  OpLockOwned'
  BY <1>10 DEF EnterPromoteBranch, GoTo, checkpointVars, queueVars, callVars
<1>11. ASSUME NEW k \in Calls, EnterFails(k)
      PROVE  OpLockOwned'
  BY <1>11 DEF EnterFails, End, GoTo, checkpointVars, queueVars, callVars
<1>12. ASSUME NEW k \in Calls, RestoreSucceeds(k)
      PROVE  OpLockOwned'
  BY <1>12 DEF RestoreSucceeds, GoTo, checkpointVars, queueVars, callVars
<1>13. ASSUME NEW k \in Calls, RestoreFails(k)
      PROVE  OpLockOwned'
  BY <1>13 DEF RestoreFails, End, GoTo, checkpointVars, queueVars, callVars
<1>14. ASSUME NEW k \in Calls, CleanStorage(k)
      PROVE  OpLockOwned'
  <2>1. pc[k] = "cleaning" /\ pc' = [pc EXCEPT ![k] = "releasing"]
    BY <1>14 DEF CleanStorage, End, GoTo
  <2>2. UNCHANGED <<status, lock, opLocks, op, arg>>
    BY <1>14 DEF CleanStorage, End
  <2> QED
    BY <2>1, <2>2
<1>15. ASSUME NEW k \in Calls, PlanPromotion(k)
      PROVE  OpLockOwned'
  BY <1>15 DEF PlanPromotion, GoTo, MayPlan, checkpointVars, queueVars, callVars
<1>16. ASSUME NEW k \in Calls, PlanFails(k)
      PROVE  OpLockOwned'
  BY <1>16 DEF PlanFails, End, GoTo, checkpointVars, queueVars, callVars
<1>17. ASSUME NEW k \in Calls, PromoteSucceeds(k)
      PROVE  OpLockOwned'
  BY <1>17 DEF PromoteSucceeds, End, GoTo, AfterPromote, checkpointVars, queueVars,
     callVars
<1>18. ASSUME NEW k \in Calls, PromoteFails(k)
      PROVE  OpLockOwned'
  BY <1>18 DEF PromoteFails, End, GoTo, AfterPromote, checkpointVars, queueVars,
     callVars
<1>19. ASSUME NEW k \in Calls, EndRun(k)
      PROVE  OpLockOwned'
  <2>1. /\ pc[k] = "running" /\ pc' = [pc EXCEPT ![k] = "unlocking"]
        /\ UNCHANGED <<op, arg, opLocks>>
    BY <1>19 DEF EndRun, End, GoTo
  <2> QED
    BY <2>1
<1>20. ASSUME NEW k \in Calls, LeaveQueue(k)
      PROVE  OpLockOwned'
  BY <1>20 DEF LeaveQueue, GoTo, checkpointVars, queueVars, callVars
<1>21. ASSUME NEW k \in Calls, ReleaseOpLock(k)
      PROVE  OpLockOwned'
  BY <1>21 DEF ReleaseOpLock, GoTo, checkpointVars, queueVars, callVars
<1>22. CASE UNCHANGED vars
  BY <1>22 DEF vars, checkpointVars, queueVars, callVars
<1> QED
  BY <1>1, <1>2, <1>3, <1>4, <1>5, <1>6, <1>7, <1>8, <1>9, <1>10, <1>11, <1>12, <1>13,
     <1>14, <1>15, <1>16, <1>17, <1>18, <1>19, <1>20, <1>21, <1>22 DEF Next, Snapshot,
     Rehydrate, Begin, Resume

\* A checkpoint lock is taken when free and freed by its holder.
LEMMA LockStep ==
    ASSUME TypeOK, CallShape, CheckpointLockOwned, [Next]_vars
    PROVE  CheckpointLockOwned'
<1> USE DEF TypeOK, CallShape, CheckpointLockOwned, HoldsCheckpointLock, RollbackOps,
   Ops, QueueOps, Lockable
<1>1. ASSUME NEW c \in Checkpoints, NEW p \in Checkpoints \cup {None}, Register(c, p)
      PROVE  CheckpointLockOwned'
  BY <1>1 DEF Register, Collected, checkpointVars, queueVars, callVars
<1>2. ASSUME SnapshotFails
      PROVE  CheckpointLockOwned'
  BY <1>2 DEF SnapshotFails, Collected, checkpointVars, queueVars, callVars
<1>3. ASSUME Dispose
      PROVE  CheckpointLockOwned'
  BY <1>3 DEF Dispose, checkpointVars, queueVars, callVars
<1>4. ASSUME NEW k \in Calls, NEW c \in Checkpoints, BeginRollback(k, c)
      PROVE  CheckpointLockOwned'
  BY <1>4 DEF BeginRollback, AcquireOpLock, Enqueue, Open, GoTo, checkpointVars,
     queueVars, callVars
<1>5. ASSUME NEW k \in Calls, NEW c \in Checkpoints, BeginDrop(k, c)
      PROVE  CheckpointLockOwned'
  BY <1>5 DEF BeginDrop, AcquireOpLock, Enqueue, Open, GoTo, checkpointVars, queueVars,
     callVars
<1>6. ASSUME NEW k \in Calls, NEW c \in Checkpoints, NEW t \in Checkpoints \cup {None},
                 BeginPromoteBranch(k, c, t)
      PROVE  CheckpointLockOwned'
  BY <1>6 DEF BeginPromoteBranch, AcquireOpLock, Enqueue, Open, GoTo, checkpointVars,
     queueVars, callVars
<1>7. ASSUME NEW k \in Calls, NEW c \in Checkpoints, BeginPromote(k, c)
      PROVE  CheckpointLockOwned'
  BY <1>7 DEF BeginPromote, Open, GoTo, checkpointVars, queueVars, callVars
<1>8. ASSUME NEW k \in Calls, NEW c \in Checkpoints, BeginRun(k, c)
      PROVE  CheckpointLockOwned'
  BY <1>8 DEF BeginRun, AcquireOpLock, Open, GoTo, checkpointVars, queueVars, callVars
<1>9. ASSUME NEW k \in Calls, EnterRollback(k)
      PROVE  CheckpointLockOwned'
  BY <1>9 DEF EnterRollback, GoTo, checkpointVars, queueVars, callVars
<1>10. ASSUME NEW k \in Calls, EnterPromoteBranch(k)
      PROVE  CheckpointLockOwned'
  BY <1>10 DEF EnterPromoteBranch, GoTo, checkpointVars, queueVars, callVars
<1>11. ASSUME NEW k \in Calls, EnterFails(k)
      PROVE  CheckpointLockOwned'
  BY <1>11 DEF EnterFails, End, GoTo, checkpointVars, queueVars, callVars
<1>12. ASSUME NEW k \in Calls, RestoreSucceeds(k)
      PROVE  CheckpointLockOwned'
  BY <1>12 DEF RestoreSucceeds, GoTo, checkpointVars, queueVars, callVars
<1>13. ASSUME NEW k \in Calls, RestoreFails(k)
      PROVE  CheckpointLockOwned'
  BY <1>13 DEF RestoreFails, End, GoTo, checkpointVars, queueVars, callVars
<1>14. ASSUME NEW k \in Calls, CleanStorage(k)
      PROVE  CheckpointLockOwned'
  <2>1. pc[k] = "cleaning" /\ pc' = [pc EXCEPT ![k] = "releasing"]
    BY <1>14 DEF CleanStorage, End, GoTo
  <2>2. UNCHANGED <<status, lock, opLocks, op, arg>>
    BY <1>14 DEF CleanStorage, End
  <2> QED
    BY <2>1, <2>2
<1>15. ASSUME NEW k \in Calls, PlanPromotion(k)
      PROVE  CheckpointLockOwned'
  BY <1>15 DEF PlanPromotion, GoTo, MayPlan, checkpointVars, queueVars, callVars
<1>16. ASSUME NEW k \in Calls, PlanFails(k)
      PROVE  CheckpointLockOwned'
  BY <1>16 DEF PlanFails, End, GoTo, checkpointVars, queueVars, callVars
<1>17. ASSUME NEW k \in Calls, PromoteSucceeds(k)
      PROVE  CheckpointLockOwned'
  BY <1>17 DEF PromoteSucceeds, End, GoTo, AfterPromote, checkpointVars, queueVars,
     callVars
<1>18. ASSUME NEW k \in Calls, PromoteFails(k)
      PROVE  CheckpointLockOwned'
  BY <1>18 DEF PromoteFails, End, GoTo, AfterPromote, checkpointVars, queueVars,
     callVars
<1>19. ASSUME NEW k \in Calls, EndRun(k)
      PROVE  CheckpointLockOwned'
  <2>1. /\ pc[k] = "running" /\ pc' = [pc EXCEPT ![k] = "unlocking"]
        /\ UNCHANGED <<op, arg, lock, status>>
    BY <1>19 DEF EndRun, End, GoTo, checkpointVars
  <2> QED
    BY <2>1
<1>20. ASSUME NEW k \in Calls, LeaveQueue(k)
      PROVE  CheckpointLockOwned'
  BY <1>20 DEF LeaveQueue, GoTo, checkpointVars, queueVars, callVars
<1>21. ASSUME NEW k \in Calls, ReleaseOpLock(k)
      PROVE  CheckpointLockOwned'
  BY <1>21 DEF ReleaseOpLock, GoTo, checkpointVars, queueVars, callVars
<1>22. CASE UNCHANGED vars
  BY <1>22 DEF vars, checkpointVars, queueVars, callVars
<1> QED
  BY <1>1, <1>2, <1>3, <1>4, <1>5, <1>6, <1>7, <1>8, <1>9, <1>10, <1>11, <1>12, <1>13,
     <1>14, <1>15, <1>16, <1>17, <1>18, <1>19, <1>20, <1>21, <1>22 DEF Next, Snapshot,
     Rehydrate, Begin, Resume

\* A locked checkpoint stays live and in the store until its holder, or dispose(),
\* settles it.
LEMMA CustodyStep ==
    ASSUME TypeOK, CallShape, CheckpointLockOwned, Custody, [Next]_vars
    PROVE  Custody'
<1> USE DEF TypeOK, CallShape, CheckpointLockOwned, HoldsCheckpointLock, RollbackOps,
   Ops, QueueOps, Lockable, Custody, Usable, Live
<1>1. ASSUME NEW c \in Checkpoints, NEW p \in Checkpoints \cup {None}, Register(c, p)
      PROVE  Custody'
  BY <1>1 DEF Register, Collected, checkpointVars, queueVars, callVars
<1>2. ASSUME SnapshotFails
      PROVE  Custody'
  BY <1>2 DEF SnapshotFails, Collected, checkpointVars, queueVars, callVars
<1>3. ASSUME Dispose
      PROVE  Custody'
  BY <1>3 DEF Dispose, checkpointVars, queueVars, callVars
<1>4. ASSUME NEW k \in Calls, NEW c \in Checkpoints, BeginRollback(k, c)
      PROVE  Custody'
  BY <1>4 DEF BeginRollback, AcquireOpLock, Enqueue, Open, GoTo, checkpointVars,
     queueVars, callVars
<1>5. ASSUME NEW k \in Calls, NEW c \in Checkpoints, BeginDrop(k, c)
      PROVE  Custody'
  BY <1>5 DEF BeginDrop, AcquireOpLock, Enqueue, Open, GoTo, checkpointVars, queueVars,
     callVars
<1>6. ASSUME NEW k \in Calls, NEW c \in Checkpoints, NEW t \in Checkpoints \cup {None},
                 BeginPromoteBranch(k, c, t)
      PROVE  Custody'
  BY <1>6 DEF BeginPromoteBranch, AcquireOpLock, Enqueue, Open, GoTo, checkpointVars,
     queueVars, callVars
<1>7. ASSUME NEW k \in Calls, NEW c \in Checkpoints, BeginPromote(k, c)
      PROVE  Custody'
  BY <1>7 DEF BeginPromote, Open, GoTo, checkpointVars, queueVars, callVars
<1>8. ASSUME NEW k \in Calls, NEW c \in Checkpoints, BeginRun(k, c)
      PROVE  Custody'
  BY <1>8 DEF BeginRun, AcquireOpLock, Open, GoTo, checkpointVars, queueVars, callVars
<1>9. ASSUME NEW k \in Calls, EnterRollback(k)
      PROVE  Custody'
  BY <1>9 DEF EnterRollback, GoTo, checkpointVars, queueVars, callVars
<1>10. ASSUME NEW k \in Calls, EnterPromoteBranch(k)
      PROVE  Custody'
  BY <1>10 DEF EnterPromoteBranch, GoTo, checkpointVars, queueVars, callVars
<1>11. ASSUME NEW k \in Calls, EnterFails(k)
      PROVE  Custody'
  BY <1>11 DEF EnterFails, End, GoTo, checkpointVars, queueVars, callVars
<1>12. ASSUME NEW k \in Calls, RestoreSucceeds(k)
      PROVE  Custody'
  BY <1>12 DEF RestoreSucceeds, GoTo, checkpointVars, queueVars, callVars
<1>13. ASSUME NEW k \in Calls, RestoreFails(k)
      PROVE  Custody'
  BY <1>13 DEF RestoreFails, End, GoTo, checkpointVars, queueVars, callVars
<1>14. ASSUME NEW k \in Calls, CleanStorage(k)
      PROVE  Custody'
  BY <1>14 DEF CleanStorage, End, GoTo, checkpointVars, queueVars, callVars
<1>15. ASSUME NEW k \in Calls, PlanPromotion(k)
      PROVE  Custody'
  BY <1>15 DEF PlanPromotion, GoTo, MayPlan, checkpointVars, queueVars, callVars
<1>16. ASSUME NEW k \in Calls, PlanFails(k)
      PROVE  Custody'
  BY <1>16 DEF PlanFails, End, GoTo, checkpointVars, queueVars, callVars
<1>17. ASSUME NEW k \in Calls, PromoteSucceeds(k)
      PROVE  Custody'
  BY <1>17 DEF PromoteSucceeds, End, GoTo, AfterPromote, checkpointVars, queueVars,
     callVars
<1>18. ASSUME NEW k \in Calls, PromoteFails(k)
      PROVE  Custody'
  BY <1>18 DEF PromoteFails, End, GoTo, AfterPromote, checkpointVars, queueVars,
     callVars
<1>19. ASSUME NEW k \in Calls, EndRun(k)
      PROVE  Custody'
  BY <1>19 DEF EndRun, End, GoTo, checkpointVars, queueVars, callVars
<1>20. ASSUME NEW k \in Calls, LeaveQueue(k)
      PROVE  Custody'
  BY <1>20 DEF LeaveQueue, GoTo, checkpointVars, queueVars, callVars
<1>21. ASSUME NEW k \in Calls, ReleaseOpLock(k)
      PROVE  Custody'
  BY <1>21 DEF ReleaseOpLock, GoTo, checkpointVars, queueVars, callVars
<1>22. CASE UNCHANGED vars
  BY <1>22 DEF vars, checkpointVars, queueVars, callVars
<1> QED
  BY <1>1, <1>2, <1>3, <1>4, <1>5, <1>6, <1>7, <1>8, <1>9, <1>10, <1>11, <1>12, <1>13,
     <1>14, <1>15, <1>16, <1>17, <1>18, <1>19, <1>20, <1>21, <1>22 DEF Next, Snapshot,
     Rehydrate, Begin, Resume

\* Only a settled checkpoint loses its storage.
LEMMA StorageStep ==
    ASSUME TypeOK, CallShape, Custody, RevertibleHasStorage, [Next]_vars
    PROVE  RevertibleHasStorage'
<1> USE DEF TypeOK, CallShape, RevertibleHasStorage, ActiveCheckpoints, Custody,
   Usable, Live, Lockable
<1>1. ASSUME NEW c \in Checkpoints, NEW p \in Checkpoints \cup {None}, Register(c, p)
      PROVE  RevertibleHasStorage'
  BY <1>1 DEF Register, Collected, checkpointVars, queueVars, callVars
<1>2. ASSUME SnapshotFails
      PROVE  RevertibleHasStorage'
  BY <1>2 DEF SnapshotFails, Collected, checkpointVars, queueVars, callVars
<1>3. ASSUME Dispose
      PROVE  RevertibleHasStorage'
  BY <1>3 DEF Dispose, checkpointVars, queueVars, callVars
<1>4. ASSUME NEW k \in Calls, NEW c \in Checkpoints, BeginRollback(k, c)
      PROVE  RevertibleHasStorage'
  BY <1>4 DEF BeginRollback, AcquireOpLock, Enqueue, Open, GoTo, checkpointVars,
     queueVars, callVars
<1>5. ASSUME NEW k \in Calls, NEW c \in Checkpoints, BeginDrop(k, c)
      PROVE  RevertibleHasStorage'
  BY <1>5 DEF BeginDrop, AcquireOpLock, Enqueue, Open, GoTo, checkpointVars, queueVars,
     callVars
<1>6. ASSUME NEW k \in Calls, NEW c \in Checkpoints, NEW t \in Checkpoints \cup {None},
                 BeginPromoteBranch(k, c, t)
      PROVE  RevertibleHasStorage'
  BY <1>6 DEF BeginPromoteBranch, AcquireOpLock, Enqueue, Open, GoTo, checkpointVars,
     queueVars, callVars
<1>7. ASSUME NEW k \in Calls, NEW c \in Checkpoints, BeginPromote(k, c)
      PROVE  RevertibleHasStorage'
  BY <1>7 DEF BeginPromote, Open, GoTo, checkpointVars, queueVars, callVars
<1>8. ASSUME NEW k \in Calls, NEW c \in Checkpoints, BeginRun(k, c)
      PROVE  RevertibleHasStorage'
  BY <1>8 DEF BeginRun, AcquireOpLock, Open, GoTo, checkpointVars, queueVars, callVars
<1>9. ASSUME NEW k \in Calls, EnterRollback(k)
      PROVE  RevertibleHasStorage'
  BY <1>9 DEF EnterRollback, GoTo, checkpointVars, queueVars, callVars
<1>10. ASSUME NEW k \in Calls, EnterPromoteBranch(k)
      PROVE  RevertibleHasStorage'
  BY <1>10 DEF EnterPromoteBranch, GoTo, checkpointVars, queueVars, callVars
<1>11. ASSUME NEW k \in Calls, EnterFails(k)
      PROVE  RevertibleHasStorage'
  BY <1>11 DEF EnterFails, End, GoTo, checkpointVars, queueVars, callVars
<1>12. ASSUME NEW k \in Calls, RestoreSucceeds(k)
      PROVE  RevertibleHasStorage'
  BY <1>12 DEF RestoreSucceeds, GoTo, checkpointVars, queueVars, callVars
<1>13. ASSUME NEW k \in Calls, RestoreFails(k)
      PROVE  RevertibleHasStorage'
  BY <1>13 DEF RestoreFails, End, GoTo, checkpointVars, queueVars, callVars
<1>14. ASSUME NEW k \in Calls, CleanStorage(k)
      PROVE  RevertibleHasStorage'
  BY <1>14 DEF CleanStorage, End, GoTo, checkpointVars, queueVars, callVars
<1>15. ASSUME NEW k \in Calls, PlanPromotion(k)
      PROVE  RevertibleHasStorage'
  BY <1>15 DEF PlanPromotion, GoTo, MayPlan, checkpointVars, queueVars, callVars
<1>16. ASSUME NEW k \in Calls, PlanFails(k)
      PROVE  RevertibleHasStorage'
  BY <1>16 DEF PlanFails, End, GoTo, checkpointVars, queueVars, callVars
<1>17. ASSUME NEW k \in Calls, PromoteSucceeds(k)
      PROVE  RevertibleHasStorage'
  BY <1>17 DEF PromoteSucceeds, End, GoTo, AfterPromote, checkpointVars, queueVars,
     callVars
<1>18. ASSUME NEW k \in Calls, PromoteFails(k)
      PROVE  RevertibleHasStorage'
  BY <1>18 DEF PromoteFails, End, GoTo, AfterPromote, checkpointVars, queueVars,
     callVars
<1>19. ASSUME NEW k \in Calls, EndRun(k)
      PROVE  RevertibleHasStorage'
  BY <1>19 DEF EndRun, End, GoTo, checkpointVars, queueVars, callVars
<1>20. ASSUME NEW k \in Calls, LeaveQueue(k)
      PROVE  RevertibleHasStorage'
  BY <1>20 DEF LeaveQueue, GoTo, checkpointVars, queueVars, callVars
<1>21. ASSUME NEW k \in Calls, ReleaseOpLock(k)
      PROVE  RevertibleHasStorage'
  BY <1>21 DEF ReleaseOpLock, GoTo, checkpointVars, queueVars, callVars
<1>22. CASE UNCHANGED vars
  BY <1>22 DEF vars, checkpointVars, queueVars, callVars
<1> QED
  BY <1>1, <1>2, <1>3, <1>4, <1>5, <1>6, <1>7, <1>8, <1>9, <1>10, <1>11, <1>12, <1>13,
     <1>14, <1>15, <1>16, <1>17, <1>18, <1>19, <1>20, <1>21, <1>22 DEF Next, Snapshot,
     Rehydrate, Begin, Resume

\* The operation lock of a running branch keeps rollbacks and drops of it out.
LEMMA RunStep ==
    ASSUME TypeOK, CallShape, OpLockOwned,
           CheckpointLockOwned, RunKeepsBranch, [Next]_vars
    PROVE  RunKeepsBranch'
<1> USE DEF TypeOK, CallShape, OpLockOwned, CheckpointLockOwned, RunKeepsBranch,
   HoldsCheckpointLock, HoldsOpLock, RollbackOps, Ops, QueueOps, Usable, Live
<1>1. ASSUME NEW c \in Checkpoints, NEW p \in Checkpoints \cup {None}, Register(c, p)
      PROVE  RunKeepsBranch'
  BY <1>1 DEF Register, Collected, checkpointVars, queueVars, callVars
<1>2. ASSUME SnapshotFails
      PROVE  RunKeepsBranch'
  BY <1>2 DEF SnapshotFails, Collected, checkpointVars, queueVars, callVars
<1>3. ASSUME Dispose
      PROVE  RunKeepsBranch'
  BY <1>3 DEF Dispose, checkpointVars, queueVars, callVars
<1>4. ASSUME NEW k \in Calls, NEW c \in Checkpoints, BeginRollback(k, c)
      PROVE  RunKeepsBranch'
  BY <1>4 DEF BeginRollback, AcquireOpLock, Enqueue, Open, GoTo, checkpointVars,
     queueVars, callVars
<1>5. ASSUME NEW k \in Calls, NEW c \in Checkpoints, BeginDrop(k, c)
      PROVE  RunKeepsBranch'
  BY <1>5 DEF BeginDrop, AcquireOpLock, Enqueue, Open, GoTo, checkpointVars, queueVars,
     callVars
<1>6. ASSUME NEW k \in Calls, NEW c \in Checkpoints, NEW t \in Checkpoints \cup {None},
                 BeginPromoteBranch(k, c, t)
      PROVE  RunKeepsBranch'
  BY <1>6 DEF BeginPromoteBranch, AcquireOpLock, Enqueue, Open, GoTo, checkpointVars,
     queueVars, callVars
<1>7. ASSUME NEW k \in Calls, NEW c \in Checkpoints, BeginPromote(k, c)
      PROVE  RunKeepsBranch'
  BY <1>7 DEF BeginPromote, Open, GoTo, checkpointVars, queueVars, callVars
<1>8. ASSUME NEW k \in Calls, NEW c \in Checkpoints, BeginRun(k, c)
      PROVE  RunKeepsBranch'
  <2>1. c \notin opLocks /\ Usable(c)
    BY <1>8 DEF BeginRun, AcquireOpLock
  <2>2. status[c] # "rolling-back"
    BY <2>1 DEF HoldsOpLock
  <2>3. status[c] = "active"
    BY <2>1, <2>2
  <2>4. /\ pc' = [pc EXCEPT ![k] = "running"]
        /\ arg' = [arg EXCEPT ![k] = c]
        /\ UNCHANGED <<status, disposed>>
    BY <1>8 DEF BeginRun, Open, GoTo, checkpointVars
  <2> QED
    BY <2>3, <2>4
<1>9. ASSUME NEW k \in Calls, EnterRollback(k)
      PROVE  RunKeepsBranch'
  <2>1. \A j \in Calls : pc[j] = "running" => arg[j] # arg[k]
    BY <1>9 DEF EnterRollback
  <2>2. /\ status' = [status EXCEPT ![arg[k]] = "rolling-back"]
        /\ pc' = [pc EXCEPT ![k] = "locked"]
        /\ UNCHANGED <<arg, disposed>>
    BY <1>9 DEF EnterRollback, GoTo
  <2> QED
    BY <2>1, <2>2
<1>10. ASSUME NEW k \in Calls, EnterPromoteBranch(k)
      PROVE  RunKeepsBranch'
  BY <1>10 DEF EnterPromoteBranch, GoTo, checkpointVars, queueVars, callVars
<1>11. ASSUME NEW k \in Calls, EnterFails(k)
      PROVE  RunKeepsBranch'
  BY <1>11 DEF EnterFails, End, GoTo, checkpointVars, queueVars, callVars
<1>12. ASSUME NEW k \in Calls, RestoreSucceeds(k)
      PROVE  RunKeepsBranch'
  BY <1>12 DEF RestoreSucceeds, GoTo, checkpointVars, queueVars, callVars
<1>13. ASSUME NEW k \in Calls, RestoreFails(k)
      PROVE  RunKeepsBranch'
  BY <1>13 DEF RestoreFails, End, GoTo, checkpointVars, queueVars, callVars
<1>14. ASSUME NEW k \in Calls, CleanStorage(k)
      PROVE  RunKeepsBranch'
  BY <1>14 DEF CleanStorage, End, GoTo, checkpointVars, queueVars, callVars
<1>15. ASSUME NEW k \in Calls, PlanPromotion(k)
      PROVE  RunKeepsBranch'
  BY <1>15 DEF PlanPromotion, GoTo, MayPlan, checkpointVars, queueVars, callVars
<1>16. ASSUME NEW k \in Calls, PlanFails(k)
      PROVE  RunKeepsBranch'
  BY <1>16 DEF PlanFails, End, GoTo, checkpointVars, queueVars, callVars
<1>17. ASSUME NEW k \in Calls, PromoteSucceeds(k)
      PROVE  RunKeepsBranch'
  BY <1>17 DEF PromoteSucceeds, End, GoTo, AfterPromote, checkpointVars, queueVars,
     callVars
<1>18. ASSUME NEW k \in Calls, PromoteFails(k)
      PROVE  RunKeepsBranch'
  BY <1>18 DEF PromoteFails, End, GoTo, AfterPromote, checkpointVars, queueVars,
     callVars
<1>19. ASSUME NEW k \in Calls, EndRun(k)
      PROVE  RunKeepsBranch'
  BY <1>19 DEF EndRun, End, GoTo, checkpointVars, queueVars, callVars
<1>20. ASSUME NEW k \in Calls, LeaveQueue(k)
      PROVE  RunKeepsBranch'
  BY <1>20 DEF LeaveQueue, GoTo, checkpointVars, queueVars, callVars
<1>21. ASSUME NEW k \in Calls, ReleaseOpLock(k)
      PROVE  RunKeepsBranch'
  BY <1>21 DEF ReleaseOpLock, GoTo, checkpointVars, queueVars, callVars
<1>22. CASE UNCHANGED vars
  BY <1>22 DEF vars, checkpointVars, queueVars, callVars
<1> QED
  BY <1>1, <1>2, <1>3, <1>4, <1>5, <1>6, <1>7, <1>8, <1>9, <1>10, <1>11, <1>12, <1>13,
     <1>14, <1>15, <1>16, <1>17, <1>18, <1>19, <1>20, <1>21, <1>22 DEF Next, Snapshot,
     Rehydrate, Begin, Resume

\* A rollback of the target would be in the lifecycle section with the promotion.
LEMMA TargetStep ==
    ASSUME TypeOK, CallShape, LifecycleMutex, LifecycleMutex',
           CheckpointLockOwned, TargetNotRolledBack, [Next]_vars
    PROVE  TargetNotRolledBack'
<1> USE DEF TypeOK, CallShape, LifecycleMutex, InSection, CheckpointLockOwned,
   TargetNotRolledBack, HoldsCheckpointLock, RollbackOps, Ops, QueueOps, Usable, Live,
   PlanTarget, DefaultTarget
<1>1. ASSUME NEW c \in Checkpoints, NEW p \in Checkpoints \cup {None}, Register(c, p)
      PROVE  TargetNotRolledBack'
  BY <1>1 DEF Register, Collected, checkpointVars, queueVars, callVars
<1>2. ASSUME SnapshotFails
      PROVE  TargetNotRolledBack'
  BY <1>2 DEF SnapshotFails, Collected, checkpointVars, queueVars, callVars
<1>3. ASSUME Dispose
      PROVE  TargetNotRolledBack'
  BY <1>3 DEF Dispose, checkpointVars, queueVars, callVars
<1>4. ASSUME NEW k \in Calls, NEW c \in Checkpoints, BeginRollback(k, c)
      PROVE  TargetNotRolledBack'
  BY <1>4 DEF BeginRollback, AcquireOpLock, Enqueue, Open, GoTo, checkpointVars,
     queueVars, callVars
<1>5. ASSUME NEW k \in Calls, NEW c \in Checkpoints, BeginDrop(k, c)
      PROVE  TargetNotRolledBack'
  BY <1>5 DEF BeginDrop, AcquireOpLock, Enqueue, Open, GoTo, checkpointVars, queueVars,
     callVars
<1>6. ASSUME NEW k \in Calls, NEW c \in Checkpoints, NEW t \in Checkpoints \cup {None},
                 BeginPromoteBranch(k, c, t)
      PROVE  TargetNotRolledBack'
  BY <1>6 DEF BeginPromoteBranch, AcquireOpLock, Enqueue, Open, GoTo, checkpointVars,
     queueVars, callVars
<1>7. ASSUME NEW k \in Calls, NEW c \in Checkpoints, BeginPromote(k, c)
      PROVE  TargetNotRolledBack'
  BY <1>7 DEF BeginPromote, Open, GoTo, checkpointVars, queueVars, callVars
<1>8. ASSUME NEW k \in Calls, NEW c \in Checkpoints, BeginRun(k, c)
      PROVE  TargetNotRolledBack'
  BY <1>8 DEF BeginRun, AcquireOpLock, Open, GoTo, checkpointVars, queueVars, callVars
<1>9. ASSUME NEW k \in Calls, EnterRollback(k)
      PROVE  TargetNotRolledBack'
  BY <1>9 DEF EnterRollback, GoTo, checkpointVars, queueVars, callVars
<1>10. ASSUME NEW k \in Calls, EnterPromoteBranch(k)
      PROVE  TargetNotRolledBack'
  BY <1>10 DEF EnterPromoteBranch, GoTo, checkpointVars, queueVars, callVars
<1>11. ASSUME NEW k \in Calls, EnterFails(k)
      PROVE  TargetNotRolledBack'
  BY <1>11 DEF EnterFails, End, GoTo, checkpointVars, queueVars, callVars
<1>12. ASSUME NEW k \in Calls, RestoreSucceeds(k)
      PROVE  TargetNotRolledBack'
  BY <1>12 DEF RestoreSucceeds, GoTo, checkpointVars, queueVars, callVars
<1>13. ASSUME NEW k \in Calls, RestoreFails(k)
      PROVE  TargetNotRolledBack'
  BY <1>13 DEF RestoreFails, End, GoTo, checkpointVars, queueVars, callVars
<1>14. ASSUME NEW k \in Calls, CleanStorage(k)
      PROVE  TargetNotRolledBack'
  BY <1>14 DEF CleanStorage, End, GoTo, checkpointVars, queueVars, callVars
<1>15. ASSUME NEW k \in Calls, PlanPromotion(k)
      PROVE  TargetNotRolledBack'
  <2>1. goal' = [goal EXCEPT ![k] = PlanTarget(k)] /\ pc' = [pc EXCEPT ![k] = "locked"]
    BY <1>15 DEF PlanPromotion, GoTo
  <2>2. UNCHANGED <<status, op, disposed>>
    BY <1>15 DEF PlanPromotion
  <2>3. pc[k] = "reconciled"
    BY <1>15 DEF PlanPromotion
  <2>4. ASSUME PlanTarget(k) # None
        PROVE  PlanTarget(k) \in Checkpoints /\ status[PlanTarget(k)] \in Live
    BY <1>15, <2>4 DEF PlanPromotion, MayPlan
  <2>5. ASSUME PlanTarget(k) # None, status[PlanTarget(k)] = "rolling-back"
        PROVE  FALSE
    <3>1. PICK j \in Calls : pc[j] = "locked" /\ op[j] \in RollbackOps
      BY <2>4, <2>5
    <3> QED
      BY <2>3, <3>1
  <2>6. PlanTarget(k) # None => status[PlanTarget(k)] = "active"
    BY <2>4, <2>5
  <2> HIDE DEF PlanTarget
  <2> QED
    BY <2>1, <2>2, <2>6
<1>16. ASSUME NEW k \in Calls, PlanFails(k)
      PROVE  TargetNotRolledBack'
  BY <1>16 DEF PlanFails, End, GoTo, checkpointVars, queueVars, callVars
<1>17. ASSUME NEW k \in Calls, PromoteSucceeds(k)
      PROVE  TargetNotRolledBack'
  BY <1>17 DEF PromoteSucceeds, End, GoTo, AfterPromote, checkpointVars, queueVars,
     callVars
<1>18. ASSUME NEW k \in Calls, PromoteFails(k)
      PROVE  TargetNotRolledBack'
  BY <1>18 DEF PromoteFails, End, GoTo, AfterPromote, checkpointVars, queueVars,
     callVars
<1>19. ASSUME NEW k \in Calls, EndRun(k)
      PROVE  TargetNotRolledBack'
  BY <1>19 DEF EndRun, End, GoTo, checkpointVars, queueVars, callVars
<1>20. ASSUME NEW k \in Calls, LeaveQueue(k)
      PROVE  TargetNotRolledBack'
  BY <1>20 DEF LeaveQueue, GoTo, checkpointVars, queueVars, callVars
<1>21. ASSUME NEW k \in Calls, ReleaseOpLock(k)
      PROVE  TargetNotRolledBack'
  BY <1>21 DEF ReleaseOpLock, GoTo, checkpointVars, queueVars, callVars
<1>22. CASE UNCHANGED vars
  BY <1>22 DEF vars, checkpointVars, queueVars, callVars
<1> QED
  BY <1>1, <1>2, <1>3, <1>4, <1>5, <1>6, <1>7, <1>8, <1>9, <1>10, <1>11, <1>12, <1>13,
     <1>14, <1>15, <1>16, <1>17, <1>18, <1>19, <1>20, <1>21, <1>22 DEF Next, Snapshot,
     Rehydrate, Begin, Resume

-----------------------------------------------------------------------------
(* The theorems. *)

LEMMA InitInv == Init => Inv
<1> SUFFICES ASSUME Init PROVE Inv
  OBVIOUS
<1> USE DEF Init
<1>1. TypeOK
  <2>1. arrivals \in Seq(Calls)
    OBVIOUS
  <2>2. lock \in [Checkpoints -> BOOLEAN] /\ disposed \in BOOLEAN
    OBVIOUS
  <2> QED
    BY <2>1, <2>2 DEF TypeOK, Statuses, PCs
<1>2. CallShape
  BY DEF CallShape
<1>3. Chain
  BY DEF Chain, Joined
<1>4. OpLockOwned
  BY DEF OpLockOwned, HoldsOpLock
<1>5. CheckpointLockOwned
  BY DEF CheckpointLockOwned, HoldsCheckpointLock
<1>6. Custody
  BY DEF Custody
<1>7. RevertibleHasStorage /\ RunKeepsBranch /\ TargetNotRolledBack
  BY DEF RevertibleHasStorage, RunKeepsBranch, TargetNotRolledBack, ActiveCheckpoints
<1> QED
  BY <1>1, <1>2, <1>3, <1>4, <1>5, <1>6, <1>7 DEF Inv

LEMMA InvStep == Inv /\ [Next]_vars => Inv'
<1> SUFFICES ASSUME Inv, [Next]_vars PROVE Inv'
  OBVIOUS
<1>1. TypeOK' /\ CallShape' /\ Chain'
  BY TypeStep, ShapeStep, ChainStep DEF Inv
<1>2. LifecycleMutex /\ LifecycleMutex'
  BY <1>1, ChainIsMutex, PTL DEF Inv
<1>3. OpLockOwned' /\ CheckpointLockOwned' /\ Custody'
  BY OpLockStep, LockStep, CustodyStep DEF Inv
<1>4. RevertibleHasStorage' /\ RunKeepsBranch' /\ TargetNotRolledBack'
  BY <1>2, StorageStep, RunStep, TargetStep DEF Inv
<1> QED
  BY <1>1, <1>3, <1>4 DEF Inv

\* The invariant holds in every reachable state.
THEOREM Invariance == Spec => []Inv
  BY InitInv, InvStep, PTL DEF Spec

\* Every variable keeps its type.
THEOREM TypeCorrect == Spec => []TypeOK
<1>1. Inv => TypeOK
  BY DEF Inv
<1> QED
  BY <1>1, Invariance, PTL

\* withBranchLifecycleLock admits one callback at a time, however many calls
\* queue up and whichever of them throw.
THEOREM MutualExclusion == Spec => []LifecycleMutex
<1>1. Inv => LifecycleMutex
  BY ChainIsMutex DEF Inv
<1> QED
  BY <1>1, Invariance, PTL

\* branchOperationLocks holds exactly the checkpoints of the branch operations
\* in flight, each under one of them.
THEOREM OperationLocks == Spec => []OpLockOwned
<1>1. Inv => OpLockOwned
  BY DEF Inv
<1> QED
  BY <1>1, Invariance, PTL

\* A checkpoint is locked, or rolling back, only under the one call that made
\* it so.
THEOREM CheckpointLocks == Spec => []CheckpointLockOwned
<1>1. Inv => CheckpointLockOwned
  BY DEF Inv
<1> QED
  BY <1>1, Invariance, PTL

\* What can still be rolled back still has its backups.
THEOREM BackupsKept == Spec => []RevertibleHasStorage
<1>1. Inv => RevertibleHasStorage
  BY DEF Inv
<1> QED
  BY <1>1, Invariance, PTL

\* The target of a promotion in flight is not rolled back.
THEOREM TargetsKept == Spec => []TargetNotRolledBack
<1>1. Inv => TargetNotRolledBack
  BY DEF Inv
<1> QED
  BY <1>1, Invariance, PTL

\* The branch under a running callback is not rolled back or dropped.
THEOREM RunsKept == Spec => []RunKeepsBranch
<1>1. Inv => RunKeepsBranch
  BY DEF Inv
<1> QED
  BY <1>1, Invariance, PTL


\* A settled checkpoint keeps its status while the workspace lives: whoever
\* could change it would have to hold the lock of a live checkpoint.
LEMMA SettledStep ==
    ASSUME Inv, [Next]_vars, NEW d \in Checkpoints, status[d] \in Settled, ~disposed
    PROVE  status'[d] = status[d]
<1> USE DEF Inv, TypeOK, CallShape, Custody, Usable, Live, Settled
<1>1. ASSUME NEW c \in Checkpoints, NEW p \in Checkpoints \cup {None}, Register(c, p)
      PROVE  status'[d] = status[d]
  BY <1>1 DEF Register, checkpointVars
<1>2. ASSUME SnapshotFails
      PROVE  status'[d] = status[d]
  BY <1>2 DEF SnapshotFails, checkpointVars
<1>3. ASSUME Dispose
      PROVE  status'[d] = status[d]
  BY <1>3 DEF Dispose, checkpointVars
<1>4. ASSUME NEW k \in Calls, NEW c \in Checkpoints, BeginRollback(k, c)
      PROVE  status'[d] = status[d]
  BY <1>4 DEF BeginRollback, checkpointVars
<1>5. ASSUME NEW k \in Calls, NEW c \in Checkpoints, BeginDrop(k, c)
      PROVE  status'[d] = status[d]
  BY <1>5 DEF BeginDrop, checkpointVars
<1>6. ASSUME NEW k \in Calls, NEW c \in Checkpoints, NEW t \in Checkpoints \cup {None},
                 BeginPromoteBranch(k, c, t)
      PROVE  status'[d] = status[d]
  BY <1>6 DEF BeginPromoteBranch, checkpointVars
<1>7. ASSUME NEW k \in Calls, NEW c \in Checkpoints, BeginPromote(k, c)
      PROVE  status'[d] = status[d]
  BY <1>7 DEF BeginPromote, checkpointVars
<1>8. ASSUME NEW k \in Calls, NEW c \in Checkpoints, BeginRun(k, c)
      PROVE  status'[d] = status[d]
  BY <1>8 DEF BeginRun, checkpointVars
<1>9. ASSUME NEW k \in Calls, EnterRollback(k)
      PROVE  status'[d] = status[d]
  BY <1>9 DEF EnterRollback, checkpointVars
<1>10. ASSUME NEW k \in Calls, EnterPromoteBranch(k)
      PROVE  status'[d] = status[d]
  BY <1>10 DEF EnterPromoteBranch, checkpointVars
<1>11. ASSUME NEW k \in Calls, EnterFails(k)
      PROVE  status'[d] = status[d]
  BY <1>11 DEF EnterFails, checkpointVars
<1>12. ASSUME NEW k \in Calls, RestoreSucceeds(k)
      PROVE  status'[d] = status[d]
  BY <1>12 DEF RestoreSucceeds, checkpointVars
<1>13. ASSUME NEW k \in Calls, RestoreFails(k)
      PROVE  status'[d] = status[d]
  BY <1>13 DEF RestoreFails, checkpointVars
<1>14. ASSUME NEW k \in Calls, CleanStorage(k)
      PROVE  status'[d] = status[d]
  BY <1>14 DEF CleanStorage, checkpointVars
<1>15. ASSUME NEW k \in Calls, PlanPromotion(k)
      PROVE  status'[d] = status[d]
  BY <1>15 DEF PlanPromotion, checkpointVars
<1>16. ASSUME NEW k \in Calls, PlanFails(k)
      PROVE  status'[d] = status[d]
  BY <1>16 DEF PlanFails, checkpointVars
<1>17. ASSUME NEW k \in Calls, PromoteSucceeds(k)
      PROVE  status'[d] = status[d]
  BY <1>17 DEF PromoteSucceeds, checkpointVars
<1>18. ASSUME NEW k \in Calls, PromoteFails(k)
      PROVE  status'[d] = status[d]
  BY <1>18 DEF PromoteFails, checkpointVars
<1>19. ASSUME NEW k \in Calls, EndRun(k)
      PROVE  status'[d] = status[d]
  BY <1>19 DEF EndRun, checkpointVars
<1>20. ASSUME NEW k \in Calls, LeaveQueue(k)
      PROVE  status'[d] = status[d]
  BY <1>20 DEF LeaveQueue, checkpointVars
<1>21. ASSUME NEW k \in Calls, ReleaseOpLock(k)
      PROVE  status'[d] = status[d]
  BY <1>21 DEF ReleaseOpLock, checkpointVars
<1>22. CASE UNCHANGED vars
  BY <1>22 DEF vars, checkpointVars
<1> QED
  BY <1>1, <1>2, <1>3, <1>4, <1>5, <1>6, <1>7, <1>8, <1>9, <1>10, <1>11, <1>12, <1>13,
     <1>14, <1>15, <1>16, <1>17, <1>18, <1>19, <1>20, <1>21, <1>22 DEF Next, Snapshot,
     Rehydrate, Begin, Resume

\* Promotion and rollback of one checkpoint cannot both take effect.
THEOREM SettledForGood == Spec => SettledIsFinal
<1>1. Inv /\ [Next]_vars =>
        [\A c \in Checkpoints :
            status[c] \in Settled /\ ~disposed => status'[c] = status[c]]_vars
  BY SettledStep
<1> QED
  BY <1>1, Invariance, PTL DEF Spec, SettledIsFinal

\* Only snapshot() and rehydrateAttempt() add to the live checkpoints of the
\* store.
LEMMA OthersDoNotActivate ==
    ASSUME Inv, [Next]_vars,
           \A c \in Checkpoints, p \in Checkpoints \cup {None} : ~Register(c, p)
    PROVE  ActiveCheckpoints' \subseteq ActiveCheckpoints /\ store' \subseteq store
<1> USE DEF Inv, TypeOK, CallShape, Custody, Usable, Live, ActiveCheckpoints
<1>1. ASSUME SnapshotFails
      PROVE  ActiveCheckpoints' \subseteq ActiveCheckpoints /\ store' \subseteq store
  BY <1>1 DEF SnapshotFails, checkpointVars
<1>2. ASSUME Dispose
      PROVE  ActiveCheckpoints' \subseteq ActiveCheckpoints /\ store' \subseteq store
  BY <1>2 DEF Dispose, checkpointVars
<1>3. ASSUME NEW k \in Calls, NEW c \in Checkpoints, BeginRollback(k, c)
      PROVE  ActiveCheckpoints' \subseteq ActiveCheckpoints /\ store' \subseteq store
  BY <1>3 DEF BeginRollback, checkpointVars
<1>4. ASSUME NEW k \in Calls, NEW c \in Checkpoints, BeginDrop(k, c)
      PROVE  ActiveCheckpoints' \subseteq ActiveCheckpoints /\ store' \subseteq store
  BY <1>4 DEF BeginDrop, checkpointVars
<1>5. ASSUME NEW k \in Calls, NEW c \in Checkpoints, NEW t \in Checkpoints \cup {None},
                 BeginPromoteBranch(k, c, t)
      PROVE  ActiveCheckpoints' \subseteq ActiveCheckpoints /\ store' \subseteq store
  BY <1>5 DEF BeginPromoteBranch, checkpointVars
<1>6. ASSUME NEW k \in Calls, NEW c \in Checkpoints, BeginPromote(k, c)
      PROVE  ActiveCheckpoints' \subseteq ActiveCheckpoints /\ store' \subseteq store
  BY <1>6 DEF BeginPromote, checkpointVars
<1>7. ASSUME NEW k \in Calls, NEW c \in Checkpoints, BeginRun(k, c)
      PROVE  ActiveCheckpoints' \subseteq ActiveCheckpoints /\ store' \subseteq store
  BY <1>7 DEF BeginRun, checkpointVars
<1>8. ASSUME NEW k \in Calls, EnterRollback(k)
      PROVE  ActiveCheckpoints' \subseteq ActiveCheckpoints /\ store' \subseteq store
  BY <1>8 DEF EnterRollback, checkpointVars
<1>9. ASSUME NEW k \in Calls, EnterPromoteBranch(k)
      PROVE  ActiveCheckpoints' \subseteq ActiveCheckpoints /\ store' \subseteq store
  BY <1>9 DEF EnterPromoteBranch, checkpointVars
<1>10. ASSUME NEW k \in Calls, EnterFails(k)
      PROVE  ActiveCheckpoints' \subseteq ActiveCheckpoints /\ store' \subseteq store
  BY <1>10 DEF EnterFails, checkpointVars
<1>11. ASSUME NEW k \in Calls, RestoreSucceeds(k)
      PROVE  ActiveCheckpoints' \subseteq ActiveCheckpoints /\ store' \subseteq store
  BY <1>11 DEF RestoreSucceeds, checkpointVars
<1>12. ASSUME NEW k \in Calls, RestoreFails(k)
      PROVE  ActiveCheckpoints' \subseteq ActiveCheckpoints /\ store' \subseteq store
  BY <1>12 DEF RestoreFails, checkpointVars
<1>13. ASSUME NEW k \in Calls, CleanStorage(k)
      PROVE  ActiveCheckpoints' \subseteq ActiveCheckpoints /\ store' \subseteq store
  BY <1>13 DEF CleanStorage, checkpointVars
<1>14. ASSUME NEW k \in Calls, PlanPromotion(k)
      PROVE  ActiveCheckpoints' \subseteq ActiveCheckpoints /\ store' \subseteq store
  BY <1>14 DEF PlanPromotion, checkpointVars
<1>15. ASSUME NEW k \in Calls, PlanFails(k)
      PROVE  ActiveCheckpoints' \subseteq ActiveCheckpoints /\ store' \subseteq store
  BY <1>15 DEF PlanFails, checkpointVars
<1>16. ASSUME NEW k \in Calls, PromoteSucceeds(k)
      PROVE  ActiveCheckpoints' \subseteq ActiveCheckpoints /\ store' \subseteq store
  BY <1>16 DEF PromoteSucceeds, checkpointVars
<1>17. ASSUME NEW k \in Calls, PromoteFails(k)
      PROVE  ActiveCheckpoints' \subseteq ActiveCheckpoints /\ store' \subseteq store
  BY <1>17 DEF PromoteFails, checkpointVars
<1>18. ASSUME NEW k \in Calls, EndRun(k)
      PROVE  ActiveCheckpoints' \subseteq ActiveCheckpoints /\ store' \subseteq store
  BY <1>18 DEF EndRun, checkpointVars
<1>19. ASSUME NEW k \in Calls, LeaveQueue(k)
      PROVE  ActiveCheckpoints' \subseteq ActiveCheckpoints /\ store' \subseteq store
  BY <1>19 DEF LeaveQueue, checkpointVars
<1>20. ASSUME NEW k \in Calls, ReleaseOpLock(k)
      PROVE  ActiveCheckpoints' \subseteq ActiveCheckpoints /\ store' \subseteq store
  BY <1>20 DEF ReleaseOpLock, checkpointVars
<1>21. CASE UNCHANGED vars
  BY <1>21 DEF vars, checkpointVars
<1> QED
  BY <1>1, <1>2, <1>3, <1>4, <1>5, <1>6, <1>7, <1>8, <1>9, <1>10, <1>11, <1>12, <1>13,
     <1>14, <1>15, <1>16, <1>17, <1>18, <1>19, <1>20, <1>21 DEF Next, Snapshot,
     Rehydrate, Begin, Resume

FiniteStore == IsFiniteSet(store)

LEMMA CapacityStep ==
    ASSUME Inv, FiniteStore, CapacityRespected, [Next]_vars
    PROVE  FiniteStore' /\ CapacityRespected'
<1>1. IsFiniteSet(ActiveCheckpoints)
  BY FS_Subset DEF FiniteStore, ActiveCheckpoints
<1>2. Cardinality(ActiveCheckpoints) \in Nat
  BY <1>1, FS_CardinalityType
<1>3. ASSUME NEW c \in Checkpoints, NEW p \in Checkpoints \cup {None}, Register(c, p)
      PROVE  FiniteStore' /\ CapacityRespected'
  <2>1. /\ store' \subseteq store \cup {c}
        /\ ActiveCheckpoints' \subseteq ActiveCheckpoints \cup {c}
    BY <1>3 DEF Register, ActiveCheckpoints, Inv, TypeOK
  <2>2. IsFiniteSet(store \cup {c}) /\ IsFiniteSet(ActiveCheckpoints \cup {c})
    BY <1>1, FS_AddElement DEF FiniteStore
  <2>3. Cardinality(ActiveCheckpoints \cup {c}) <= Cardinality(ActiveCheckpoints) + 1
    BY <1>1, <1>2, FS_AddElement
  <2>4. Cardinality(ActiveCheckpoints') <= Cardinality(ActiveCheckpoints \cup {c})
    BY <2>1, <2>2, FS_Subset
  <2>5. IsFiniteSet(ActiveCheckpoints') /\ IsFiniteSet(store')
    BY <2>1, <2>2, FS_Subset
  <2>6. /\ Cardinality(ActiveCheckpoints') \in Nat
        /\ Cardinality(ActiveCheckpoints \cup {c}) \in Nat
    BY <2>2, <2>5, FS_CardinalityType
  <2>7. Cardinality(ActiveCheckpoints) < MaxActive
    BY <1>3 DEF Register
  <2>8. Cardinality(ActiveCheckpoints') <= MaxActive
    BY <1>2, <2>3, <2>4, <2>6, <2>7, MaxActiveAssumption
  <2> QED
    BY <2>5, <2>8 DEF FiniteStore, CapacityRespected
<1>4. ASSUME \A c \in Checkpoints, p \in Checkpoints \cup {None} : ~Register(c, p)
      PROVE  FiniteStore' /\ CapacityRespected'
  <2>1. ActiveCheckpoints' \subseteq ActiveCheckpoints /\ store' \subseteq store
    BY <1>4, OthersDoNotActivate
  <2>2. IsFiniteSet(store')
    BY <2>1, FS_Subset DEF FiniteStore
  <2>3. /\ Cardinality(ActiveCheckpoints') <= Cardinality(ActiveCheckpoints)
        /\ Cardinality(ActiveCheckpoints') \in Nat
    BY <1>1, <2>1, FS_Subset, FS_CardinalityType
  <2>4. Cardinality(ActiveCheckpoints') <= MaxActive
    BY <1>2, <2>3, MaxActiveAssumption DEF CapacityRespected
  <2> QED
    BY <2>2, <2>4 DEF FiniteStore, CapacityRespected
<1> QED
  BY <1>3, <1>4

\* maxConcurrentCheckpoints is never exceeded: a rollback that fails gives back
\* a place its checkpoint never left.
THEOREM Capacity == Spec => []CapacityRespected
<1>1. Init => FiniteStore /\ CapacityRespected
  <2> SUFFICES ASSUME Init PROVE FiniteStore /\ CapacityRespected
    OBVIOUS
  <2>1. store = {} /\ ActiveCheckpoints = {}
    BY DEF Init, ActiveCheckpoints
  <2> QED
    BY <2>1, FS_EmptySet, MaxActiveAssumption DEF FiniteStore, CapacityRespected
<1>2. Inv /\ FiniteStore /\ CapacityRespected /\ [Next]_vars
        => FiniteStore' /\ CapacityRespected'
  BY CapacityStep
<1> QED
  BY <1>1, <1>2, Invariance, PTL DEF Spec
-----------------------------------------------------------------------------
(* The queue implements FifoMutex. *)

\* The calls that have been released are the first ones of the arrivals.
Front ==
    /\ IsFiniteSet(resolved)
    /\ Left \in 0 .. Len(arrivals)
    /\ \A i \in 1 .. Len(arrivals) : arrivals[i] \in resolved <=> i <= Left

\* What the calls do to the queue: they join it, enter the section, leave it,
\* or nothing.
Joins(k) ==
    /\ pc[k] = "idle"
    /\ arrivals' = Append(arrivals, k)
    /\ UNCHANGED resolved
    /\ Inside' = Inside

Enters(k) ==
    /\ pc[k] = "queued" /\ MyTurn(k)
    /\ Inside' = Inside \cup {k}
    /\ UNCHANGED <<arrivals, resolved>>

Leaves(k) ==
    /\ pc[k] = "releasing"
    /\ resolved' = resolved \cup {k}
    /\ Inside' = Inside \ {k}
    /\ UNCHANGED arrivals

Elsewhere == Inside' = Inside /\ UNCHANGED <<arrivals, resolved>>

LEMMA QueueSteps ==
    ASSUME TypeOK, CallShape, [Next]_vars
    PROVE  (\E k \in Calls : Joins(k) \/ Enters(k) \/ Leaves(k)) \/ Elsewhere
<1> USE DEF TypeOK, CallShape, Inside, InSection, RollbackOps, QueueOps, Ops
<1>1. ASSUME NEW k \in Calls, NEW c \in Checkpoints,
             \/ BeginRollback(k, c) \/ BeginDrop(k, c)
             \/ \E t \in Checkpoints \cup {None} : BeginPromoteBranch(k, c, t)
      PROVE  Joins(k)
  BY <1>1 DEF BeginRollback, BeginDrop, BeginPromoteBranch, Open, GoTo, Enqueue, Joins
<1>2. ASSUME NEW k \in Calls, NEW c \in Checkpoints, BeginPromote(k, c) \/ BeginRun(k, c)
      PROVE  Elsewhere
  BY <1>2 DEF BeginPromote, BeginRun, Open, GoTo, queueVars, Elsewhere
<1>3. ASSUME NEW k \in Calls, EnterRollback(k) \/ EnterPromoteBranch(k) \/ EnterFails(k)
      PROVE  Enters(k)
  BY <1>3 DEF EnterRollback, EnterPromoteBranch, EnterFails, End, GoTo, queueVars, Enters
<1>4. ASSUME NEW k \in Calls, RestoreSucceeds(k) \/ RestoreFails(k) \/ CleanStorage(k)
      PROVE  Elsewhere
  BY <1>4 DEF RestoreSucceeds, RestoreFails, CleanStorage, End, GoTo, queueVars, Elsewhere
<1>5. ASSUME NEW k \in Calls, PlanPromotion(k) \/ PlanFails(k)
      PROVE  Elsewhere
  BY <1>5 DEF PlanPromotion, PlanFails, End, GoTo, queueVars, Elsewhere
<1>6. ASSUME NEW k \in Calls, PromoteSucceeds(k) \/ PromoteFails(k)
      PROVE  Elsewhere
  BY <1>6 DEF PromoteSucceeds, PromoteFails, AfterPromote, End, GoTo, queueVars, Elsewhere
<1>7. ASSUME NEW k \in Calls, EndRun(k) \/ ReleaseOpLock(k)
      PROVE  Elsewhere
  BY <1>7 DEF EndRun, ReleaseOpLock, End, GoTo, queueVars, Elsewhere
<1>8. ASSUME NEW k \in Calls, LeaveQueue(k)
      PROVE  Leaves(k)
  BY <1>8 DEF LeaveQueue, GoTo, Leaves
<1>9. ASSUME \/ \E c \in Checkpoints, p \in Checkpoints \cup {None} : Register(c, p)
             \/ SnapshotFails \/ Dispose \/ UNCHANGED vars
      PROVE  Elsewhere
  BY <1>9 DEF Register, SnapshotFails, Dispose, vars, queueVars, callVars, Elsewhere
<1> HIDE DEF TypeOK, CallShape, Inside, InSection, RollbackOps, QueueOps, Ops
<1> QED
  BY <1>1, <1>2, <1>3, <1>4, <1>5, <1>6, <1>7, <1>8, <1>9
     DEF Next, Snapshot, Rehydrate, Begin, Resume

\* A call that was in the section, or has its turn, is the first in the line.
LEMMA FirstInLine ==
    ASSUME TypeOK, CallShape, Chain, Front, NEW k \in Calls,
           InSection(k) \/ (pc[k] = "queued" /\ MyTurn(k))
    PROVE  Left + 1 \in 1 .. Len(arrivals) /\ arrivals[Left + 1] = k
<1>1. Joined(k)
  BY DEF Chain, CallShape, InSection, QueueOps, Ops, RollbackOps
<1>2. PICK j \in 1 .. Len(arrivals) : arrivals[j] = k
  BY <1>1 DEF Joined
<1>3. k \notin resolved
  BY <1>2 DEF Chain, InSection
<1>4. \A i \in 1 .. Len(arrivals) : i < j => arrivals[i] \in resolved
  <2>1. CASE InSection(k)
    BY <1>2, <2>1 DEF Chain, InSection
  <2>2. CASE pc[k] = "queued" /\ MyTurn(k)
    BY <1>2, <2>2, TurnMeansFirst
  <2> QED
    BY <2>1, <2>2
<1>5. Left \in Nat /\ Len(arrivals) \in Nat
  BY DEF Front, TypeOK
<1>6. j > Left
  BY <1>2, <1>3, <1>5 DEF Front
<1>7. \A i \in 1 .. Len(arrivals) : i < j => i <= Left
  BY <1>4 DEF Front
<1>8. j = Left + 1
  <2>1. CASE j = 1
    BY <1>5, <1>6, <2>1
  <2>2. CASE j # 1
    BY <1>5, <1>6, <1>7, <2>2
  <2> QED
    BY <2>1, <2>2
<1> QED
  BY <1>2, <1>8

LEMMA FrontStep ==
    ASSUME Inv, Front, [Next]_vars
    PROVE  Front'
<1> USE DEF Inv
<1>1. Left \in Nat /\ Len(arrivals) \in Nat /\ IsFiniteSet(resolved)
  BY DEF Front, TypeOK
<1>2. ASSUME NEW k \in Calls, Joins(k)
      PROVE  Front'
  <2>1. k \notin resolved
    BY <1>2 DEF Joins, Chain, Joined
  <2>2. /\ Len(arrivals') = Len(arrivals) + 1 /\ arrivals'[Len(arrivals) + 1] = k
        /\ \A i \in 1 .. Len(arrivals) : arrivals'[i] = arrivals[i]
    BY <1>2 DEF Joins, TypeOK
  <2>3. resolved' = resolved /\ Left' = Left
    BY <1>2 DEF Joins, Left
  <2> QED
    BY <1>1, <2>1, <2>2, <2>3 DEF Front
<1>3. ASSUME NEW k \in Calls, Leaves(k)
      PROVE  Front'
  <2>1. InSection(k)
    BY <1>3 DEF Leaves, InSection, CallShape, QueueOps, RollbackOps
  <2>2. Left + 1 \in 1 .. Len(arrivals) /\ arrivals[Left + 1] = k
    BY <2>1, FirstInLine
  <2>3. k \notin resolved
    BY <1>1, <2>2 DEF Front
  <2>4. IsFiniteSet(resolved') /\ Left' = Left + 1
    BY <1>1, <1>3, <2>3, FS_AddElement DEF Leaves, Left
  <2>5. \A i \in 1 .. Len(arrivals) : arrivals[i] = k <=> i = Left + 1
    BY <2>2 DEF Chain
  <2>6. arrivals' = arrivals /\ resolved' = resolved \cup {k}
    BY <1>3 DEF Leaves
  <2> QED
    BY <1>1, <2>2, <2>4, <2>5, <2>6 DEF Front
<1>4. CASE UNCHANGED <<arrivals, resolved>>
  BY <1>4 DEF Front, Left
<1> QED
  BY <1>2, <1>3, <1>4, QueueSteps DEF Enters, Elsewhere

\* What is left of a sequence without its first n elements.
LEMMA SuffixShape ==
    ASSUME NEW S, NEW s \in Seq(S), NEW n \in 0 .. Len(s)
    PROVE  /\ SubSeq(s, n + 1, Len(s)) \in Seq(S)
           /\ Len(SubSeq(s, n + 1, Len(s))) = Len(s) - n
           /\ \A i \in 1 .. Len(s) - n : SubSeq(s, n + 1, Len(s))[i] = s[n + i]
<1>1. n + 1 \in Int /\ Len(s) \in Int /\ \A i \in n + 1 .. Len(s) : s[i] \in S
  OBVIOUS
<1> QED
  BY <1>1, SubSeqProperties

LEMMA SuffixAppend ==
    ASSUME NEW S, NEW s \in Seq(S), NEW e \in S, NEW n \in 0 .. Len(s)
    PROVE  SubSeq(Append(s, e), n + 1, Len(s) + 1) = Append(SubSeq(s, n + 1, Len(s)), e)
<1> DEFINE t == Append(s, e)
           u == SubSeq(s, n + 1, Len(s))
           v == SubSeq(t, n + 1, Len(t))
<1>1. /\ t \in Seq(S) /\ Len(t) = Len(s) + 1 /\ t[Len(s) + 1] = e
      /\ \A i \in 1 .. Len(s) : t[i] = s[i]
  BY AppendProperties
<1>2. /\ u \in Seq(S) /\ Len(u) = Len(s) - n
      /\ \A i \in 1 .. Len(s) - n : u[i] = s[n + i]
  BY SuffixShape
<1>3. n \in 0 .. Len(t)
  BY <1>1
<1>4. /\ v \in Seq(S) /\ Len(v) = Len(t) - n
      /\ \A i \in 1 .. Len(t) - n : v[i] = t[n + i]
  BY <1>1, <1>3, SuffixShape
<1>5. Len(v) = Len(u) + 1 /\ Len(u) \in Nat
  BY <1>1, <1>2, <1>4
<1> HIDE DEF u, v
<1>6. /\ Append(u, e) \in Seq(S) /\ Len(Append(u, e)) = Len(u) + 1
      /\ Append(u, e)[Len(u) + 1] = e
      /\ \A i \in 1 .. Len(u) : Append(u, e)[i] = u[i]
  BY <1>2, AppendProperties
<1> HIDE DEF t
<1>7. \A i \in 1 .. Len(v) : v[i] = Append(u, e)[i]
  <2> SUFFICES ASSUME NEW i \in 1 .. Len(v) PROVE v[i] = Append(u, e)[i]
    OBVIOUS
  <2>1. v[i] = t[n + i]
    BY <1>4
  <2>2. CASE i <= Len(u)
    BY <1>1, <1>2, <1>4, <1>6, <2>1, <2>2
  <2>3. CASE i = Len(u) + 1
    BY <1>1, <1>2, <1>4, <1>6, <2>1, <2>3
  <2> QED
    BY <1>5, <2>2, <2>3
<1>8. v = Append(u, e)
  <2>1. Len(v) = Len(Append(u, e))
    BY <1>5, <1>6
  <2>2. v \in Seq(S) /\ Append(u, e) \in Seq(S)
    BY <1>4, <1>6
  <2> QED
    BY <1>7, <2>1, <2>2, SeqEqual
<1> QED
  BY <1>1, <1>8 DEF t, u, v

LEMMA QueueStep ==
    ASSUME Inv, Front, [Next]_vars
    PROVE  [Fifo!Next]_(Fifo!vars)
<1> USE DEF Inv
<1>1. Left \in Nat /\ Len(arrivals) \in Nat /\ Left <= Len(arrivals) /\ arrivals \in Seq(Calls)
  BY DEF Front, TypeOK
<1>2. ASSUME NEW k \in Calls, Joins(k)
      PROVE  Fifo!Join(k)
  <2>1. Left' = Left /\ Len(arrivals') = Len(arrivals) + 1
        /\ \A i \in 1 .. Len(arrivals) : arrivals'[i] = arrivals[i]
        /\ arrivals'[Len(arrivals) + 1] = k
    BY <1>1, <1>2 DEF Joins, Left
  <2>2. Line' = Append(Line, k)
    <3>1. arrivals' = Append(arrivals, k)
      BY <1>2 DEF Joins
    <3>2. Left \in 0 .. Len(arrivals) /\ Left + 1 \in Nat
      BY <1>1
    <3>3. SubSeq(Append(arrivals, k), Left + 1, Len(arrivals) + 1)
            = Append(SubSeq(arrivals, Left + 1, Len(arrivals)), k)
      BY <1>1, <3>2, SuffixAppend
    <3> QED
      BY <2>1, <3>1, <3>3 DEF Line
  <2>3. k \notin Fifo!InLine
    <3>1. /\ Left \in 0 .. Len(arrivals)
          /\ \A i \in 1 .. Len(arrivals) : arrivals[i] # k
      BY <1>1, <1>2 DEF Joins, Chain
    <3>2. /\ Line \in Seq(Calls) /\ Len(Line) = Len(arrivals) - Left
          /\ \A i \in 1 .. Len(arrivals) - Left : Line[i] = arrivals[Left + i]
      BY <1>1, <3>1, SuffixShape DEF Line
    <3>3. \A i \in 1 .. Len(arrivals) - Left : Left + i \in 1 .. Len(arrivals)
      BY <1>1
    <3> QED
      BY <3>1, <3>2, <3>3 DEF Fifo!InLine
  <2>4. UNCHANGED Inside
    BY <1>2 DEF Joins
  <2> QED
    BY <2>2, <2>3, <2>4 DEF Fifo!Join
<1>3. ASSUME NEW k \in Calls, Enters(k)
      PROVE  Fifo!Enter(k)
  <2>1. Left + 1 \in 1 .. Len(arrivals) /\ arrivals[Left + 1] = k
    BY <1>3, FirstInLine DEF Enters
  <2>2. Line # <<>> /\ Head(Line) = k
    <3>1. Left + 1 \in 1 .. Len(arrivals) /\ Len(arrivals) \in Left + 1 .. Len(arrivals)
      BY <1>1, <2>1
    <3>2. Head(Line) = arrivals[Left + 1]
      BY <1>1, <3>1, HeadTailOfSubSeq DEF Line
    <3>3. Len(Line) = Len(arrivals) - Left
      <4>1. Left \in 0 .. Len(arrivals)
        BY <1>1
      <4> QED
        BY <1>1, <4>1, SuffixShape DEF Line
    <3> QED
      BY <1>1, <2>1, <3>2, <3>3
  <2>3. Inside = {}
    <3> SUFFICES ASSUME NEW j \in Calls, InSection(j) PROVE FALSE
      BY DEF Inside
    <3>1. j = k
      BY <2>1, FirstInLine
    <3> QED
      BY <1>3, <3>1 DEF Enters, InSection
  <2>4. UNCHANGED Line
    BY <1>3 DEF Enters, Line, Left
  <2>5. Inside' = {k}
    BY <1>3, <2>3 DEF Enters
  <2> QED
    BY <2>2, <2>3, <2>4, <2>5 DEF Fifo!Enter
<1>4. ASSUME NEW k \in Calls, Leaves(k)
      PROVE  Fifo!Leave(k)
  <2>1. InSection(k)
    BY <1>4 DEF Leaves, InSection, CallShape, QueueOps, RollbackOps
  <2>2. Left + 1 \in 1 .. Len(arrivals) /\ arrivals[Left + 1] = k
    BY <2>1, FirstInLine
  <2>3. Inside = {k}
    BY <2>1, <2>2, FirstInLine DEF Inside
  <2>4. Line # <<>> /\ Head(Line) = k
    <3>1. Left + 1 \in 1 .. Len(arrivals) /\ Len(arrivals) \in Left + 1 .. Len(arrivals)
      BY <1>1, <2>2
    <3>2. Head(Line) = arrivals[Left + 1]
      BY <1>1, <3>1, HeadTailOfSubSeq DEF Line
    <3>3. Len(Line) = Len(arrivals) - Left
      <4>1. Left \in 0 .. Len(arrivals)
        BY <1>1
      <4> QED
        BY <1>1, <4>1, SuffixShape DEF Line
    <3> QED
      BY <1>1, <2>2, <3>2, <3>3
  <2>5. k \notin resolved
    BY <1>1, <2>2 DEF Front
  <2>6. Left' = Left + 1 /\ arrivals' = arrivals
    BY <1>1, <1>4, <2>5, FS_AddElement DEF Leaves, Left, Front
  <2>7. Line' = Tail(Line)
    BY <1>1, <2>2, <2>6, HeadTailOfSubSeq DEF Line
  <2>8. Inside' = {}
    BY <1>4, <2>3 DEF Leaves
  <2> QED
    BY <2>3, <2>4, <2>7, <2>8 DEF Fifo!Leave
<1>5. CASE Elsewhere
  BY <1>5 DEF Elsewhere, Fifo!vars, Line, Left
<1> QED
  BY <1>2, <1>3, <1>4, <1>5, QueueSteps DEF Fifo!Next

LEMMA FrontInvariance == Spec => []Front
<1>1. Init => Front
  <2> SUFFICES ASSUME Init PROVE Front
    OBVIOUS
  <2>1. resolved = {} /\ arrivals = <<>>
    BY DEF Init
  <2>2. Left = 0 /\ IsFiniteSet(resolved)
    BY <2>1, FS_EmptySet DEF Left
  <2> QED
    BY <2>1, <2>2 DEF Front
<1>2. Inv /\ Front /\ [Next]_vars => Front'
  BY FrontStep
<1> QED
  BY <1>1, <1>2, Invariance, PTL DEF Spec

\* Call j joined the queue before call k did.
JoinedBefore(j, k) ==
    \E m, n \in 1 .. Len(arrivals) : m < n /\ arrivals[m] = j /\ arrivals[n] = k

\* The line holds the calls that have joined and not been released, each once
\* and in the order in which they joined; who is in the section is its head.
LineInOrder ==
    /\ \A k \in Calls : k \in Fifo!InLine <=> Joined(k) /\ k \notin resolved
    /\ \A i, j \in DOMAIN Line : i < j => Line[i] # Line[j] /\ JoinedBefore(Line[i], Line[j])
    /\ \A k \in Calls : InSection(k) => Line # <<>> /\ Head(Line) = k

LEMMA LineShape ==
    ASSUME TypeOK, CallShape, Chain, Front
    PROVE  LineInOrder
<1>1. /\ Left \in 0 .. Len(arrivals) /\ arrivals \in Seq(Calls)
      /\ \A i \in 1 .. Len(arrivals) : arrivals[i] \in resolved <=> i <= Left
  BY DEF Front, TypeOK
<1>2. /\ Line \in Seq(Calls) /\ Len(Line) = Len(arrivals) - Left
      /\ \A i \in 1 .. Len(arrivals) - Left : Line[i] = arrivals[Left + i]
  BY <1>1, SuffixShape DEF Line
<1>3. DOMAIN Line = 1 .. Len(arrivals) - Left
  BY <1>2
<1>4. ASSUME NEW k \in Calls
      PROVE  k \in Fifo!InLine <=> Joined(k) /\ k \notin resolved
  <2>1. ASSUME k \in Fifo!InLine
        PROVE  Joined(k) /\ k \notin resolved
    <3>1. PICK i \in DOMAIN Line : Line[i] = k
      BY <2>1 DEF Fifo!InLine
    <3>2. Left + i \in 1 .. Len(arrivals) /\ arrivals[Left + i] = k /\ ~(Left + i <= Left)
      BY <1>1, <1>2, <1>3, <3>1
    <3> QED
      BY <1>1, <3>2 DEF Joined
  <2>2. ASSUME Joined(k), k \notin resolved
        PROVE  k \in Fifo!InLine
    <3>1. PICK i \in 1 .. Len(arrivals) : arrivals[i] = k
      BY <2>2 DEF Joined
    <3>2. i - Left \in DOMAIN Line /\ Line[i - Left] = k
      BY <1>1, <1>2, <1>3, <2>2, <3>1
    <3> QED
      BY <3>2 DEF Fifo!InLine
  <2> QED
    BY <2>1, <2>2
<1>5. ASSUME NEW i \in DOMAIN Line, NEW j \in DOMAIN Line, i < j
      PROVE  Line[i] # Line[j] /\ JoinedBefore(Line[i], Line[j])
  <2>1. /\ Left + i \in 1 .. Len(arrivals) /\ Left + j \in 1 .. Len(arrivals)
        /\ Left + i < Left + j
        /\ Line[i] = arrivals[Left + i] /\ Line[j] = arrivals[Left + j]
    BY <1>1, <1>2, <1>3, <1>5
  <2>2. arrivals[Left + i] # arrivals[Left + j]
    BY <2>1 DEF Chain
  <2> QED
    BY <2>1, <2>2 DEF JoinedBefore
<1>6. ASSUME NEW k \in Calls, InSection(k)
      PROVE  Line # <<>> /\ Head(Line) = k
  <2>1. Left + 1 \in 1 .. Len(arrivals) /\ arrivals[Left + 1] = k
    BY <1>6, FirstInLine
  <2>2. Len(Line) > 0 /\ Line[1] = k
    BY <1>1, <1>2, <2>1
  <2> QED
    BY <1>2, <2>2
<1> QED
  BY <1>4, <1>5, <1>6 DEF LineInOrder

\* The line of the refinement is what it should be: the calls that have joined
\* the queue and have not been released, in the order in which they joined, and
\* a call in the section is the first of them (workspace.ts:1522-1540).
THEOREM LineIsWaiting == Spec => []LineInOrder
<1>1. Inv /\ Front => LineInOrder
  BY LineShape DEF Inv
<1> QED
  BY <1>1, Invariance, FrontInvariance, PTL

\* The chain of promises that withBranchLifecycleLock builds is a FIFO mutex:
\* calls enter in the order in which they joined, one at a time, and leave the
\* line only from inside, whatever their callbacks do.
THEOREM QueueIsFair == Spec => QueueIsFifoMutex
<1>1. Init => Fifo!Init
  <2> SUFFICES ASSUME Init PROVE Fifo!Init
    OBVIOUS
  <2>1. resolved = {} /\ arrivals = <<>> /\ \A k \in Calls : pc[k] = "idle"
    BY DEF Init
  <2>2. Left = 0
    BY <2>1, FS_EmptySet DEF Left
  <2>3. Line = <<>> /\ Inside = {}
    BY <2>1, <2>2 DEF Line, Inside, InSection
  <2> QED
    BY <2>3 DEF Fifo!Init
<1>2. Inv /\ Front /\ [Next]_vars => [Fifo!Next]_(Fifo!vars)
  BY QueueStep
<1> QED
  BY <1>1, <1>2, Invariance, FrontInvariance, PTL DEF Spec, QueueIsFifoMutex, Fifo!Spec
=============================================================================
