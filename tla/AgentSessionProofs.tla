------------------------- MODULE AgentSessionProofs -------------------------
(***************************************************************************)
(* Proofs about AgentSession, for any sets of attempts and exec() calls.   *)
(*                                                                         *)
(* Two facts carry the inductive invariant Inv: no file appears while a    *)
(* rollback is in progress without being in the gap (Swept), and what a    *)
(* child has written is in the dirty set of its attempt from the moment    *)
(* its close has been handled (Reported).                                  *)
(***************************************************************************)
EXTENDS AgentSession, TLAPS

OneRollback ==
    \A a, b \in Attempts :
        status[a] = "rolling-back" /\ status[b] = "rolling-back" => a = b

\* exec() is given to callbacks that run.
Owned == \A x \in Execs : owner[x] # None => pc[owner[x]] # "idle"

\* A rollback in progress lists what differs from its baseline, but for what
\* was created since it reconciled.
Swept ==
    \A a \in Attempts : status[a] = "rolling-back" =>
        /\ base[a] \ disk \subseteq dirty[a]
        /\ disk \ base[a] \subseteq dirty[a] \cup gap

\* A child whose close has been handled has exited, and if that reconciled its
\* attempt, the file it created is in the dirty set for as long as it exists.
Reported ==
    \A x \in Execs : promise[x] \in {"closing", "resolved"} =>
        /\ child[x] = "exited"
        /\ owner[x] # None /\ status[owner[x]] \in Live =>
              (x \in disk \ base[owner[x]] => x \in dirty[owner[x]])

Inv ==
    /\ TypeOK
    /\ OneAttempt
    /\ OneRollback
    /\ Owned
    /\ Swept
    /\ Reported
-----------------------------------------------------------------------------
(* Each part of the invariant is kept by every step. *)

\* Every variable keeps its type.
LEMMA TypeStep ==
    ASSUME TypeOK, [Next]_vars
    PROVE  TypeOK'
<1> USE DEF TypeOK, attemptVars, checkpointVars, execVars, Live, InProgress, Changed
<1>1. ASSUME NEW a \in Attempts, BeginAttempt(a)
      PROVE  TypeOK'
  BY <1>1, DistinctAssumption DEF BeginAttempt, GoTo, SetStatus
<1>2. ASSUME NEW a \in Attempts, StartCallback(a)
      PROVE  TypeOK'
  BY <1>2, DistinctAssumption DEF StartCallback, End, GoTo
<1>3. ASSUME NEW a \in Attempts, CallbackReturns(a)
      PROVE  TypeOK'
  BY <1>3, DistinctAssumption DEF CallbackReturns, ReconcileThrows, Reconciled, End,
     GoTo
<1>4. ASSUME NEW a \in Attempts, CallbackThrows(a)
      PROVE  TypeOK'
  BY <1>4, DistinctAssumption DEF CallbackThrows, ReconcileThrows, Reconciled, End, GoTo
<1>5. ASSUME NEW a \in Attempts, ReturnResult(a)
      PROVE  TypeOK'
  BY <1>5, DistinctAssumption DEF ReturnResult, End, GoTo
<1>6. ASSUME NEW a \in Attempts, AbandonRollback(a)
      PROVE  TypeOK'
  BY <1>6, DistinctAssumption DEF AbandonRollback, End, GoTo
<1>7. ASSUME NEW a \in Attempts, StartRollback(a)
      PROVE  TypeOK'
  BY <1>7, DistinctAssumption DEF StartRollback, Reconciled, SetStatus, NoRollback, GoTo
<1>8. ASSUME NEW a \in Attempts, FinishRollback(a)
      PROVE  TypeOK'
  BY <1>8, DistinctAssumption DEF FinishRollback, SetStatus, AfterRollback, End, GoTo
<1>9. ASSUME NEW a \in Attempts, FailRollback(a)
      PROVE  TypeOK'
  BY <1>9, DistinctAssumption DEF FailRollback, SetStatus, AfterRollback, End, GoTo
<1>10. ASSUME NEW a \in Attempts, Promote(a)
       PROVE  TypeOK'
  BY <1>10, DistinctAssumption DEF Promote, Reconciled, SetStatus
<1>11. ASSUME NEW a \in Attempts, ClientRollback(a)
       PROVE  TypeOK'
  BY <1>11, DistinctAssumption DEF ClientRollback, Reconciled, SetStatus, NoRollback
<1>12. ASSUME NEW x \in Execs, NEW a \in Attempts \cup {None}, Spawn(x, a)
       PROVE  TypeOK'
  BY <1>12, DistinctAssumption DEF Spawn
<1>13. ASSUME NEW x \in Execs, CreateFile(x)
       PROVE  TypeOK'
  BY <1>13, DistinctAssumption DEF CreateFile, NoRollback
<1>14. ASSUME NEW x \in Execs, Exit(x)
       PROVE  TypeOK'
  BY <1>14, DistinctAssumption DEF Exit
<1>15. ASSUME NEW x \in Execs, OnClose(x)
       PROVE  TypeOK'
  BY <1>15, DistinctAssumption DEF OnClose, Disarm, Become, Reconciled, ReconcileThrows
<1>16. ASSUME NEW x \in Execs, SettleClose(x)
       PROVE  TypeOK'
  BY <1>16, DistinctAssumption DEF SettleClose, Become
<1>17. ASSUME NEW x \in Execs, OnError(x)
       PROVE  TypeOK'
  BY <1>17, DistinctAssumption DEF OnError, Disarm, Become
<1>18. ASSUME NEW x \in Execs, OnTimeout(x)
       PROVE  TypeOK'
  BY <1>18, DistinctAssumption DEF OnTimeout, Disarm, Become
<1>19. CASE UNCHANGED vars
  BY <1>19 DEF vars
<1> HIDE DEF TypeOK, attemptVars, checkpointVars, execVars, Live, InProgress, Changed
<1> QED
  BY <1>1, <1>2, <1>3, <1>4, <1>5, <1>6, <1>7, <1>8, <1>9, <1>10, <1>11, <1>12, <1>13,
     <1>14, <1>15, <1>16, <1>17, <1>18, <1>19 DEF Next, Settle

\* An attempt begins when no other is in progress.
LEMMA OneAttemptStep ==
    ASSUME TypeOK, OneAttempt, [Next]_vars
    PROVE  OneAttempt'
<1> USE DEF TypeOK, attemptVars, checkpointVars, execVars, Live, InProgress, Changed,
   OneAttempt
<1>1. ASSUME NEW a \in Attempts, BeginAttempt(a)
      PROVE  OneAttempt'
  BY <1>1, DistinctAssumption DEF BeginAttempt, GoTo, SetStatus
<1>2. ASSUME NEW a \in Attempts, StartCallback(a)
      PROVE  OneAttempt'
  BY <1>2, DistinctAssumption DEF StartCallback, End, GoTo
<1>3. ASSUME NEW a \in Attempts, CallbackReturns(a)
      PROVE  OneAttempt'
  BY <1>3, DistinctAssumption DEF CallbackReturns, ReconcileThrows, Reconciled, End,
     GoTo
<1>4. ASSUME NEW a \in Attempts, CallbackThrows(a)
      PROVE  OneAttempt'
  BY <1>4, DistinctAssumption DEF CallbackThrows, ReconcileThrows, Reconciled, End, GoTo
<1>5. ASSUME NEW a \in Attempts, ReturnResult(a)
      PROVE  OneAttempt'
  BY <1>5, DistinctAssumption DEF ReturnResult, End, GoTo
<1>6. ASSUME NEW a \in Attempts, AbandonRollback(a)
      PROVE  OneAttempt'
  BY <1>6, DistinctAssumption DEF AbandonRollback, End, GoTo
<1>7. ASSUME NEW a \in Attempts, StartRollback(a)
      PROVE  OneAttempt'
  BY <1>7, DistinctAssumption DEF StartRollback, Reconciled, SetStatus, NoRollback, GoTo
<1>8. ASSUME NEW a \in Attempts, FinishRollback(a)
      PROVE  OneAttempt'
  BY <1>8, DistinctAssumption DEF FinishRollback, SetStatus, AfterRollback, End, GoTo
<1>9. ASSUME NEW a \in Attempts, FailRollback(a)
      PROVE  OneAttempt'
  BY <1>9, DistinctAssumption DEF FailRollback, SetStatus, AfterRollback, End, GoTo
<1>10. ASSUME NEW a \in Attempts, Promote(a)
       PROVE  OneAttempt'
  BY <1>10, DistinctAssumption DEF Promote, Reconciled, SetStatus
<1>11. ASSUME NEW a \in Attempts, ClientRollback(a)
       PROVE  OneAttempt'
  BY <1>11, DistinctAssumption DEF ClientRollback, Reconciled, SetStatus, NoRollback
<1>12. ASSUME NEW x \in Execs, NEW a \in Attempts \cup {None}, Spawn(x, a)
       PROVE  OneAttempt'
  BY <1>12, DistinctAssumption DEF Spawn
<1>13. ASSUME NEW x \in Execs, CreateFile(x)
       PROVE  OneAttempt'
  BY <1>13, DistinctAssumption DEF CreateFile, NoRollback
<1>14. ASSUME NEW x \in Execs, Exit(x)
       PROVE  OneAttempt'
  BY <1>14, DistinctAssumption DEF Exit
<1>15. ASSUME NEW x \in Execs, OnClose(x)
       PROVE  OneAttempt'
  BY <1>15, DistinctAssumption DEF OnClose, Disarm, Become, Reconciled, ReconcileThrows
<1>16. ASSUME NEW x \in Execs, SettleClose(x)
       PROVE  OneAttempt'
  BY <1>16, DistinctAssumption DEF SettleClose, Become
<1>17. ASSUME NEW x \in Execs, OnError(x)
       PROVE  OneAttempt'
  BY <1>17, DistinctAssumption DEF OnError, Disarm, Become
<1>18. ASSUME NEW x \in Execs, OnTimeout(x)
       PROVE  OneAttempt'
  BY <1>18, DistinctAssumption DEF OnTimeout, Disarm, Become
<1>19. CASE UNCHANGED vars
  BY <1>19 DEF vars
<1> HIDE DEF TypeOK, attemptVars, checkpointVars, execVars, Live, InProgress, Changed,
   OneAttempt
<1> QED
  BY <1>1, <1>2, <1>3, <1>4, <1>5, <1>6, <1>7, <1>8, <1>9, <1>10, <1>11, <1>12, <1>13,
     <1>14, <1>15, <1>16, <1>17, <1>18, <1>19 DEF Next, Settle

\* A rollback begins when no other is in progress.
LEMMA OneRollbackStep ==
    ASSUME TypeOK, OneRollback, [Next]_vars
    PROVE  OneRollback'
<1> USE DEF TypeOK, attemptVars, checkpointVars, execVars, Live, InProgress, Changed,
   OneRollback
<1>1. ASSUME NEW a \in Attempts, BeginAttempt(a)
      PROVE  OneRollback'
  BY <1>1, DistinctAssumption DEF BeginAttempt, GoTo, SetStatus
<1>2. ASSUME NEW a \in Attempts, StartCallback(a)
      PROVE  OneRollback'
  BY <1>2, DistinctAssumption DEF StartCallback, End, GoTo
<1>3. ASSUME NEW a \in Attempts, CallbackReturns(a)
      PROVE  OneRollback'
  BY <1>3, DistinctAssumption DEF CallbackReturns, ReconcileThrows, Reconciled, End,
     GoTo
<1>4. ASSUME NEW a \in Attempts, CallbackThrows(a)
      PROVE  OneRollback'
  BY <1>4, DistinctAssumption DEF CallbackThrows, ReconcileThrows, Reconciled, End, GoTo
<1>5. ASSUME NEW a \in Attempts, ReturnResult(a)
      PROVE  OneRollback'
  BY <1>5, DistinctAssumption DEF ReturnResult, End, GoTo
<1>6. ASSUME NEW a \in Attempts, AbandonRollback(a)
      PROVE  OneRollback'
  BY <1>6, DistinctAssumption DEF AbandonRollback, End, GoTo
<1>7. ASSUME NEW a \in Attempts, StartRollback(a)
      PROVE  OneRollback'
  BY <1>7, DistinctAssumption DEF StartRollback, Reconciled, SetStatus, NoRollback, GoTo
<1>8. ASSUME NEW a \in Attempts, FinishRollback(a)
      PROVE  OneRollback'
  BY <1>8, DistinctAssumption DEF FinishRollback, SetStatus, AfterRollback, End, GoTo
<1>9. ASSUME NEW a \in Attempts, FailRollback(a)
      PROVE  OneRollback'
  BY <1>9, DistinctAssumption DEF FailRollback, SetStatus, AfterRollback, End, GoTo
<1>10. ASSUME NEW a \in Attempts, Promote(a)
       PROVE  OneRollback'
  BY <1>10, DistinctAssumption DEF Promote, Reconciled, SetStatus
<1>11. ASSUME NEW a \in Attempts, ClientRollback(a)
       PROVE  OneRollback'
  BY <1>11, DistinctAssumption DEF ClientRollback, Reconciled, SetStatus, NoRollback
<1>12. ASSUME NEW x \in Execs, NEW a \in Attempts \cup {None}, Spawn(x, a)
       PROVE  OneRollback'
  BY <1>12, DistinctAssumption DEF Spawn
<1>13. ASSUME NEW x \in Execs, CreateFile(x)
       PROVE  OneRollback'
  BY <1>13, DistinctAssumption DEF CreateFile, NoRollback
<1>14. ASSUME NEW x \in Execs, Exit(x)
       PROVE  OneRollback'
  BY <1>14, DistinctAssumption DEF Exit
<1>15. ASSUME NEW x \in Execs, OnClose(x)
       PROVE  OneRollback'
  BY <1>15, DistinctAssumption DEF OnClose, Disarm, Become, Reconciled, ReconcileThrows
<1>16. ASSUME NEW x \in Execs, SettleClose(x)
       PROVE  OneRollback'
  BY <1>16, DistinctAssumption DEF SettleClose, Become
<1>17. ASSUME NEW x \in Execs, OnError(x)
       PROVE  OneRollback'
  BY <1>17, DistinctAssumption DEF OnError, Disarm, Become
<1>18. ASSUME NEW x \in Execs, OnTimeout(x)
       PROVE  OneRollback'
  BY <1>18, DistinctAssumption DEF OnTimeout, Disarm, Become
<1>19. CASE UNCHANGED vars
  BY <1>19 DEF vars
<1> HIDE DEF TypeOK, attemptVars, checkpointVars, execVars, Live, InProgress, Changed,
   OneRollback
<1> QED
  BY <1>1, <1>2, <1>3, <1>4, <1>5, <1>6, <1>7, <1>8, <1>9, <1>10, <1>11, <1>12, <1>13,
     <1>14, <1>15, <1>16, <1>17, <1>18, <1>19 DEF Next, Settle

\* The attempt an exec() belongs to has begun.
LEMMA OwnedStep ==
    ASSUME TypeOK, Owned, [Next]_vars
    PROVE  Owned'
<1> USE DEF TypeOK, attemptVars, checkpointVars, execVars, Live, InProgress, Changed,
   Owned
<1>1. ASSUME NEW a \in Attempts, BeginAttempt(a)
      PROVE  Owned'
  BY <1>1, DistinctAssumption DEF BeginAttempt, GoTo, SetStatus
<1>2. ASSUME NEW a \in Attempts, StartCallback(a)
      PROVE  Owned'
  BY <1>2, DistinctAssumption DEF StartCallback, End, GoTo
<1>3. ASSUME NEW a \in Attempts, CallbackReturns(a)
      PROVE  Owned'
  BY <1>3, DistinctAssumption DEF CallbackReturns, ReconcileThrows, Reconciled, End,
     GoTo
<1>4. ASSUME NEW a \in Attempts, CallbackThrows(a)
      PROVE  Owned'
  BY <1>4, DistinctAssumption DEF CallbackThrows, ReconcileThrows, Reconciled, End, GoTo
<1>5. ASSUME NEW a \in Attempts, ReturnResult(a)
      PROVE  Owned'
  BY <1>5, DistinctAssumption DEF ReturnResult, End, GoTo
<1>6. ASSUME NEW a \in Attempts, AbandonRollback(a)
      PROVE  Owned'
  BY <1>6, DistinctAssumption DEF AbandonRollback, End, GoTo
<1>7. ASSUME NEW a \in Attempts, StartRollback(a)
      PROVE  Owned'
  BY <1>7, DistinctAssumption DEF StartRollback, Reconciled, SetStatus, NoRollback, GoTo
<1>8. ASSUME NEW a \in Attempts, FinishRollback(a)
      PROVE  Owned'
  BY <1>8, DistinctAssumption DEF FinishRollback, SetStatus, AfterRollback, End, GoTo
<1>9. ASSUME NEW a \in Attempts, FailRollback(a)
      PROVE  Owned'
  BY <1>9, DistinctAssumption DEF FailRollback, SetStatus, AfterRollback, End, GoTo
<1>10. ASSUME NEW a \in Attempts, Promote(a)
       PROVE  Owned'
  BY <1>10, DistinctAssumption DEF Promote, Reconciled, SetStatus
<1>11. ASSUME NEW a \in Attempts, ClientRollback(a)
       PROVE  Owned'
  BY <1>11, DistinctAssumption DEF ClientRollback, Reconciled, SetStatus, NoRollback
<1>12. ASSUME NEW x \in Execs, NEW a \in Attempts \cup {None}, Spawn(x, a)
       PROVE  Owned'
  BY <1>12, DistinctAssumption DEF Spawn
<1>13. ASSUME NEW x \in Execs, CreateFile(x)
       PROVE  Owned'
  BY <1>13, DistinctAssumption DEF CreateFile, NoRollback
<1>14. ASSUME NEW x \in Execs, Exit(x)
       PROVE  Owned'
  BY <1>14, DistinctAssumption DEF Exit
<1>15. ASSUME NEW x \in Execs, OnClose(x)
       PROVE  Owned'
  BY <1>15, DistinctAssumption DEF OnClose, Disarm, Become, Reconciled, ReconcileThrows
<1>16. ASSUME NEW x \in Execs, SettleClose(x)
       PROVE  Owned'
  BY <1>16, DistinctAssumption DEF SettleClose, Become
<1>17. ASSUME NEW x \in Execs, OnError(x)
       PROVE  Owned'
  BY <1>17, DistinctAssumption DEF OnError, Disarm, Become
<1>18. ASSUME NEW x \in Execs, OnTimeout(x)
       PROVE  Owned'
  BY <1>18, DistinctAssumption DEF OnTimeout, Disarm, Become
<1>19. CASE UNCHANGED vars
  BY <1>19 DEF vars
<1> HIDE DEF TypeOK, attemptVars, checkpointVars, execVars, Live, InProgress, Changed,
   Owned
<1> QED
  BY <1>1, <1>2, <1>3, <1>4, <1>5, <1>6, <1>7, <1>8, <1>9, <1>10, <1>11, <1>12, <1>13,
     <1>14, <1>15, <1>16, <1>17, <1>18, <1>19 DEF Next, Settle

\* While a rollback is in progress the disk changes by created files only, and
\* they are in the gap.
LEMMA SweptStep ==
    ASSUME TypeOK, OneRollback, Swept, [Next]_vars
    PROVE  Swept'
<1> USE DEF TypeOK, attemptVars, checkpointVars, execVars, Live, InProgress, Changed,
   OneRollback, Swept
<1>1. ASSUME NEW a \in Attempts, BeginAttempt(a)
      PROVE  Swept'
  BY <1>1, DistinctAssumption DEF BeginAttempt, GoTo, SetStatus
<1>2. ASSUME NEW a \in Attempts, StartCallback(a)
      PROVE  Swept'
  BY <1>2, DistinctAssumption DEF StartCallback, End, GoTo
<1>3. ASSUME NEW a \in Attempts, CallbackReturns(a)
      PROVE  Swept'
  BY <1>3, DistinctAssumption DEF CallbackReturns, ReconcileThrows, Reconciled, End,
     GoTo
<1>4. ASSUME NEW a \in Attempts, CallbackThrows(a)
      PROVE  Swept'
  BY <1>4, DistinctAssumption DEF CallbackThrows, ReconcileThrows, Reconciled, End, GoTo
<1>5. ASSUME NEW a \in Attempts, ReturnResult(a)
      PROVE  Swept'
  BY <1>5, DistinctAssumption DEF ReturnResult, End, GoTo
<1>6. ASSUME NEW a \in Attempts, AbandonRollback(a)
      PROVE  Swept'
  BY <1>6, DistinctAssumption DEF AbandonRollback, End, GoTo
<1>7. ASSUME NEW a \in Attempts, StartRollback(a)
      PROVE  Swept'
  BY <1>7, DistinctAssumption DEF StartRollback, Reconciled, SetStatus, NoRollback, GoTo
<1>8. ASSUME NEW a \in Attempts, FinishRollback(a)
      PROVE  Swept'
  BY <1>8, DistinctAssumption DEF FinishRollback, SetStatus, AfterRollback, End, GoTo
<1>9. ASSUME NEW a \in Attempts, FailRollback(a)
      PROVE  Swept'
  BY <1>9, DistinctAssumption DEF FailRollback, SetStatus, AfterRollback, End, GoTo
<1>10. ASSUME NEW a \in Attempts, Promote(a)
       PROVE  Swept'
  BY <1>10, DistinctAssumption DEF Promote, Reconciled, SetStatus
<1>11. ASSUME NEW a \in Attempts, ClientRollback(a)
       PROVE  Swept'
  BY <1>11, DistinctAssumption DEF ClientRollback, Reconciled, SetStatus, NoRollback
<1>12. ASSUME NEW x \in Execs, NEW a \in Attempts \cup {None}, Spawn(x, a)
       PROVE  Swept'
  BY <1>12, DistinctAssumption DEF Spawn
<1>13. ASSUME NEW x \in Execs, CreateFile(x)
       PROVE  Swept'
  BY <1>13, DistinctAssumption DEF CreateFile, NoRollback
<1>14. ASSUME NEW x \in Execs, Exit(x)
       PROVE  Swept'
  BY <1>14, DistinctAssumption DEF Exit
<1>15. ASSUME NEW x \in Execs, OnClose(x)
       PROVE  Swept'
  BY <1>15, DistinctAssumption DEF OnClose, Disarm, Become, Reconciled, ReconcileThrows
<1>16. ASSUME NEW x \in Execs, SettleClose(x)
       PROVE  Swept'
  BY <1>16, DistinctAssumption DEF SettleClose, Become
<1>17. ASSUME NEW x \in Execs, OnError(x)
       PROVE  Swept'
  BY <1>17, DistinctAssumption DEF OnError, Disarm, Become
<1>18. ASSUME NEW x \in Execs, OnTimeout(x)
       PROVE  Swept'
  BY <1>18, DistinctAssumption DEF OnTimeout, Disarm, Become
<1>19. CASE UNCHANGED vars
  BY <1>19 DEF vars
<1> HIDE DEF TypeOK, attemptVars, checkpointVars, execVars, Live, InProgress, Changed,
   OneRollback, Swept
<1> QED
  BY <1>1, <1>2, <1>3, <1>4, <1>5, <1>6, <1>7, <1>8, <1>9, <1>10, <1>11, <1>12, <1>13,
     <1>14, <1>15, <1>16, <1>17, <1>18, <1>19 DEF Next, Settle

\* What a child wrote is recorded when it is closed, and stays recorded.
LEMMA ReportedStep ==
    ASSUME TypeOK, OneRollback, Owned, Reported, [Next]_vars
    PROVE  Reported'
<1> USE DEF TypeOK, attemptVars, checkpointVars, execVars, Live, InProgress, Changed,
   OneRollback, Owned, Reported
<1>1. ASSUME NEW a \in Attempts, BeginAttempt(a)
      PROVE  Reported'
  BY <1>1, DistinctAssumption DEF BeginAttempt, GoTo, SetStatus
<1>2. ASSUME NEW a \in Attempts, StartCallback(a)
      PROVE  Reported'
  BY <1>2, DistinctAssumption DEF StartCallback, End, GoTo
<1>3. ASSUME NEW a \in Attempts, CallbackReturns(a)
      PROVE  Reported'
  BY <1>3, DistinctAssumption DEF CallbackReturns, ReconcileThrows, Reconciled, End,
     GoTo
<1>4. ASSUME NEW a \in Attempts, CallbackThrows(a)
      PROVE  Reported'
  BY <1>4, DistinctAssumption DEF CallbackThrows, ReconcileThrows, Reconciled, End, GoTo
<1>5. ASSUME NEW a \in Attempts, ReturnResult(a)
      PROVE  Reported'
  BY <1>5, DistinctAssumption DEF ReturnResult, End, GoTo
<1>6. ASSUME NEW a \in Attempts, AbandonRollback(a)
      PROVE  Reported'
  BY <1>6, DistinctAssumption DEF AbandonRollback, End, GoTo
<1>7. ASSUME NEW a \in Attempts, StartRollback(a)
      PROVE  Reported'
  BY <1>7, DistinctAssumption DEF StartRollback, Reconciled, SetStatus, NoRollback, GoTo
<1>8. ASSUME NEW a \in Attempts, FinishRollback(a)
      PROVE  Reported'
  BY <1>8, DistinctAssumption DEF FinishRollback, SetStatus, AfterRollback, End, GoTo
<1>9. ASSUME NEW a \in Attempts, FailRollback(a)
      PROVE  Reported'
  BY <1>9, DistinctAssumption DEF FailRollback, SetStatus, AfterRollback, End, GoTo
<1>10. ASSUME NEW a \in Attempts, Promote(a)
       PROVE  Reported'
  BY <1>10, DistinctAssumption DEF Promote, Reconciled, SetStatus
<1>11. ASSUME NEW a \in Attempts, ClientRollback(a)
       PROVE  Reported'
  BY <1>11, DistinctAssumption DEF ClientRollback, Reconciled, SetStatus, NoRollback
<1>12. ASSUME NEW x \in Execs, NEW a \in Attempts \cup {None}, Spawn(x, a)
       PROVE  Reported'
  BY <1>12, DistinctAssumption DEF Spawn
<1>13. ASSUME NEW x \in Execs, CreateFile(x)
       PROVE  Reported'
  BY <1>13, DistinctAssumption DEF CreateFile, NoRollback
<1>14. ASSUME NEW x \in Execs, Exit(x)
       PROVE  Reported'
  BY <1>14, DistinctAssumption DEF Exit
<1>15. ASSUME NEW x \in Execs, OnClose(x)
       PROVE  Reported'
  BY <1>15, DistinctAssumption DEF OnClose, Disarm, Become, Reconciled, ReconcileThrows
<1>16. ASSUME NEW x \in Execs, SettleClose(x)
       PROVE  Reported'
  BY <1>16, DistinctAssumption DEF SettleClose, Become
<1>17. ASSUME NEW x \in Execs, OnError(x)
       PROVE  Reported'
  BY <1>17, DistinctAssumption DEF OnError, Disarm, Become
<1>18. ASSUME NEW x \in Execs, OnTimeout(x)
       PROVE  Reported'
  BY <1>18, DistinctAssumption DEF OnTimeout, Disarm, Become
<1>19. CASE UNCHANGED vars
  BY <1>19 DEF vars
<1> HIDE DEF TypeOK, attemptVars, checkpointVars, execVars, Live, InProgress, Changed,
   OneRollback, Owned, Reported
<1> QED
  BY <1>1, <1>2, <1>3, <1>4, <1>5, <1>6, <1>7, <1>8, <1>9, <1>10, <1>11, <1>12, <1>13,
     <1>14, <1>15, <1>16, <1>17, <1>18, <1>19 DEF Next, Settle

LEMMA InitInv == Init => Inv
BY DistinctAssumption
   DEF Init, Inv, TypeOK, OneAttempt, OneRollback, Owned, Swept, Reported, InProgress

LEMMA NextInv == Inv /\ [Next]_vars => Inv'
BY TypeStep, OneAttemptStep, OneRollbackStep, OwnedStep, SweptStep, ReportedStep DEF Inv

LEMMA Invariance == Spec => []Inv
BY InitInv, NextInv, PTL DEF Spec
-----------------------------------------------------------------------------
(* The theorems. *)

\* Every variable has its type in every reachable state.
THEOREM TypeCorrect == Spec => []TypeOK
<1>1. Inv => TypeOK
  BY DEF Inv
<1> QED
  BY <1>1, Invariance, PTL

\* runAttempt() admits one attempt at a time, and however one ends, the session
\* is free for the next.
THEOREM AttemptsExclude == Spec => []OneAttempt
<1>1. Inv => OneAttempt
  BY DEF Inv
<1> QED
  BY <1>1, Invariance, PTL

\* exec() returns a result to an attempt only when what its child wrote is in
\* the attempt's dirty set.
THEOREM ResultsAreReconciled == Spec => []ExecReportsWrites
<1>1. Inv => ExecReportsWrites
  BY DEF Inv, TypeOK, Reported, ExecReportsWrites, Live
<1> QED
  BY <1>1, Invariance, PTL

\* An attempt that is reported as rolled back leaves the files of its baseline,
\* and of others only those created after the rollback's own reconcile.
THEOREM RollbackIsClean == Spec => RolledBackClean
<1>1. ASSUME Inv, [Next]_vars, NEW a \in Attempts,
             outcome[a] # "rolledBack", outcome'[a] = "rolledBack"
      PROVE  base[a] \subseteq disk' /\ disk' \subseteq base[a] \cup gap
  <2>1. FinishRollback(a)
    <3> USE <1>1 DEF Inv, TypeOK, attemptVars, End, GoTo
    <3>1. ASSUME NEW b \in Attempts, FinishRollback(b)
          PROVE  FinishRollback(a)
      BY <3>1 DEF FinishRollback, AfterRollback
    <3>2. ASSUME NEW b \in Attempts,
                 \/ BeginAttempt(b) \/ StartCallback(b) \/ CallbackReturns(b)
                 \/ CallbackThrows(b) \/ ReturnResult(b) \/ AbandonRollback(b)
                 \/ StartRollback(b) \/ FailRollback(b) \/ Promote(b) \/ ClientRollback(b)
          PROVE  FALSE
      BY <3>2 DEF BeginAttempt, StartCallback, CallbackReturns, CallbackThrows, ReturnResult,
         AbandonRollback, StartRollback, FailRollback, AfterRollback, Promote, ClientRollback
    <3>3. ASSUME NEW x \in Execs,
                 \/ \E b \in Attempts \cup {None} : Spawn(x, b)
                 \/ CreateFile(x) \/ Exit(x) \/ Settle(x)
          PROVE  FALSE
      BY <3>3 DEF Spawn, CreateFile, Exit, Settle, OnClose, SettleClose, OnError, OnTimeout
    <3>4. CASE UNCHANGED vars
      BY <3>4 DEF vars
    <3> HIDE DEF Inv, TypeOK, attemptVars, End, GoTo
    <3> QED
      BY <3>1, <3>2, <3>3, <3>4 DEF Next
  <2>2. /\ status[a] = "rolling-back" /\ dirty[a] \cap base[a] = {}
        /\ disk' = disk \ dirty[a]
    BY <2>1 DEF FinishRollback
  <2>3. base[a] \ disk \subseteq dirty[a] /\ disk \ base[a] \subseteq dirty[a] \cup gap
    BY <1>1, <2>2 DEF Inv, Swept
  <2> QED
    BY <2>2, <2>3
<1>2. Inv /\ [Next]_vars =>
        [\A a \in Attempts : outcome[a] # "rolledBack" /\ outcome'[a] = "rolledBack" =>
             base[a] \subseteq disk' /\ disk' \subseteq base[a] \cup gap]_vars
  BY <1>1
<1> QED
  BY <1>2, Invariance, PTL DEF Spec, RolledBackClean
=============================================================================
