--------------------------- MODULE JobQueue_proofs ---------------------------
(***************************************************************************)
(* Theorems about JobQueue, for every set of jobs, number of permits, kind *)
(* of traffic and bound on crashes and faults.                             *)
(*                                                                         *)
(* Each invariant has four lemmas, one per group of actors (worker, query  *)
(* threads, requests, storage and restart) with one step per action, and a *)
(* lemma that combines them into a step of the specification.  The order   *)
(* is that of dependence: TypeOK, KeyOnlyWhenSucceeded, OwnershipInv,      *)
(* LaunchInv, RemovalInv, ResultAvailable, TrackingInv; then the permits,  *)
(* and the refinement of JobPromise.                                       *)
(***************************************************************************)
EXTENDS JobQueue, FiniteSetTheorems, TLAPS

-----------------------------------------------------------------------------
(* Type correctness.                                                       *)

LEMMA TypeInit == Init => TypeOK
BY PermitsAssumption, BoundsAssumption
   DEF Init, TypeOK, Status, Active, Terminal, WorkerPc

LEMMA TypeWorker ==
  ASSUME TypeOK, Worker
  PROVE  TypeOK'
<1> USE DEF TypeOK, WorkerPc, Guarded, Status, Active, Terminal, Live, WorkerMoves,
            ThreadMoves, ThreadReturns, dbVars, workerVars, requestVars, boundVars,
            historyVars
<1>1. CASE WorkerSelect BY <1>1 DEF WorkerSelect, OldestQueued
<1>2. CASE WorkerClaim BY <1>2 DEF WorkerClaim
<1>3. CASE WorkerClaimMiss BY <1>3 DEF WorkerClaimMiss
<1>4. CASE WorkerRegister BY <1>4 DEF WorkerRegister
<1>5. CASE WorkerPrepare BY <1>5 DEF WorkerPrepare
<1>6. CASE WorkerLaunch BY <1>6 DEF WorkerLaunch
<1>7. CASE WorkerNotLaunched BY <1>7 DEF WorkerNotLaunched
<1>8. CASE WorkerJoin BY <1>8 DEF WorkerJoin, AfterJoin
<1>9. CASE WorkerTimeout BY <1>9 DEF WorkerTimeout
<1>10. CASE WorkerPersist BY <1>10 DEF WorkerPersist
<1>11. CASE WorkerLogResult BY <1>11 DEF WorkerLogResult
<1>12. CASE WorkerCommit BY <1>12 DEF WorkerCommit
<1>13. CASE WorkerCommitMiss BY <1>13 DEF WorkerCommitMiss
<1>14. CASE WorkerRemoveArtifact BY <1>14 DEF WorkerRemoveArtifact
<1>15. CASE WorkerMarkFailed BY <1>15 DEF WorkerMarkFailed, FailIfRunning
<1>16. CASE WorkerFinalLog BY <1>16 DEF WorkerFinalLog
<1>17. CASE WorkerFallback BY <1>17 DEF WorkerFallback, FailIfRunning
<1>18. CASE WorkerRelease BY <1>18 DEF WorkerRelease
<1>19. CASE WorkerFault BY <1>19, BoundsAssumption DEF WorkerFault, AfterFault
<1> QED
  BY <1>1, <1>2, <1>3, <1>4, <1>5, <1>6, <1>7, <1>8, <1>9, <1>10, <1>11, <1>12,
     <1>13, <1>14, <1>15, <1>16, <1>17, <1>18, <1>19 DEF Worker

LEMMA TypeThread ==
  ASSUME TypeOK, NEW t \in Jobs, Thread(t)
  PROVE  TypeOK'
<1> USE DEF TypeOK, WorkerPc, Guarded, Status, Active, Terminal, Live, WorkerMoves,
            ThreadMoves, ThreadReturns, dbVars, workerVars, requestVars, boundVars,
            historyVars
<1>1. CASE ThreadRegister(t) BY <1>1 DEF ThreadRegister
<1>2. CASE ThreadRefused(t) BY <1>2 DEF ThreadRefused
<1>3. CASE ThreadAttach(t) BY <1>3 DEF ThreadAttach
<1>4. CASE ThreadFails(t) BY <1>4 DEF ThreadFails
<1>5. CASE ThreadMaterialize(t) BY <1>5 DEF ThreadMaterialize
<1>6. CASE ThreadReadBack(t) BY <1>6 DEF ThreadReadBack
<1>7. CASE ThreadReadBackFails(t) BY <1>7 DEF ThreadReadBackFails, Opened
<1>8. CASE ThreadRewrite(t) BY <1>8 DEF ThreadRewrite
<1>9. CASE ThreadScriptFails(t) BY <1>9 DEF ThreadScriptFails
<1> QED
  BY <1>1, <1>2, <1>3, <1>4, <1>5, <1>6, <1>7, <1>8, <1>9 DEF Thread

LEMMA TypeRequest ==
  ASSUME TypeOK, NEW r \in Jobs,
         Enqueue(r) \/ Cancel(r) \/ Delete(r) \/ Read(r) \/ RequestDropped(r)
  PROVE  TypeOK'
<1> USE DEF TypeOK, WorkerPc, Guarded, Status, Active, Terminal, Live, WorkerMoves,
            ThreadMoves, ThreadReturns, dbVars, workerVars, requestVars, boundVars,
            historyVars
<1>1. CASE Enqueue(r) BY <1>1 DEF Enqueue
<1>2. CASE CancelRead(r) BY <1>2 DEF CancelRead
<1>3. CASE CancelUpdate(r) BY <1>3 DEF CancelUpdate, MayCancel
<1>4. CASE CancelMiss(r) BY <1>4 DEF CancelMiss, MayCancel
<1>5. CASE CancelMark(r) BY <1>5 DEF CancelMark
<1>6. CASE DeleteRead(r) BY <1>6 DEF DeleteRead
<1>7. CASE DeleteFile(r) BY <1>7 DEF DeleteFile
<1>8. CASE DeleteRow(r) BY <1>8 DEF DeleteRow
<1>9. CASE ReadStart(r) BY <1>9 DEF ReadStart
<1>10. CASE ReadPermit(r) BY <1>10 DEF ReadPermit
<1>11. CASE ReadGivesUp(r) BY <1>11 DEF ReadGivesUp
<1>12. CASE ReadPage(r) BY <1>12 DEF ReadPage, Opened
<1>13. CASE RequestDropped(r)
  <2>1. cpc' = [cpc EXCEPT ![r] = "idle"] \/ cpc' = cpc
    BY <1>13 DEF RequestDropped
  <2>2. dpc' = [dpc EXCEPT ![r] = "idle"] \/ dpc' = dpc
    BY <1>13 DEF RequestDropped
  <2>3. UNCHANGED <<dbVars, artifact, workerVars, thread, canceled, free, reader, exp,
                    source, skeys, boundVars, historyVars>>
    BY <1>13 DEF RequestDropped
  <2>4. cpc' \in [Jobs -> {"idle", "sawQueued", "sawRunning", "mark", "interrupt"}]
    BY <2>1
  <2>5. dpc' \in [Jobs -> {"idle", "file", "row"}]
    BY <2>2
  <2> QED BY <2>3, <2>4, <2>5
<1> QED
  BY <1>1, <1>2, <1>3, <1>4, <1>5, <1>6, <1>7, <1>8, <1>9, <1>10, <1>11, <1>12,
     <1>13 DEF Cancel, Delete, Read

LEMMA TypeStorage ==
  ASSUME TypeOK,
         Expiry \/ SourceDelete \/ Crash \/ Recover \/ Sweep
  PROVE  TypeOK'
<1> USE DEF TypeOK, WorkerPc, Guarded, Status, Active, Terminal, Live, WorkerMoves,
            ThreadMoves, ThreadReturns, dbVars, workerVars, requestVars, boundVars,
            historyVars
<1>1. CASE ExpiryFault BY <1>1, BoundsAssumption DEF ExpiryFault
<1>2. CASE SourceScan BY <1>2 DEF SourceScan
<1>3. CASE SourceFiles BY <1>3 DEF SourceFiles, SourceRemoves
<1>4. CASE SourceCascade BY <1>4 DEF SourceCascade
<1>5. CASE Crash BY <1>5, BoundsAssumption, PermitsAssumption DEF Crash
<1>6. CASE Recover BY <1>6 DEF Recover, Recovered
<1>7. CASE Sweep BY <1>7 DEF Sweep, SweepKeeps
<1>8. ASSUME NEW S \in SUBSET Jobs, ExpiryBegin(S) PROVE TypeOK'
  BY <1>8 DEF ExpiryBegin
<1>9. ASSUME NEW e \in Jobs, ExpiryFile(e) PROVE TypeOK'
  BY <1>9 DEF ExpiryFile
<1>10. ASSUME NEW e \in Jobs, ExpiryClear(e) PROVE TypeOK'
  BY <1>10 DEF ExpiryClear
<1> QED
  BY <1>1, <1>2, <1>3, <1>4, <1>5, <1>6, <1>7, <1>8, <1>9, <1>10 DEF Expiry,
     SourceDelete

LEMMA TypeStep == TypeOK /\ [Next]_vars => TypeOK'
<1>1. ASSUME TypeOK, UNCHANGED vars PROVE TypeOK'
  BY <1>1 DEF TypeOK, vars, dbVars, workerVars, requestVars, boundVars, historyVars
<1> QED
  BY <1>1, TypeWorker, TypeThread, TypeRequest, TypeStorage DEF Next

\* Every reachable state is well typed; in particular free \in Nat: no more
\* permits are taken than the query semaphore holds (resource_control.rs).
THEOREM TypeCorrect == Spec => []TypeOK
BY TypeInit, TypeStep, PTL DEF Spec

-----------------------------------------------------------------------------
(* A final status is final.                                                *)

LEMMA StableWorker ==
  ASSUME TypeOK, Worker
  PROVE  TerminalKept
<1> USE DEF TypeOK, TerminalKept, RowExists, Active, Terminal, WorkerMoves,
            ThreadMoves, ThreadReturns, dbVars, workerVars, requestVars, boundVars,
            historyVars
<1>1. CASE WorkerSelect BY <1>1 DEF WorkerSelect, OldestQueued
<1>2. CASE WorkerClaim BY <1>2 DEF WorkerClaim
<1>3. CASE WorkerClaimMiss BY <1>3 DEF WorkerClaimMiss
<1>4. CASE WorkerRegister BY <1>4 DEF WorkerRegister
<1>5. CASE WorkerPrepare BY <1>5 DEF WorkerPrepare
<1>6. CASE WorkerLaunch BY <1>6 DEF WorkerLaunch
<1>7. CASE WorkerNotLaunched BY <1>7 DEF WorkerNotLaunched
<1>8. CASE WorkerJoin BY <1>8 DEF WorkerJoin, AfterJoin
<1>9. CASE WorkerTimeout BY <1>9 DEF WorkerTimeout
<1>10. CASE WorkerPersist BY <1>10 DEF WorkerPersist
<1>11. CASE WorkerLogResult BY <1>11 DEF WorkerLogResult
<1>12. CASE WorkerCommit BY <1>12 DEF WorkerCommit
<1>13. CASE WorkerCommitMiss BY <1>13 DEF WorkerCommitMiss
<1>14. CASE WorkerRemoveArtifact BY <1>14 DEF WorkerRemoveArtifact
<1>15. CASE WorkerMarkFailed BY <1>15 DEF WorkerMarkFailed, FailIfRunning
<1>16. CASE WorkerFinalLog BY <1>16 DEF WorkerFinalLog
<1>17. CASE WorkerFallback BY <1>17 DEF WorkerFallback, FailIfRunning
<1>18. CASE WorkerRelease BY <1>18 DEF WorkerRelease
<1>19. CASE WorkerFault BY <1>19 DEF WorkerFault, AfterFault
<1> QED
  BY <1>1, <1>2, <1>3, <1>4, <1>5, <1>6, <1>7, <1>8, <1>9, <1>10, <1>11, <1>12,
     <1>13, <1>14, <1>15, <1>16, <1>17, <1>18, <1>19 DEF Worker

LEMMA StableThread ==
  ASSUME TypeOK, NEW t \in Jobs, Thread(t)
  PROVE  TerminalKept
<1> USE DEF TypeOK, TerminalKept, RowExists, Active, Terminal, WorkerMoves,
            ThreadMoves, ThreadReturns, dbVars, workerVars, requestVars, boundVars,
            historyVars
<1>1. CASE ThreadRegister(t) BY <1>1 DEF ThreadRegister
<1>2. CASE ThreadRefused(t) BY <1>2 DEF ThreadRefused
<1>3. CASE ThreadAttach(t) BY <1>3 DEF ThreadAttach
<1>4. CASE ThreadFails(t) BY <1>4 DEF ThreadFails
<1>5. CASE ThreadMaterialize(t) BY <1>5 DEF ThreadMaterialize
<1>6. CASE ThreadReadBack(t) BY <1>6 DEF ThreadReadBack
<1>7. CASE ThreadReadBackFails(t) BY <1>7 DEF ThreadReadBackFails, Opened
<1>8. CASE ThreadRewrite(t) BY <1>8 DEF ThreadRewrite
<1>9. CASE ThreadScriptFails(t) BY <1>9 DEF ThreadScriptFails
<1> QED
  BY <1>1, <1>2, <1>3, <1>4, <1>5, <1>6, <1>7, <1>8, <1>9 DEF Thread

LEMMA StableRequest ==
  ASSUME TypeOK, NEW r \in Jobs,
         Enqueue(r) \/ Cancel(r) \/ Delete(r) \/ Read(r) \/ RequestDropped(r)
  PROVE  TerminalKept
<1> USE DEF TypeOK, TerminalKept, RowExists, Active, Terminal, WorkerMoves,
            ThreadMoves, ThreadReturns, dbVars, workerVars, requestVars, boundVars,
            historyVars
<1>1. CASE Enqueue(r) BY <1>1 DEF Enqueue
<1>2. CASE CancelRead(r) BY <1>2 DEF CancelRead
<1>3. CASE CancelUpdate(r) BY <1>3 DEF CancelUpdate, MayCancel
<1>4. CASE CancelMiss(r) BY <1>4 DEF CancelMiss, MayCancel
<1>5. CASE CancelMark(r) BY <1>5 DEF CancelMark
<1>6. CASE DeleteRead(r) BY <1>6 DEF DeleteRead
<1>7. CASE DeleteFile(r) BY <1>7 DEF DeleteFile
<1>8. CASE DeleteRow(r) BY <1>8 DEF DeleteRow
<1>9. CASE ReadStart(r) BY <1>9 DEF ReadStart
<1>10. CASE ReadPermit(r) BY <1>10 DEF ReadPermit
<1>11. CASE ReadGivesUp(r) BY <1>11 DEF ReadGivesUp
<1>12. CASE ReadPage(r) BY <1>12 DEF ReadPage, Opened
<1>13. CASE RequestDropped(r) BY <1>13 DEF RequestDropped
<1> QED
  BY <1>1, <1>2, <1>3, <1>4, <1>5, <1>6, <1>7, <1>8, <1>9, <1>10, <1>11, <1>12,
     <1>13 DEF Cancel, Delete, Read

LEMMA StableStorage ==
  ASSUME TypeOK,
         Expiry \/ SourceDelete \/ Crash \/ Recover \/ Sweep
  PROVE  TerminalKept
<1> USE DEF TypeOK, TerminalKept, RowExists, Active, Terminal, WorkerMoves,
            ThreadMoves, ThreadReturns, dbVars, workerVars, requestVars, boundVars,
            historyVars
<1>1. CASE ExpiryFault BY <1>1 DEF ExpiryFault
<1>2. CASE SourceScan BY <1>2 DEF SourceScan
<1>3. CASE SourceFiles BY <1>3 DEF SourceFiles, SourceRemoves
<1>4. CASE SourceCascade BY <1>4 DEF SourceCascade
<1>5. CASE Crash BY <1>5 DEF Crash
<1>6. CASE Recover BY <1>6 DEF Recover, Recovered
<1>7. CASE Sweep BY <1>7 DEF Sweep, SweepKeeps
<1>8. ASSUME NEW S \in SUBSET Jobs, ExpiryBegin(S) PROVE TerminalKept
  BY <1>8 DEF ExpiryBegin
<1>9. ASSUME NEW e \in Jobs, ExpiryFile(e) PROVE TerminalKept
  BY <1>9 DEF ExpiryFile
<1>10. ASSUME NEW e \in Jobs, ExpiryClear(e) PROVE TerminalKept
  BY <1>10 DEF ExpiryClear
<1> QED
  BY <1>1, <1>2, <1>3, <1>4, <1>5, <1>6, <1>7, <1>8, <1>9, <1>10 DEF Expiry,
     SourceDelete

\* The status guards of the worker, of cancel and of recovery make the three
\* final statuses final (workers.rs:179, api/jobs.rs:218).
THEOREM TerminalIsStable == Spec => TerminalStable
<1>1. TypeOK /\ [Next]_vars => [TerminalKept]_vars
  BY StableWorker, StableThread, StableRequest, StableStorage DEF Next
<1> QED
  BY <1>1, TypeCorrect, PTL DEF Spec, TerminalStable

-----------------------------------------------------------------------------
(* Only a succeeded job has a result.                                      *)

LEMMA KeyWorker ==
  ASSUME TypeOK, KeyOnlyWhenSucceeded, Worker
  PROVE  KeyOnlyWhenSucceeded'
<1> USE DEF TypeOK, KeyOnlyWhenSucceeded, RowExists, Active, Terminal, WorkerMoves,
            ThreadMoves, ThreadReturns, dbVars, workerVars, requestVars, boundVars,
            historyVars
<1>1. CASE WorkerSelect BY <1>1 DEF WorkerSelect, OldestQueued
<1>2. CASE WorkerClaim BY <1>2 DEF WorkerClaim
<1>3. CASE WorkerClaimMiss BY <1>3 DEF WorkerClaimMiss
<1>4. CASE WorkerRegister BY <1>4 DEF WorkerRegister
<1>5. CASE WorkerPrepare BY <1>5 DEF WorkerPrepare
<1>6. CASE WorkerLaunch BY <1>6 DEF WorkerLaunch
<1>7. CASE WorkerNotLaunched BY <1>7 DEF WorkerNotLaunched
<1>8. CASE WorkerJoin BY <1>8 DEF WorkerJoin, AfterJoin
<1>9. CASE WorkerTimeout BY <1>9 DEF WorkerTimeout
<1>10. CASE WorkerPersist BY <1>10 DEF WorkerPersist
<1>11. CASE WorkerLogResult BY <1>11 DEF WorkerLogResult
<1>12. CASE WorkerCommit BY <1>12 DEF WorkerCommit
<1>13. CASE WorkerCommitMiss BY <1>13 DEF WorkerCommitMiss
<1>14. CASE WorkerRemoveArtifact BY <1>14 DEF WorkerRemoveArtifact
<1>15. CASE WorkerMarkFailed BY <1>15 DEF WorkerMarkFailed, FailIfRunning
<1>16. CASE WorkerFinalLog BY <1>16 DEF WorkerFinalLog
<1>17. CASE WorkerFallback BY <1>17 DEF WorkerFallback, FailIfRunning
<1>18. CASE WorkerRelease BY <1>18 DEF WorkerRelease
<1>19. CASE WorkerFault BY <1>19 DEF WorkerFault, AfterFault
<1> QED
  BY <1>1, <1>2, <1>3, <1>4, <1>5, <1>6, <1>7, <1>8, <1>9, <1>10, <1>11, <1>12,
     <1>13, <1>14, <1>15, <1>16, <1>17, <1>18, <1>19 DEF Worker

LEMMA KeyThread ==
  ASSUME TypeOK, KeyOnlyWhenSucceeded, NEW t \in Jobs, Thread(t)
  PROVE  KeyOnlyWhenSucceeded'
<1> USE DEF TypeOK, KeyOnlyWhenSucceeded, RowExists, Active, Terminal, WorkerMoves,
            ThreadMoves, ThreadReturns, dbVars, workerVars, requestVars, boundVars,
            historyVars
<1>1. CASE ThreadRegister(t) BY <1>1 DEF ThreadRegister
<1>2. CASE ThreadRefused(t) BY <1>2 DEF ThreadRefused
<1>3. CASE ThreadAttach(t) BY <1>3 DEF ThreadAttach
<1>4. CASE ThreadFails(t) BY <1>4 DEF ThreadFails
<1>5. CASE ThreadMaterialize(t) BY <1>5 DEF ThreadMaterialize
<1>6. CASE ThreadReadBack(t) BY <1>6 DEF ThreadReadBack
<1>7. CASE ThreadReadBackFails(t) BY <1>7 DEF ThreadReadBackFails, Opened
<1>8. CASE ThreadRewrite(t) BY <1>8 DEF ThreadRewrite
<1>9. CASE ThreadScriptFails(t) BY <1>9 DEF ThreadScriptFails
<1> QED
  BY <1>1, <1>2, <1>3, <1>4, <1>5, <1>6, <1>7, <1>8, <1>9 DEF Thread

LEMMA KeyRequest ==
  ASSUME TypeOK, KeyOnlyWhenSucceeded, NEW r \in Jobs,
         Enqueue(r) \/ Cancel(r) \/ Delete(r) \/ Read(r) \/ RequestDropped(r)
  PROVE  KeyOnlyWhenSucceeded'
<1> USE DEF TypeOK, KeyOnlyWhenSucceeded, RowExists, Active, Terminal, WorkerMoves,
            ThreadMoves, ThreadReturns, dbVars, workerVars, requestVars, boundVars,
            historyVars
<1>1. CASE Enqueue(r) BY <1>1 DEF Enqueue
<1>2. CASE CancelRead(r) BY <1>2 DEF CancelRead
<1>3. CASE CancelUpdate(r) BY <1>3 DEF CancelUpdate, MayCancel
<1>4. CASE CancelMiss(r) BY <1>4 DEF CancelMiss, MayCancel
<1>5. CASE CancelMark(r) BY <1>5 DEF CancelMark
<1>6. CASE DeleteRead(r) BY <1>6 DEF DeleteRead
<1>7. CASE DeleteFile(r) BY <1>7 DEF DeleteFile
<1>8. CASE DeleteRow(r) BY <1>8 DEF DeleteRow
<1>9. CASE ReadStart(r) BY <1>9 DEF ReadStart
<1>10. CASE ReadPermit(r) BY <1>10 DEF ReadPermit
<1>11. CASE ReadGivesUp(r) BY <1>11 DEF ReadGivesUp
<1>12. CASE ReadPage(r) BY <1>12 DEF ReadPage, Opened
<1>13. CASE RequestDropped(r) BY <1>13 DEF RequestDropped
<1> QED
  BY <1>1, <1>2, <1>3, <1>4, <1>5, <1>6, <1>7, <1>8, <1>9, <1>10, <1>11, <1>12,
     <1>13 DEF Cancel, Delete, Read

LEMMA KeyStorage ==
  ASSUME TypeOK, KeyOnlyWhenSucceeded,
         Expiry \/ SourceDelete \/ Crash \/ Recover \/ Sweep
  PROVE  KeyOnlyWhenSucceeded'
<1> USE DEF TypeOK, KeyOnlyWhenSucceeded, RowExists, Active, Terminal, WorkerMoves,
            ThreadMoves, ThreadReturns, dbVars, workerVars, requestVars, boundVars,
            historyVars
<1>1. CASE ExpiryFault BY <1>1 DEF ExpiryFault
<1>2. CASE SourceScan BY <1>2 DEF SourceScan
<1>3. CASE SourceFiles BY <1>3 DEF SourceFiles, SourceRemoves
<1>4. CASE SourceCascade BY <1>4 DEF SourceCascade
<1>5. CASE Crash BY <1>5 DEF Crash
<1>6. CASE Recover BY <1>6 DEF Recover, Recovered
<1>7. CASE Sweep BY <1>7 DEF Sweep, SweepKeeps
<1>8. ASSUME NEW S \in SUBSET Jobs, ExpiryBegin(S) PROVE KeyOnlyWhenSucceeded'
  BY <1>8 DEF ExpiryBegin
<1>9. ASSUME NEW e \in Jobs, ExpiryFile(e) PROVE KeyOnlyWhenSucceeded'
  BY <1>9 DEF ExpiryFile
<1>10. ASSUME NEW e \in Jobs, ExpiryClear(e) PROVE KeyOnlyWhenSucceeded'
  BY <1>10 DEF ExpiryClear
<1> QED
  BY <1>1, <1>2, <1>3, <1>4, <1>5, <1>6, <1>7, <1>8, <1>9, <1>10 DEF Expiry,
     SourceDelete

LEMMA KeyStep == TypeOK /\ KeyOnlyWhenSucceeded /\ [Next]_vars => KeyOnlyWhenSucceeded'
<1>1. ASSUME TypeOK, KeyOnlyWhenSucceeded, UNCHANGED vars PROVE KeyOnlyWhenSucceeded'
  BY <1>1 DEF KeyOnlyWhenSucceeded, vars, dbVars, workerVars, requestVars, boundVars,
              historyVars
<1> QED
  BY <1>1, KeyWorker, KeyThread, KeyRequest, KeyStorage DEF Next

\* Whatever races with the commit, the result columns are set exactly by the
\* UPDATE that makes the job succeed and never survive in another status.
THEOREM KeyCorrect == Spec => []KeyOnlyWhenSucceeded
<1>1. Init => KeyOnlyWhenSucceeded
  BY DEF Init, KeyOnlyWhenSucceeded
<1> QED
  BY <1>1, KeyStep, TypeCorrect, PTL DEF Spec

-----------------------------------------------------------------------------
(* A running row belongs to the worker.                                    *)

LEMMA OwnershipWorker ==
  ASSUME TypeOK, OwnershipInv, Worker
  PROVE  OwnershipInv'
<1> USE DEF TypeOK, OwnershipInv, RunningIsOwned, Owns, Guarded, RowExists, Active,
            Terminal, WorkerMoves, ThreadMoves, ThreadReturns, dbVars, workerVars,
            requestVars, boundVars, historyVars
<1>1. CASE WorkerSelect BY <1>1 DEF WorkerSelect, OldestQueued
<1>2. CASE WorkerClaim BY <1>2 DEF WorkerClaim
<1>3. CASE WorkerClaimMiss BY <1>3 DEF WorkerClaimMiss
<1>4. CASE WorkerRegister BY <1>4 DEF WorkerRegister
<1>5. CASE WorkerPrepare BY <1>5 DEF WorkerPrepare
<1>6. CASE WorkerLaunch BY <1>6 DEF WorkerLaunch
<1>7. CASE WorkerNotLaunched BY <1>7 DEF WorkerNotLaunched
<1>8. CASE WorkerJoin BY <1>8 DEF WorkerJoin, AfterJoin
<1>9. CASE WorkerTimeout BY <1>9 DEF WorkerTimeout
<1>10. CASE WorkerPersist BY <1>10 DEF WorkerPersist
<1>11. CASE WorkerLogResult BY <1>11 DEF WorkerLogResult
<1>12. CASE WorkerCommit BY <1>12 DEF WorkerCommit
<1>13. CASE WorkerCommitMiss BY <1>13 DEF WorkerCommitMiss
<1>14. CASE WorkerRemoveArtifact BY <1>14 DEF WorkerRemoveArtifact
<1>15. CASE WorkerMarkFailed BY <1>15 DEF WorkerMarkFailed, FailIfRunning
<1>16. CASE WorkerFinalLog BY <1>16 DEF WorkerFinalLog
<1>17. CASE WorkerFallback BY <1>17 DEF WorkerFallback, FailIfRunning
<1>18. CASE WorkerRelease BY <1>18 DEF WorkerRelease
<1>19. CASE WorkerFault BY <1>19 DEF WorkerFault, AfterFault
<1> QED
  BY <1>1, <1>2, <1>3, <1>4, <1>5, <1>6, <1>7, <1>8, <1>9, <1>10, <1>11, <1>12,
     <1>13, <1>14, <1>15, <1>16, <1>17, <1>18, <1>19 DEF Worker

LEMMA OwnershipThread ==
  ASSUME TypeOK, OwnershipInv, NEW t \in Jobs, Thread(t)
  PROVE  OwnershipInv'
<1> USE DEF TypeOK, OwnershipInv, RunningIsOwned, Owns, Guarded, RowExists, Active,
            Terminal, WorkerMoves, ThreadMoves, ThreadReturns, dbVars, workerVars,
            requestVars, boundVars, historyVars
<1>1. CASE ThreadRegister(t) BY <1>1 DEF ThreadRegister
<1>2. CASE ThreadRefused(t) BY <1>2 DEF ThreadRefused
<1>3. CASE ThreadAttach(t) BY <1>3 DEF ThreadAttach
<1>4. CASE ThreadFails(t) BY <1>4 DEF ThreadFails
<1>5. CASE ThreadMaterialize(t) BY <1>5 DEF ThreadMaterialize
<1>6. CASE ThreadReadBack(t) BY <1>6 DEF ThreadReadBack
<1>7. CASE ThreadReadBackFails(t) BY <1>7 DEF ThreadReadBackFails, Opened
<1>8. CASE ThreadRewrite(t) BY <1>8 DEF ThreadRewrite
<1>9. CASE ThreadScriptFails(t) BY <1>9 DEF ThreadScriptFails
<1> QED
  BY <1>1, <1>2, <1>3, <1>4, <1>5, <1>6, <1>7, <1>8, <1>9 DEF Thread

LEMMA OwnershipRequest ==
  ASSUME TypeOK, OwnershipInv, NEW r \in Jobs,
         Enqueue(r) \/ Cancel(r) \/ Delete(r) \/ Read(r) \/ RequestDropped(r)
  PROVE  OwnershipInv'
<1> USE DEF TypeOK, OwnershipInv, RunningIsOwned, Owns, Guarded, RowExists, Active,
            Terminal, WorkerMoves, ThreadMoves, ThreadReturns, dbVars, workerVars,
            requestVars, boundVars, historyVars
<1>1. CASE Enqueue(r) BY <1>1 DEF Enqueue
<1>2. CASE CancelRead(r) BY <1>2 DEF CancelRead
<1>3. CASE CancelUpdate(r) BY <1>3 DEF CancelUpdate, MayCancel
<1>4. CASE CancelMiss(r) BY <1>4 DEF CancelMiss, MayCancel
<1>5. CASE CancelMark(r) BY <1>5 DEF CancelMark
<1>6. CASE DeleteRead(r) BY <1>6 DEF DeleteRead
<1>7. CASE DeleteFile(r) BY <1>7 DEF DeleteFile
<1>8. CASE DeleteRow(r) BY <1>8 DEF DeleteRow
<1>9. CASE ReadStart(r) BY <1>9 DEF ReadStart
<1>10. CASE ReadPermit(r) BY <1>10 DEF ReadPermit
<1>11. CASE ReadGivesUp(r) BY <1>11 DEF ReadGivesUp
<1>12. CASE ReadPage(r) BY <1>12 DEF ReadPage, Opened
<1>13. CASE RequestDropped(r) BY <1>13 DEF RequestDropped
<1> QED
  BY <1>1, <1>2, <1>3, <1>4, <1>5, <1>6, <1>7, <1>8, <1>9, <1>10, <1>11, <1>12,
     <1>13 DEF Cancel, Delete, Read

LEMMA OwnershipStorage ==
  ASSUME TypeOK, OwnershipInv,
         Expiry \/ SourceDelete \/ Crash \/ Recover \/ Sweep
  PROVE  OwnershipInv'
<1> USE DEF TypeOK, OwnershipInv, RunningIsOwned, Owns, Guarded, RowExists, Active,
            Terminal, WorkerMoves, ThreadMoves, ThreadReturns, dbVars, workerVars,
            requestVars, boundVars, historyVars
<1>1. CASE ExpiryFault BY <1>1 DEF ExpiryFault
<1>2. CASE SourceScan BY <1>2 DEF SourceScan
<1>3. CASE SourceFiles BY <1>3 DEF SourceFiles, SourceRemoves
<1>4. CASE SourceCascade BY <1>4 DEF SourceCascade
<1>5. CASE Crash BY <1>5 DEF Crash
<1>6. CASE Recover BY <1>6 DEF Recover, Recovered
<1>7. CASE Sweep BY <1>7 DEF Sweep, SweepKeeps
<1>8. ASSUME NEW S \in SUBSET Jobs, ExpiryBegin(S) PROVE OwnershipInv'
  BY <1>8 DEF ExpiryBegin
<1>9. ASSUME NEW e \in Jobs, ExpiryFile(e) PROVE OwnershipInv'
  BY <1>9 DEF ExpiryFile
<1>10. ASSUME NEW e \in Jobs, ExpiryClear(e) PROVE OwnershipInv'
  BY <1>10 DEF ExpiryClear
<1> QED
  BY <1>1, <1>2, <1>3, <1>4, <1>5, <1>6, <1>7, <1>8, <1>9, <1>10 DEF Expiry,
     SourceDelete

LEMMA OwnershipStep == TypeOK /\ OwnershipInv /\ [Next]_vars => OwnershipInv'
<1>1. ASSUME TypeOK, OwnershipInv, UNCHANGED vars PROVE OwnershipInv'
  BY <1>1 DEF OwnershipInv, RunningIsOwned, Owns, vars, dbVars, workerVars,
              requestVars, boundVars, historyVars
<1> QED
  BY <1>1, OwnershipWorker, OwnershipThread, OwnershipRequest, OwnershipStorage DEF Next

LEMMA OwnershipInvariant == Spec => []OwnershipInv
<1>1. Init => OwnershipInv
  BY DEF Init, OwnershipInv, RunningIsOwned
<1> QED
  BY <1>1, OwnershipStep, TypeCorrect, PTL DEF Spec

\* One database error after the claim never leaves a job running for ever: the
\* last resort UPDATE of claim_and_run_job catches it (workers.rs:162-175).
THEOREM OneFaultIsSurvived == Spec => []RunningIsOwned
<1>1. OwnershipInv => RunningIsOwned
  BY DEF OwnershipInv
<1> QED
  BY <1>1, OwnershipInvariant, PTL

-----------------------------------------------------------------------------
(* The result offered is there.                                            *)

LEMMA LaunchWorker ==
  ASSUME TypeOK, OwnershipInv, LaunchInv, Worker
  PROVE  LaunchInv'
<1> USE DEF TypeOK, LaunchInv, Starting, Finishing, Guarded, RowExists, Active,
            Terminal, Live, WorkerMoves, ThreadMoves, ThreadReturns, dbVars,
            workerVars, requestVars, boundVars, historyVars
<1>1. CASE WorkerSelect BY <1>1 DEF WorkerSelect, OldestQueued
<1>2. CASE WorkerClaim BY <1>2 DEF WorkerClaim
<1>3. CASE WorkerClaimMiss BY <1>3 DEF WorkerClaimMiss
<1>4. CASE WorkerRegister BY <1>4 DEF WorkerRegister
<1>5. CASE WorkerPrepare BY <1>5 DEF WorkerPrepare
<1>6. CASE WorkerLaunch BY <1>6 DEF WorkerLaunch
<1>7. CASE WorkerNotLaunched BY <1>7 DEF WorkerNotLaunched
<1>8. CASE WorkerJoin BY <1>8 DEF WorkerJoin, AfterJoin
<1>9. CASE WorkerTimeout BY <1>9 DEF WorkerTimeout
<1>10. CASE WorkerPersist BY <1>10 DEF WorkerPersist
<1>11. CASE WorkerLogResult BY <1>11 DEF WorkerLogResult
<1>12. CASE WorkerCommit BY <1>12 DEF WorkerCommit
<1>13. CASE WorkerCommitMiss BY <1>13 DEF WorkerCommitMiss
<1>14. CASE WorkerRemoveArtifact BY <1>14 DEF WorkerRemoveArtifact
<1>15. CASE WorkerMarkFailed BY <1>15 DEF WorkerMarkFailed, FailIfRunning
<1>16. CASE WorkerFinalLog BY <1>16 DEF WorkerFinalLog
<1>17. CASE WorkerFallback BY <1>17 DEF WorkerFallback, FailIfRunning
<1>18. CASE WorkerRelease BY <1>18 DEF WorkerRelease
<1>19. CASE WorkerFault BY <1>19 DEF WorkerFault, AfterFault
<1> QED
  BY <1>1, <1>2, <1>3, <1>4, <1>5, <1>6, <1>7, <1>8, <1>9, <1>10, <1>11, <1>12,
     <1>13, <1>14, <1>15, <1>16, <1>17, <1>18, <1>19 DEF Worker

LEMMA LaunchThread ==
  ASSUME TypeOK, OwnershipInv, LaunchInv, NEW t \in Jobs, Thread(t)
  PROVE  LaunchInv'
<1> USE DEF TypeOK, LaunchInv, Starting, Finishing, Guarded, RowExists, Active,
            Terminal, Live, WorkerMoves, ThreadMoves, ThreadReturns, dbVars,
            workerVars, requestVars, boundVars, historyVars
<1>1. CASE ThreadRegister(t) BY <1>1 DEF ThreadRegister
<1>2. CASE ThreadRefused(t) BY <1>2 DEF ThreadRefused
<1>3. CASE ThreadAttach(t) BY <1>3 DEF ThreadAttach
<1>4. CASE ThreadFails(t) BY <1>4 DEF ThreadFails
<1>5. CASE ThreadMaterialize(t) BY <1>5 DEF ThreadMaterialize
<1>6. CASE ThreadReadBack(t) BY <1>6 DEF ThreadReadBack
<1>7. CASE ThreadReadBackFails(t) BY <1>7 DEF ThreadReadBackFails, Opened
<1>8. CASE ThreadRewrite(t) BY <1>8 DEF ThreadRewrite
<1>9. CASE ThreadScriptFails(t) BY <1>9 DEF ThreadScriptFails
<1> QED
  BY <1>1, <1>2, <1>3, <1>4, <1>5, <1>6, <1>7, <1>8, <1>9 DEF Thread

LEMMA LaunchRequest ==
  ASSUME TypeOK, OwnershipInv, LaunchInv, NEW r \in Jobs,
         Enqueue(r) \/ Cancel(r) \/ Delete(r) \/ Read(r) \/ RequestDropped(r)
  PROVE  LaunchInv'
<1> USE DEF TypeOK, LaunchInv, Starting, Finishing, Guarded, RowExists, Active,
            Terminal, Live, WorkerMoves, ThreadMoves, ThreadReturns, dbVars,
            workerVars, requestVars, boundVars, historyVars
<1>1. CASE Enqueue(r) BY <1>1 DEF Enqueue
<1>2. CASE CancelRead(r) BY <1>2 DEF CancelRead
<1>3. CASE CancelUpdate(r) BY <1>3 DEF CancelUpdate, MayCancel
<1>4. CASE CancelMiss(r) BY <1>4 DEF CancelMiss, MayCancel
<1>5. CASE CancelMark(r) BY <1>5 DEF CancelMark
<1>6. CASE DeleteRead(r) BY <1>6 DEF DeleteRead
<1>7. CASE DeleteFile(r) BY <1>7 DEF DeleteFile
<1>8. CASE DeleteRow(r) BY <1>8 DEF DeleteRow
<1>9. CASE ReadStart(r) BY <1>9 DEF ReadStart
<1>10. CASE ReadPermit(r) BY <1>10 DEF ReadPermit
<1>11. CASE ReadGivesUp(r) BY <1>11 DEF ReadGivesUp
<1>12. CASE ReadPage(r) BY <1>12 DEF ReadPage, Opened
<1>13. CASE RequestDropped(r) BY <1>13 DEF RequestDropped
<1> QED
  BY <1>1, <1>2, <1>3, <1>4, <1>5, <1>6, <1>7, <1>8, <1>9, <1>10, <1>11, <1>12,
     <1>13 DEF Cancel, Delete, Read

LEMMA LaunchStorage ==
  ASSUME TypeOK, OwnershipInv, LaunchInv,
         Expiry \/ SourceDelete \/ Crash \/ Recover \/ Sweep
  PROVE  LaunchInv'
<1> USE DEF TypeOK, LaunchInv, Starting, Finishing, Guarded, RowExists, Active,
            Terminal, Live, WorkerMoves, ThreadMoves, ThreadReturns, dbVars,
            workerVars, requestVars, boundVars, historyVars
<1>1. CASE ExpiryFault BY <1>1 DEF ExpiryFault
<1>2. CASE SourceScan BY <1>2 DEF SourceScan
<1>3. CASE SourceFiles BY <1>3 DEF SourceFiles, SourceRemoves
<1>4. CASE SourceCascade BY <1>4 DEF SourceCascade
<1>5. CASE Crash BY <1>5 DEF Crash
<1>6. CASE Recover BY <1>6 DEF Recover, Recovered
<1>7. CASE Sweep BY <1>7 DEF Sweep, SweepKeeps
<1>8. ASSUME NEW S \in SUBSET Jobs, ExpiryBegin(S) PROVE LaunchInv'
  BY <1>8 DEF ExpiryBegin
<1>9. ASSUME NEW e \in Jobs, ExpiryFile(e) PROVE LaunchInv'
  BY <1>9 DEF ExpiryFile
<1>10. ASSUME NEW e \in Jobs, ExpiryClear(e) PROVE LaunchInv'
  BY <1>10 DEF ExpiryClear
<1> QED
  BY <1>1, <1>2, <1>3, <1>4, <1>5, <1>6, <1>7, <1>8, <1>9, <1>10 DEF Expiry,
     SourceDelete

LEMMA LaunchStep == TypeOK /\ OwnershipInv /\ LaunchInv /\ [Next]_vars => LaunchInv'
<1>1. ASSUME TypeOK, OwnershipInv, LaunchInv, UNCHANGED vars PROVE LaunchInv'
  BY <1>1 DEF LaunchInv, vars, dbVars, workerVars, requestVars, boundVars, historyVars
<1> QED
  BY <1>1, LaunchWorker, LaunchThread, LaunchRequest, LaunchStorage DEF Next

LEMMA LaunchInvariant == Spec => []LaunchInv
<1>1. Init => LaunchInv
  BY DEF Init, LaunchInv, Starting, Finishing, Guarded
<1> QED
  BY <1>1, LaunchStep, TypeCorrect, OwnershipInvariant, PTL DEF Spec

LEMMA RemovalWorker ==
  ASSUME TypeOK, KeyOnlyWhenSucceeded, OwnershipInv, LaunchInv, RemovalInv, Worker
  PROVE  RemovalInv'
<1> USE DEF TypeOK, RemovalInv, KeyOnlyWhenSucceeded, LaunchInv, Starting, Finishing,
            Guarded, RowExists, Active, Terminal, Live, WorkerMoves, ThreadMoves,
            ThreadReturns, dbVars, workerVars, requestVars, boundVars, historyVars
<1>1. CASE WorkerSelect BY <1>1 DEF WorkerSelect, OldestQueued
<1>2. CASE WorkerClaim BY <1>2 DEF WorkerClaim
<1>3. CASE WorkerClaimMiss BY <1>3 DEF WorkerClaimMiss
<1>4. CASE WorkerRegister BY <1>4 DEF WorkerRegister
<1>5. CASE WorkerPrepare BY <1>5 DEF WorkerPrepare
<1>6. CASE WorkerLaunch BY <1>6 DEF WorkerLaunch
<1>7. CASE WorkerNotLaunched BY <1>7 DEF WorkerNotLaunched
<1>8. CASE WorkerJoin BY <1>8 DEF WorkerJoin, AfterJoin
<1>9. CASE WorkerTimeout BY <1>9 DEF WorkerTimeout
<1>10. CASE WorkerPersist BY <1>10 DEF WorkerPersist
<1>11. CASE WorkerLogResult BY <1>11 DEF WorkerLogResult
<1>12. CASE WorkerCommit BY <1>12 DEF WorkerCommit
<1>13. CASE WorkerCommitMiss BY <1>13 DEF WorkerCommitMiss
<1>14. CASE WorkerRemoveArtifact BY <1>14 DEF WorkerRemoveArtifact
<1>15. CASE WorkerMarkFailed BY <1>15 DEF WorkerMarkFailed, FailIfRunning
<1>16. CASE WorkerFinalLog BY <1>16 DEF WorkerFinalLog
<1>17. CASE WorkerFallback BY <1>17 DEF WorkerFallback, FailIfRunning
<1>18. CASE WorkerRelease BY <1>18 DEF WorkerRelease
<1>19. CASE WorkerFault BY <1>19 DEF WorkerFault, AfterFault
<1> QED
  BY <1>1, <1>2, <1>3, <1>4, <1>5, <1>6, <1>7, <1>8, <1>9, <1>10, <1>11, <1>12,
     <1>13, <1>14, <1>15, <1>16, <1>17, <1>18, <1>19 DEF Worker

LEMMA RemovalThread ==
  ASSUME TypeOK, KeyOnlyWhenSucceeded, OwnershipInv, LaunchInv,
         RemovalInv, NEW t \in Jobs, Thread(t)
  PROVE  RemovalInv'
<1> USE DEF TypeOK, RemovalInv, KeyOnlyWhenSucceeded, LaunchInv, Starting, Finishing,
            Guarded, RowExists, Active, Terminal, Live, WorkerMoves, ThreadMoves,
            ThreadReturns, dbVars, workerVars, requestVars, boundVars, historyVars
<1>1. CASE ThreadRegister(t) BY <1>1 DEF ThreadRegister
<1>2. CASE ThreadRefused(t) BY <1>2 DEF ThreadRefused
<1>3. CASE ThreadAttach(t) BY <1>3 DEF ThreadAttach
<1>4. CASE ThreadFails(t) BY <1>4 DEF ThreadFails
<1>5. CASE ThreadMaterialize(t) BY <1>5 DEF ThreadMaterialize
<1>6. CASE ThreadReadBack(t) BY <1>6 DEF ThreadReadBack
<1>7. CASE ThreadReadBackFails(t) BY <1>7 DEF ThreadReadBackFails, Opened
<1>8. CASE ThreadRewrite(t) BY <1>8 DEF ThreadRewrite
<1>9. CASE ThreadScriptFails(t) BY <1>9 DEF ThreadScriptFails
<1> QED
  BY <1>1, <1>2, <1>3, <1>4, <1>5, <1>6, <1>7, <1>8, <1>9 DEF Thread

LEMMA RemovalRequest ==
  ASSUME TypeOK, KeyOnlyWhenSucceeded, OwnershipInv, LaunchInv,
         RemovalInv, NEW r \in Jobs,
         Enqueue(r) \/ Cancel(r) \/ Delete(r) \/ Read(r) \/ RequestDropped(r)
  PROVE  RemovalInv'
<1> USE DEF TypeOK, RemovalInv, KeyOnlyWhenSucceeded, LaunchInv, Starting, Finishing,
            Guarded, RowExists, Active, Terminal, Live, WorkerMoves, ThreadMoves,
            ThreadReturns, dbVars, workerVars, requestVars, boundVars, historyVars
<1>1. CASE Enqueue(r) BY <1>1 DEF Enqueue
<1>2. CASE CancelRead(r) BY <1>2 DEF CancelRead
<1>3. CASE CancelUpdate(r) BY <1>3 DEF CancelUpdate, MayCancel
<1>4. CASE CancelMiss(r) BY <1>4 DEF CancelMiss, MayCancel
<1>5. CASE CancelMark(r) BY <1>5 DEF CancelMark
<1>6. CASE DeleteRead(r) BY <1>6 DEF DeleteRead
<1>7. CASE DeleteFile(r) BY <1>7 DEF DeleteFile
<1>8. CASE DeleteRow(r) BY <1>8 DEF DeleteRow
<1>9. CASE ReadStart(r) BY <1>9 DEF ReadStart
<1>10. CASE ReadPermit(r) BY <1>10 DEF ReadPermit
<1>11. CASE ReadGivesUp(r) BY <1>11 DEF ReadGivesUp
<1>12. CASE ReadPage(r) BY <1>12 DEF ReadPage, Opened
<1>13. CASE RequestDropped(r) BY <1>13 DEF RequestDropped
<1> QED
  BY <1>1, <1>2, <1>3, <1>4, <1>5, <1>6, <1>7, <1>8, <1>9, <1>10, <1>11, <1>12,
     <1>13 DEF Cancel, Delete, Read

LEMMA RemovalStorage ==
  ASSUME TypeOK, KeyOnlyWhenSucceeded, OwnershipInv, LaunchInv, RemovalInv,
         Expiry \/ SourceDelete \/ Crash \/ Recover \/ Sweep
  PROVE  RemovalInv'
<1> USE DEF TypeOK, RemovalInv, KeyOnlyWhenSucceeded, LaunchInv, Starting, Finishing,
            Guarded, RowExists, Active, Terminal, Live, WorkerMoves, ThreadMoves,
            ThreadReturns, dbVars, workerVars, requestVars, boundVars, historyVars
<1>1. CASE ExpiryFault BY <1>1 DEF ExpiryFault
<1>2. CASE SourceScan BY <1>2 DEF SourceScan
<1>3. CASE SourceFiles BY <1>3 DEF SourceFiles, SourceRemoves
<1>4. CASE SourceCascade BY <1>4 DEF SourceCascade
<1>5. CASE Crash BY <1>5 DEF Crash
<1>6. CASE Recover BY <1>6 DEF Recover, Recovered
<1>7. CASE Sweep BY <1>7 DEF Sweep, SweepKeeps, OwnershipInv
<1>8. ASSUME NEW S \in SUBSET Jobs, ExpiryBegin(S) PROVE RemovalInv'
  BY <1>8 DEF ExpiryBegin
<1>9. ASSUME NEW e \in Jobs, ExpiryFile(e) PROVE RemovalInv'
  BY <1>9 DEF ExpiryFile
<1>10. ASSUME NEW e \in Jobs, ExpiryClear(e) PROVE RemovalInv'
  BY <1>10 DEF ExpiryClear
<1> QED
  BY <1>1, <1>2, <1>3, <1>4, <1>5, <1>6, <1>7, <1>8, <1>9, <1>10 DEF Expiry,
     SourceDelete

LEMMA RemovalStep ==
  TypeOK /\ KeyOnlyWhenSucceeded /\ OwnershipInv /\ LaunchInv /\ RemovalInv
    /\ [Next]_vars => RemovalInv'
<1>1. ASSUME TypeOK, KeyOnlyWhenSucceeded, OwnershipInv, LaunchInv,
             RemovalInv, UNCHANGED vars
      PROVE  RemovalInv'
  BY <1>1 DEF RemovalInv, vars, dbVars, workerVars, requestVars, boundVars,
              historyVars
<1> QED
  BY <1>1, RemovalWorker, RemovalThread, RemovalRequest, RemovalStorage DEF Next

LEMMA RemovalInvariant == Spec => []RemovalInv
<1>1. Init => RemovalInv
  BY DEF Init, RemovalInv, Finishing, Guarded
<1> QED
  BY <1>1, RemovalStep, TypeCorrect, KeyCorrect, OwnershipInvariant,
     LaunchInvariant, PTL DEF Spec

LEMMA AvailableWorker ==
  ASSUME TypeOK, KeyOnlyWhenSucceeded, OwnershipInv, LaunchInv,
         RemovalInv, ResultAvailable, Worker
  PROVE  ResultAvailable'
<1> USE DEF TypeOK, ResultAvailable, RemovalInv, KeyOnlyWhenSucceeded, Finishing,
            Guarded, RowExists, Active, Terminal, Live, WorkerMoves, ThreadMoves,
            ThreadReturns, dbVars, workerVars, requestVars, boundVars, historyVars
<1>1. CASE WorkerSelect BY <1>1 DEF WorkerSelect, OldestQueued
<1>2. CASE WorkerClaim BY <1>2 DEF WorkerClaim
<1>3. CASE WorkerClaimMiss BY <1>3 DEF WorkerClaimMiss
<1>4. CASE WorkerRegister BY <1>4 DEF WorkerRegister
<1>5. CASE WorkerPrepare BY <1>5 DEF WorkerPrepare
<1>6. CASE WorkerLaunch BY <1>6 DEF WorkerLaunch
<1>7. CASE WorkerNotLaunched BY <1>7 DEF WorkerNotLaunched
<1>8. CASE WorkerJoin BY <1>8 DEF WorkerJoin, AfterJoin
<1>9. CASE WorkerTimeout BY <1>9 DEF WorkerTimeout
<1>10. CASE WorkerPersist BY <1>10 DEF WorkerPersist
<1>11. CASE WorkerLogResult BY <1>11 DEF WorkerLogResult
<1>12. CASE WorkerCommit BY <1>12 DEF WorkerCommit
<1>13. CASE WorkerCommitMiss BY <1>13 DEF WorkerCommitMiss
<1>14. CASE WorkerRemoveArtifact BY <1>14 DEF WorkerRemoveArtifact
<1>15. CASE WorkerMarkFailed BY <1>15 DEF WorkerMarkFailed, FailIfRunning
<1>16. CASE WorkerFinalLog BY <1>16 DEF WorkerFinalLog
<1>17. CASE WorkerFallback BY <1>17 DEF WorkerFallback, FailIfRunning
<1>18. CASE WorkerRelease BY <1>18 DEF WorkerRelease
<1>19. CASE WorkerFault BY <1>19 DEF WorkerFault, AfterFault
<1> QED
  BY <1>1, <1>2, <1>3, <1>4, <1>5, <1>6, <1>7, <1>8, <1>9, <1>10, <1>11, <1>12,
     <1>13, <1>14, <1>15, <1>16, <1>17, <1>18, <1>19 DEF Worker

LEMMA AvailableThread ==
  ASSUME TypeOK, KeyOnlyWhenSucceeded, OwnershipInv, LaunchInv,
         RemovalInv, ResultAvailable, NEW t \in Jobs, Thread(t)
  PROVE  ResultAvailable'
<1> USE DEF TypeOK, ResultAvailable, RemovalInv, KeyOnlyWhenSucceeded, Finishing,
            Guarded, RowExists, Active, Terminal, Live, WorkerMoves, ThreadMoves,
            ThreadReturns, dbVars, workerVars, requestVars, boundVars, historyVars
<1>1. CASE ThreadRegister(t) BY <1>1 DEF ThreadRegister
<1>2. CASE ThreadRefused(t) BY <1>2 DEF ThreadRefused
<1>3. CASE ThreadAttach(t) BY <1>3 DEF ThreadAttach
<1>4. CASE ThreadFails(t) BY <1>4 DEF ThreadFails
<1>5. CASE ThreadMaterialize(t) BY <1>5 DEF ThreadMaterialize
<1>6. CASE ThreadReadBack(t) BY <1>6 DEF ThreadReadBack
<1>7. CASE ThreadReadBackFails(t) BY <1>7 DEF ThreadReadBackFails, Opened
<1>8. CASE ThreadRewrite(t) BY <1>8 DEF ThreadRewrite
<1>9. CASE ThreadScriptFails(t) BY <1>9 DEF ThreadScriptFails
<1> QED
  BY <1>1, <1>2, <1>3, <1>4, <1>5, <1>6, <1>7, <1>8, <1>9 DEF Thread

LEMMA AvailableRequest ==
  ASSUME TypeOK, KeyOnlyWhenSucceeded, OwnershipInv, LaunchInv,
         RemovalInv, ResultAvailable, NEW r \in Jobs,
         Enqueue(r) \/ Cancel(r) \/ Delete(r) \/ Read(r) \/ RequestDropped(r)
  PROVE  ResultAvailable'
<1> USE DEF TypeOK, ResultAvailable, RemovalInv, KeyOnlyWhenSucceeded, Finishing,
            Guarded, RowExists, Active, Terminal, Live, WorkerMoves, ThreadMoves,
            ThreadReturns, dbVars, workerVars, requestVars, boundVars, historyVars
<1>1. CASE Enqueue(r) BY <1>1 DEF Enqueue
<1>2. CASE CancelRead(r) BY <1>2 DEF CancelRead
<1>3. CASE CancelUpdate(r) BY <1>3 DEF CancelUpdate, MayCancel
<1>4. CASE CancelMiss(r) BY <1>4 DEF CancelMiss, MayCancel
<1>5. CASE CancelMark(r) BY <1>5 DEF CancelMark
<1>6. CASE DeleteRead(r) BY <1>6 DEF DeleteRead
<1>7. CASE DeleteFile(r) BY <1>7 DEF DeleteFile
<1>8. CASE DeleteRow(r) BY <1>8 DEF DeleteRow
<1>9. CASE ReadStart(r) BY <1>9 DEF ReadStart
<1>10. CASE ReadPermit(r) BY <1>10 DEF ReadPermit
<1>11. CASE ReadGivesUp(r) BY <1>11 DEF ReadGivesUp
<1>12. CASE ReadPage(r) BY <1>12 DEF ReadPage, Opened
<1>13. CASE RequestDropped(r) BY <1>13 DEF RequestDropped
<1> QED
  BY <1>1, <1>2, <1>3, <1>4, <1>5, <1>6, <1>7, <1>8, <1>9, <1>10, <1>11, <1>12,
     <1>13 DEF Cancel, Delete, Read

LEMMA AvailableStorage ==
  ASSUME TypeOK, KeyOnlyWhenSucceeded, OwnershipInv, LaunchInv,
         RemovalInv, ResultAvailable,
         Expiry \/ SourceDelete \/ Crash \/ Recover \/ Sweep
  PROVE  ResultAvailable'
<1> USE DEF TypeOK, ResultAvailable, RemovalInv, KeyOnlyWhenSucceeded, Finishing,
            Guarded, RowExists, Active, Terminal, Live, WorkerMoves, ThreadMoves,
            ThreadReturns, dbVars, workerVars, requestVars, boundVars, historyVars
<1>1. CASE ExpiryFault BY <1>1 DEF ExpiryFault
<1>2. CASE SourceScan BY <1>2 DEF SourceScan
<1>3. CASE SourceFiles BY <1>3 DEF SourceFiles, SourceRemoves
<1>4. CASE SourceCascade BY <1>4 DEF SourceCascade
<1>5. CASE Crash BY <1>5 DEF Crash
<1>6. CASE Recover BY <1>6 DEF Recover, Recovered
<1>7. CASE Sweep BY <1>7 DEF Sweep, SweepKeeps
<1>8. ASSUME NEW S \in SUBSET Jobs, ExpiryBegin(S) PROVE ResultAvailable'
  BY <1>8 DEF ExpiryBegin
<1>9. ASSUME NEW e \in Jobs, ExpiryFile(e) PROVE ResultAvailable'
  BY <1>9 DEF ExpiryFile
<1>10. ASSUME NEW e \in Jobs, ExpiryClear(e) PROVE ResultAvailable'
  BY <1>10 DEF ExpiryClear
<1> QED
  BY <1>1, <1>2, <1>3, <1>4, <1>5, <1>6, <1>7, <1>8, <1>9, <1>10 DEF Expiry,
     SourceDelete

LEMMA AvailableStep ==
  TypeOK /\ KeyOnlyWhenSucceeded /\ OwnershipInv /\ LaunchInv /\ RemovalInv
    /\ ResultAvailable
    /\ [Next]_vars => ResultAvailable'
<1>1. ASSUME TypeOK, KeyOnlyWhenSucceeded, OwnershipInv, LaunchInv,
             RemovalInv, ResultAvailable, UNCHANGED vars
      PROVE  ResultAvailable'
  BY <1>1 DEF ResultAvailable, vars, dbVars, workerVars, requestVars, boundVars,
              historyVars
<1> QED
  BY <1>1, AvailableWorker, AvailableThread, AvailableRequest, AvailableStorage DEF Next

\* The result a succeeded job offers is complete and on disk until its expiry or
\* deletion was decided: no discard, late query thread, startup sweep or crash
\* removes or replaces it.
THEOREM ResultIsAvailable == Spec => []ResultAvailable
<1>1. Init => ResultAvailable
  BY DEF Init, ResultAvailable
<1> QED
  BY <1>1, AvailableStep, TypeCorrect, KeyCorrect, OwnershipInvariant,
     LaunchInvariant, RemovalInvariant, PTL DEF Spec

-----------------------------------------------------------------------------
(* No result file is lost track of.                                        *)

Known == TypeOK /\ KeyOnlyWhenSucceeded /\ OwnershipInv /\ LaunchInv /\ RemovalInv

LEMMA KnownInvariant == Spec => []Known
BY TypeCorrect, KeyCorrect, OwnershipInvariant, LaunchInvariant, RemovalInvariant, PTL
   DEF Known

LEMMA TrackingWorker ==
  ASSUME Known, TrackingInv, Worker
  PROVE  TrackingInv'
<1> USE DEF Known, TrackingInv, NoUntrackedResult, Excusable, Owns,
            KeyOnlyWhenSucceeded, OwnershipInv, LaunchInv, RemovalInv, Starting,
            Finishing, Guarded, TypeOK, RowExists, Active, Terminal, Live,
            WorkerMoves, ThreadMoves, ThreadReturns, dbVars, workerVars,
            requestVars, boundVars, historyVars
<1>1. CASE WorkerSelect BY <1>1 DEF WorkerSelect, OldestQueued
<1>2. CASE WorkerClaim BY <1>2 DEF WorkerClaim
<1>3. CASE WorkerClaimMiss BY <1>3 DEF WorkerClaimMiss
<1>4. CASE WorkerRegister BY <1>4 DEF WorkerRegister
<1>5. CASE WorkerPrepare BY <1>5 DEF WorkerPrepare
<1>6. CASE WorkerLaunch BY <1>6 DEF WorkerLaunch
<1>7. CASE WorkerNotLaunched BY <1>7 DEF WorkerNotLaunched
<1>8. CASE WorkerJoin BY <1>8 DEF WorkerJoin, AfterJoin
<1>9. CASE WorkerTimeout BY <1>9 DEF WorkerTimeout
<1>10. CASE WorkerPersist BY <1>10 DEF WorkerPersist
<1>11. CASE WorkerLogResult BY <1>11 DEF WorkerLogResult
<1>12. CASE WorkerCommit BY <1>12 DEF WorkerCommit
<1>13. CASE WorkerCommitMiss BY <1>13 DEF WorkerCommitMiss
<1>14. CASE WorkerRemoveArtifact BY <1>14 DEF WorkerRemoveArtifact
<1>15. CASE WorkerMarkFailed BY <1>15 DEF WorkerMarkFailed, FailIfRunning
<1>16. CASE WorkerFinalLog BY <1>16 DEF WorkerFinalLog
<1>17. CASE WorkerFallback BY <1>17 DEF WorkerFallback, FailIfRunning
<1>18. CASE WorkerRelease BY <1>18 DEF WorkerRelease
<1>19. CASE WorkerFault BY <1>19 DEF WorkerFault, AfterFault
<1> QED
  BY <1>1, <1>2, <1>3, <1>4, <1>5, <1>6, <1>7, <1>8, <1>9, <1>10, <1>11, <1>12,
     <1>13, <1>14, <1>15, <1>16, <1>17, <1>18, <1>19 DEF Worker

LEMMA TrackingThread ==
  ASSUME Known, TrackingInv, NEW t \in Jobs, Thread(t)
  PROVE  TrackingInv'
<1> USE DEF Known, TrackingInv, NoUntrackedResult, Excusable, Owns,
            KeyOnlyWhenSucceeded, OwnershipInv, LaunchInv, RemovalInv, Starting,
            Finishing, Guarded, TypeOK, RowExists, Active, Terminal, Live,
            WorkerMoves, ThreadMoves, ThreadReturns, dbVars, workerVars,
            requestVars, boundVars, historyVars
<1>1. CASE ThreadRegister(t) BY <1>1 DEF ThreadRegister
<1>2. CASE ThreadRefused(t) BY <1>2 DEF ThreadRefused
<1>3. CASE ThreadAttach(t) BY <1>3 DEF ThreadAttach
<1>4. CASE ThreadFails(t) BY <1>4 DEF ThreadFails
<1>5. CASE ThreadMaterialize(t) BY <1>5 DEF ThreadMaterialize
<1>6. CASE ThreadReadBack(t) BY <1>6 DEF ThreadReadBack
<1>7. CASE ThreadReadBackFails(t) BY <1>7 DEF ThreadReadBackFails, Opened
<1>8. CASE ThreadRewrite(t) BY <1>8 DEF ThreadRewrite
<1>9. CASE ThreadScriptFails(t) BY <1>9 DEF ThreadScriptFails
<1> QED
  BY <1>1, <1>2, <1>3, <1>4, <1>5, <1>6, <1>7, <1>8, <1>9 DEF Thread

LEMMA TrackingRequest ==
  ASSUME Known, TrackingInv, NEW r \in Jobs,
         Enqueue(r) \/ Cancel(r) \/ Delete(r) \/ Read(r) \/ RequestDropped(r)
  PROVE  TrackingInv'
<1> USE DEF Known, TrackingInv, NoUntrackedResult, Excusable, Owns,
            KeyOnlyWhenSucceeded, OwnershipInv, LaunchInv, RemovalInv, Starting,
            Finishing, Guarded, TypeOK, RowExists, Active, Terminal, Live,
            WorkerMoves, ThreadMoves, ThreadReturns, dbVars, workerVars,
            requestVars, boundVars, historyVars
<1>1. CASE Enqueue(r) BY <1>1 DEF Enqueue
<1>2. CASE CancelRead(r) BY <1>2 DEF CancelRead
<1>3. CASE CancelUpdate(r) BY <1>3 DEF CancelUpdate, MayCancel
<1>4. CASE CancelMiss(r) BY <1>4 DEF CancelMiss, MayCancel
<1>5. CASE CancelMark(r) BY <1>5 DEF CancelMark
<1>6. CASE DeleteRead(r) BY <1>6 DEF DeleteRead
<1>7. CASE DeleteFile(r) BY <1>7 DEF DeleteFile
<1>8. CASE DeleteRow(r) BY <1>8 DEF DeleteRow
<1>9. CASE ReadStart(r) BY <1>9 DEF ReadStart
<1>10. CASE ReadPermit(r) BY <1>10 DEF ReadPermit
<1>11. CASE ReadGivesUp(r) BY <1>11 DEF ReadGivesUp
<1>12. CASE ReadPage(r) BY <1>12 DEF ReadPage, Opened
<1>13. CASE RequestDropped(r) BY <1>13 DEF RequestDropped
<1> QED
  BY <1>1, <1>2, <1>3, <1>4, <1>5, <1>6, <1>7, <1>8, <1>9, <1>10, <1>11, <1>12,
     <1>13 DEF Cancel, Delete, Read

LEMMA TrackingStorage ==
  ASSUME Known, TrackingInv,
         Expiry \/ SourceDelete \/ Crash \/ Recover \/ Sweep
  PROVE  TrackingInv'
<1> USE DEF Known, TrackingInv, NoUntrackedResult, Excusable, Owns,
            KeyOnlyWhenSucceeded, OwnershipInv, LaunchInv, RemovalInv, Starting,
            Finishing, Guarded, TypeOK, RowExists, Active, Terminal, Live,
            WorkerMoves, ThreadMoves, ThreadReturns, dbVars, workerVars,
            requestVars, boundVars, historyVars
<1>1. CASE ExpiryFault BY <1>1 DEF ExpiryFault
<1>2. CASE SourceScan BY <1>2 DEF SourceScan
<1>3. CASE SourceFiles BY <1>3 DEF SourceFiles, SourceRemoves
<1>4. CASE SourceCascade BY <1>4 DEF SourceCascade
<1>5. CASE Crash BY <1>5 DEF Crash
<1>6. CASE Recover BY <1>6 DEF Recover, Recovered
<1>7. CASE Sweep BY <1>7 DEF Sweep, SweepKeeps
<1>8. ASSUME NEW S \in SUBSET Jobs, ExpiryBegin(S) PROVE TrackingInv'
  BY <1>8 DEF ExpiryBegin
<1>9. ASSUME NEW e \in Jobs, ExpiryFile(e) PROVE TrackingInv'
  BY <1>9 DEF ExpiryFile
<1>10. ASSUME NEW e \in Jobs, ExpiryClear(e) PROVE TrackingInv'
  BY <1>10 DEF ExpiryClear
<1> QED
  BY <1>1, <1>2, <1>3, <1>4, <1>5, <1>6, <1>7, <1>8, <1>9, <1>10 DEF Expiry,
     SourceDelete

LEMMA TrackingStep == Known /\ TrackingInv /\ [Next]_vars => TrackingInv'
<1>1. ASSUME Known, TrackingInv, UNCHANGED vars PROVE TrackingInv'
  BY <1>1 DEF TrackingInv, NoUntrackedResult, Excusable, Owns, vars, dbVars, workerVars,
              requestVars, boundVars, historyVars
<1> QED
  BY <1>1, TrackingWorker, TrackingThread, TrackingRequest, TrackingStorage DEF Next

LEMMA TrackingInvariant == Spec => []TrackingInv
<1>1. Init => TrackingInv
  BY DEF Init, TrackingInv, NoUntrackedResult, Excusable, Live
<1> QED
  BY <1>1, TrackingStep, KnownInvariant, PTL DEF Spec

\* A result file that no row names belongs to a job the worker or its thread is
\* still busy with, or to one of the cases counted in excused, which the next
\* startup clears: completions, cancels, deletions and expiry lose none else.
THEOREM NothingUntracked == Spec => []NoUntrackedResult
BY TrackingInvariant, PTL DEF TrackingInv

-----------------------------------------------------------------------------
(* The permits are neither lost nor used twice.                            *)

Using == {j \in Jobs : thread[j] \in Live}
Reading == {j \in Jobs : reader[j] = "reading"}

\* The only ways a step touches the permits: one thread or one reader takes or
\* returns one, or a crash starts over.
PermitMoves ==
    \/ free' = free /\ Using' = Using /\ Reading' = Reading
    \/ \E j \in Jobs \ Using :
           free' = free - 1 /\ Using' = Using \cup {j} /\ Reading' = Reading
    \/ \E j \in Using :
           free' = free + 1 /\ Using' = Using \ {j} /\ Reading' = Reading
    \/ \E j \in Jobs \ Reading :
           free' = free - 1 /\ Using' = Using /\ Reading' = Reading \cup {j}
    \/ \E j \in Reading :
           free' = free + 1 /\ Using' = Using /\ Reading' = Reading \ {j}
    \/ free' = Permits /\ Using' = {} /\ Reading' = {}

LEMMA PermitWorker ==
  ASSUME Known, Worker
  PROVE  PermitMoves
<1> USE DEF PermitMoves, Using, Reading, Known, TypeOK, LaunchInv, Starting,
            Finishing, Guarded, RowExists, Active, Terminal, Live, WorkerMoves,
            ThreadMoves, ThreadReturns, dbVars, workerVars, requestVars,
            boundVars, historyVars
<1>1. CASE WorkerSelect BY <1>1 DEF WorkerSelect, OldestQueued
<1>2. CASE WorkerClaim BY <1>2 DEF WorkerClaim
<1>3. CASE WorkerClaimMiss BY <1>3 DEF WorkerClaimMiss
<1>4. CASE WorkerRegister BY <1>4 DEF WorkerRegister
<1>5. CASE WorkerPrepare BY <1>5 DEF WorkerPrepare
<1>6. CASE WorkerLaunch BY <1>6 DEF WorkerLaunch
<1>7. CASE WorkerNotLaunched BY <1>7 DEF WorkerNotLaunched
<1>8. CASE WorkerJoin BY <1>8 DEF WorkerJoin, AfterJoin
<1>9. CASE WorkerTimeout BY <1>9 DEF WorkerTimeout
<1>10. CASE WorkerPersist BY <1>10 DEF WorkerPersist
<1>11. CASE WorkerLogResult BY <1>11 DEF WorkerLogResult
<1>12. CASE WorkerCommit BY <1>12 DEF WorkerCommit
<1>13. CASE WorkerCommitMiss BY <1>13 DEF WorkerCommitMiss
<1>14. CASE WorkerRemoveArtifact BY <1>14 DEF WorkerRemoveArtifact
<1>15. CASE WorkerMarkFailed BY <1>15 DEF WorkerMarkFailed, FailIfRunning
<1>16. CASE WorkerFinalLog BY <1>16 DEF WorkerFinalLog
<1>17. CASE WorkerFallback BY <1>17 DEF WorkerFallback, FailIfRunning
<1>18. CASE WorkerRelease BY <1>18 DEF WorkerRelease
<1>19. CASE WorkerFault BY <1>19 DEF WorkerFault, AfterFault
<1> QED
  BY <1>1, <1>2, <1>3, <1>4, <1>5, <1>6, <1>7, <1>8, <1>9, <1>10, <1>11, <1>12,
     <1>13, <1>14, <1>15, <1>16, <1>17, <1>18, <1>19 DEF Worker

LEMMA PermitThread ==
  ASSUME Known, NEW t \in Jobs, Thread(t)
  PROVE  PermitMoves
<1> USE DEF PermitMoves, Using, Reading, Known, TypeOK, LaunchInv, Starting,
            Finishing, Guarded, RowExists, Active, Terminal, Live, WorkerMoves,
            ThreadMoves, ThreadReturns, dbVars, workerVars, requestVars,
            boundVars, historyVars
<1>1. CASE ThreadRegister(t) BY <1>1 DEF ThreadRegister
<1>2. CASE ThreadRefused(t) BY <1>2 DEF ThreadRefused
<1>3. CASE ThreadAttach(t) BY <1>3 DEF ThreadAttach
<1>4. CASE ThreadFails(t) BY <1>4 DEF ThreadFails
<1>5. CASE ThreadMaterialize(t)
  <2>1. CASE ThreadReturns(t, "sql", "ok") BY <1>5, <2>1 DEF ThreadMaterialize
  <2>2. CASE ThreadMoves(t, "sql", "post") /\ UNCHANGED free
    BY <1>5, <2>2 DEF ThreadMaterialize
  <2> QED BY <1>5, <2>1, <2>2 DEF ThreadMaterialize
<1>6. CASE ThreadReadBack(t) BY <1>6 DEF ThreadReadBack
<1>7. CASE ThreadReadBackFails(t) BY <1>7 DEF ThreadReadBackFails, Opened
<1>8. CASE ThreadRewrite(t) BY <1>8 DEF ThreadRewrite
<1>9. CASE ThreadScriptFails(t) BY <1>9 DEF ThreadScriptFails
<1> QED
  BY <1>1, <1>2, <1>3, <1>4, <1>5, <1>6, <1>7, <1>8, <1>9 DEF Thread

LEMMA PermitRequest ==
  ASSUME Known, NEW r \in Jobs,
         Enqueue(r) \/ Cancel(r) \/ Delete(r) \/ Read(r) \/ RequestDropped(r)
  PROVE  PermitMoves
<1> USE DEF PermitMoves, Using, Reading, Known, TypeOK, LaunchInv, Starting,
            Finishing, Guarded, RowExists, Active, Terminal, Live, WorkerMoves,
            ThreadMoves, ThreadReturns, dbVars, workerVars, requestVars,
            boundVars, historyVars
<1>1. CASE Enqueue(r) BY <1>1 DEF Enqueue
<1>2. CASE CancelRead(r) BY <1>2 DEF CancelRead
<1>3. CASE CancelUpdate(r) BY <1>3 DEF CancelUpdate, MayCancel
<1>4. CASE CancelMiss(r) BY <1>4 DEF CancelMiss, MayCancel
<1>5. CASE CancelMark(r) BY <1>5 DEF CancelMark
<1>6. CASE DeleteRead(r) BY <1>6 DEF DeleteRead
<1>7. CASE DeleteFile(r) BY <1>7 DEF DeleteFile
<1>8. CASE DeleteRow(r) BY <1>8 DEF DeleteRow
<1>9. CASE ReadStart(r) BY <1>9 DEF ReadStart
<1>10. CASE ReadPermit(r) BY <1>10 DEF ReadPermit
<1>11. CASE ReadGivesUp(r) BY <1>11 DEF ReadGivesUp
<1>12. CASE ReadPage(r) BY <1>12 DEF ReadPage, Opened
<1>13. CASE RequestDropped(r) BY <1>13 DEF RequestDropped
<1> QED
  BY <1>1, <1>2, <1>3, <1>4, <1>5, <1>6, <1>7, <1>8, <1>9, <1>10, <1>11, <1>12,
     <1>13 DEF Cancel, Delete, Read

LEMMA PermitStorage ==
  ASSUME Known,
         Expiry \/ SourceDelete \/ Crash \/ Recover \/ Sweep
  PROVE  PermitMoves
<1> USE DEF PermitMoves, Using, Reading, Known, TypeOK, LaunchInv, Starting,
            Finishing, Guarded, RowExists, Active, Terminal, Live, WorkerMoves,
            ThreadMoves, ThreadReturns, dbVars, workerVars, requestVars,
            boundVars, historyVars
<1>1. CASE ExpiryFault BY <1>1 DEF ExpiryFault
<1>2. CASE SourceScan BY <1>2 DEF SourceScan
<1>3. CASE SourceFiles BY <1>3 DEF SourceFiles, SourceRemoves
<1>4. CASE SourceCascade BY <1>4 DEF SourceCascade
<1>5. CASE Crash BY <1>5 DEF Crash
<1>6. CASE Recover BY <1>6 DEF Recover, Recovered
<1>7. CASE Sweep BY <1>7 DEF Sweep, SweepKeeps
<1>8. ASSUME NEW S \in SUBSET Jobs, ExpiryBegin(S) PROVE PermitMoves
  BY <1>8 DEF ExpiryBegin
<1>9. ASSUME NEW e \in Jobs, ExpiryFile(e) PROVE PermitMoves
  BY <1>9 DEF ExpiryFile
<1>10. ASSUME NEW e \in Jobs, ExpiryClear(e) PROVE PermitMoves
  BY <1>10 DEF ExpiryClear
<1> QED
  BY <1>1, <1>2, <1>3, <1>4, <1>5, <1>6, <1>7, <1>8, <1>9, <1>10 DEF Expiry,
     SourceDelete

LEMMA PermitStep == Known /\ [Next]_vars => PermitMoves
<1>1. ASSUME Known, UNCHANGED vars PROVE PermitMoves
  BY <1>1 DEF PermitMoves, Using, Reading, vars, requestVars
<1> QED
  BY <1>1, PermitWorker, PermitThread, PermitRequest, PermitStorage DEF Next

LEMMA UsersAreFinite ==
  /\ IsFiniteSet(Using) /\ Cardinality(Using) \in Nat
  /\ IsFiniteSet(Reading) /\ Cardinality(Reading) \in Nat
BY JobsAssumption, FS_Subset, FS_CardinalityType DEF Using, Reading

\* A set that gains or loses one element counts one more or one less.
LEMMA OneMore ==
  ASSUME NEW S, IsFiniteSet(S), NEW x, x \notin S
  PROVE  Cardinality(S \cup {x}) = Cardinality(S) + 1
BY FS_AddElement

LEMMA OneLess ==
  ASSUME NEW S, IsFiniteSet(S), NEW x \in S
  PROVE  Cardinality(S \ {x}) = Cardinality(S) - 1
BY FS_RemoveElement

LEMMA CountStep ==
  ASSUME TypeOK, PermitsConserved, PermitMoves
  PROVE  PermitsConserved'
<1> DEFINE users == Cardinality(Using)  readers == Cardinality(Reading)
<1>1. free \in Nat /\ Permits \in Nat /\ users \in Nat /\ readers \in Nat
  BY UsersAreFinite, PermitsAssumption DEF TypeOK
<1>2. free + users + readers = Permits
  BY DEF PermitsConserved, Using, Reading
<1>3. SUFFICES free' + Cardinality(Using') + Cardinality(Reading') = Permits
  BY DEF PermitsConserved, Using, Reading
<1>4. CASE free' = free /\ Using' = Using /\ Reading' = Reading
  BY <1>2, <1>4
<1>5. ASSUME NEW j \in Jobs \ Using,
             free' = free - 1, Using' = Using \cup {j}, Reading' = Reading
      PROVE  free' + Cardinality(Using') + Cardinality(Reading') = Permits
  <2>1. Cardinality(Using') = users + 1
    BY <1>5, OneMore, UsersAreFinite
  <2> QED BY <2>1, <1>1, <1>2, <1>5
<1>6. ASSUME NEW j \in Using,
             free' = free + 1, Using' = Using \ {j}, Reading' = Reading
      PROVE  free' + Cardinality(Using') + Cardinality(Reading') = Permits
  <2>1. Cardinality(Using') = users - 1
    BY <1>6, OneLess, UsersAreFinite
  <2> QED BY <2>1, <1>1, <1>2, <1>6
<1>7. ASSUME NEW j \in Jobs \ Reading,
             free' = free - 1, Using' = Using, Reading' = Reading \cup {j}
      PROVE  free' + Cardinality(Using') + Cardinality(Reading') = Permits
  <2>1. Cardinality(Reading') = readers + 1
    BY <1>7, OneMore, UsersAreFinite
  <2> QED BY <2>1, <1>1, <1>2, <1>7
<1>8. ASSUME NEW j \in Reading,
             free' = free + 1, Using' = Using, Reading' = Reading \ {j}
      PROVE  free' + Cardinality(Using') + Cardinality(Reading') = Permits
  <2>1. Cardinality(Reading') = readers - 1
    BY <1>8, OneLess, UsersAreFinite
  <2> QED BY <2>1, <1>1, <1>2, <1>8
<1>9. CASE free' = Permits /\ Using' = {} /\ Reading' = {}
  BY <1>9, <1>1, FS_EmptySet
<1> HIDE DEF users, readers
<1> QED
  BY <1>4, <1>5, <1>6, <1>7, <1>8, <1>9 DEF PermitMoves

\* Free permits, query threads that run (awaited or abandoned) and reads of a
\* result always add up to QUERY_MAX_CONCURRENCY: a timeout, a cancel, a failure
\* or a deletion neither frees the permit of what still runs nor loses one.
THEOREM PermitsAreConserved == Spec => []PermitsConserved
<1>1. Init => PermitsConserved
  <2>1. Init => Using = {} /\ Reading = {} /\ free = Permits
    BY DEF Init, Using, Reading, Live
  <2> QED
    BY <2>1, FS_EmptySet, PermitsAssumption DEF PermitsConserved, Using, Reading
<1>2. Known /\ PermitsConserved /\ [Next]_vars => PermitsConserved'
  BY PermitStep, CountStep DEF Known
<1> QED
  BY <1>1, <1>2, KnownInvariant, PTL DEF Spec

-----------------------------------------------------------------------------
(* The queue keeps JobPromise: every step of the worker, a query thread, a  *)
(* request, a clean-up or a restart is one step of the promised life of a   *)
(* job and of its result, or none.                                         *)

Shown == <<status, VisibleResult, retired>>

LEMMA OneJob ==
  ASSUME NEW j \in Jobs,
         Promise!Accept(j) \/ Promise!Start(j) \/ Promise!Succeed(j) \/ Promise!Fail(j)
           \/ Promise!Stop(j) \/ Promise!Delete(j)
  PROVE  Promise!Next
BY DEF Promise!Next

LEMMA SomeJobs ==
  ASSUME NEW S \in SUBSET Jobs, Promise!Doom(S) \/ Promise!Withdraw(S)
  PROVE  Promise!Next
BY DEF Promise!Next

LEMMA AllJobs ==
  ASSUME Promise!Interrupt \/ Promise!DeleteAll
  PROVE  Promise!Next
BY DEF Promise!Next

LEMMA PromiseWorker ==
  ASSUME Known, TrackingInv, Worker
  PROVE  [Promise!Next]_Shown
<1> USE DEF Shown, VisibleResult, Known, TypeOK, KeyOnlyWhenSucceeded, LaunchInv,
            RemovalInv, TrackingInv, Starting, Finishing, Guarded, RowExists,
            Active, Terminal, Live, WorkerMoves, ThreadMoves, ThreadReturns,
            dbVars, workerVars, requestVars, boundVars, historyVars
<1>1. CASE WorkerSelect BY <1>1 DEF WorkerSelect, OldestQueued
<1>2. CASE WorkerClaim
  <2>1. wjob \in Jobs BY <1>2 DEF WorkerClaim
  <2>2. Promise!Start(wjob) BY <1>2 DEF WorkerClaim, Promise!Start, Promise!Goes
  <2> QED BY <2>1, <2>2, OneJob
<1>3. CASE WorkerClaimMiss BY <1>3 DEF WorkerClaimMiss
<1>4. CASE WorkerRegister BY <1>4 DEF WorkerRegister
<1>5. CASE WorkerPrepare BY <1>5 DEF WorkerPrepare
<1>6. CASE WorkerLaunch BY <1>6 DEF WorkerLaunch
<1>7. CASE WorkerNotLaunched BY <1>7 DEF WorkerNotLaunched
<1>8. CASE WorkerJoin BY <1>8 DEF WorkerJoin, AfterJoin
<1>9. CASE WorkerTimeout BY <1>9 DEF WorkerTimeout
<1>10. CASE WorkerPersist BY <1>10 DEF WorkerPersist
<1>11. CASE WorkerLogResult BY <1>11 DEF WorkerLogResult
<1>12. CASE WorkerCommit
  <2>1. /\ wjob \in Jobs /\ status[wjob] = "running" /\ artifact[wjob] = "full"
        /\ status' = [status EXCEPT ![wjob] = "succeeded"]
        /\ hasKey' = [hasKey EXCEPT ![wjob] = TRUE]
        /\ UNCHANGED <<artifact, retired>>
    BY <1>12 DEF WorkerCommit
  <2>2. ASSUME NEW j \in Jobs
        PROVE  VisibleResult'[j] = IF j = wjob THEN "available" ELSE VisibleResult[j]
    BY <2>1
  <2>3. VisibleResult' = [VisibleResult EXCEPT ![wjob] = "available"]
    BY <2>2
  <2>4. PICK j \in Jobs : j = wjob
    BY <2>1
  <2>5. Promise!Succeed(j) BY <2>1, <2>3, <2>4 DEF Promise!Succeed, Promise!Goes
  <2> HIDE DEF VisibleResult
  <2> QED BY <2>5, OneJob
<1>13. CASE WorkerCommitMiss BY <1>13 DEF WorkerCommitMiss
<1>14. CASE WorkerRemoveArtifact BY <1>14 DEF WorkerRemoveArtifact
<1>15. CASE WorkerMarkFailed
  <2>1. CASE status[wjob] = "running"
    <3>1. Promise!Fail(wjob)
      BY <1>15, <2>1 DEF WorkerMarkFailed, FailIfRunning, Promise!Fail, Promise!Goes
    <3>2. wjob \in Jobs BY <1>15 DEF WorkerMarkFailed
    <3> QED BY <3>1, <3>2, OneJob
  <2>2. CASE status[wjob] # "running"
    BY <1>15, <2>2 DEF WorkerMarkFailed, FailIfRunning
  <2> QED BY <2>1, <2>2
<1>16. CASE WorkerFinalLog BY <1>16 DEF WorkerFinalLog
<1>17. CASE WorkerFallback
  <2>1. CASE status[wjob] = "running"
    <3>1. Promise!Fail(wjob)
      BY <1>17, <2>1 DEF WorkerFallback, FailIfRunning, Promise!Fail, Promise!Goes
    <3>2. wjob \in Jobs BY <1>17 DEF WorkerFallback
    <3> QED BY <3>1, <3>2, OneJob
  <2>2. CASE status[wjob] # "running"
    BY <1>17, <2>2 DEF WorkerFallback, FailIfRunning
  <2> QED BY <2>1, <2>2
<1>18. CASE WorkerRelease BY <1>18 DEF WorkerRelease
<1>19. CASE WorkerFault BY <1>19 DEF WorkerFault, AfterFault
<1> QED
  BY <1>1, <1>2, <1>3, <1>4, <1>5, <1>6, <1>7, <1>8, <1>9, <1>10, <1>11, <1>12,
     <1>13, <1>14, <1>15, <1>16, <1>17, <1>18, <1>19 DEF Worker

LEMMA PromiseThread ==
  ASSUME Known, TrackingInv, NEW t \in Jobs, Thread(t)
  PROVE  [Promise!Next]_Shown
<1> USE DEF Shown, VisibleResult, Known, TypeOK, KeyOnlyWhenSucceeded, LaunchInv,
            RemovalInv, TrackingInv, Starting, Finishing, Guarded, RowExists,
            Active, Terminal, Live, WorkerMoves, ThreadMoves, ThreadReturns,
            dbVars, workerVars, requestVars, boundVars, historyVars
<1>1. CASE ThreadRegister(t) BY <1>1 DEF ThreadRegister
<1>2. CASE ThreadRefused(t) BY <1>2 DEF ThreadRefused
<1>3. CASE ThreadAttach(t) BY <1>3 DEF ThreadAttach
<1>4. CASE ThreadFails(t) BY <1>4 DEF ThreadFails
<1>5. CASE ThreadMaterialize(t) BY <1>5 DEF ThreadMaterialize
<1>6. CASE ThreadReadBack(t) BY <1>6 DEF ThreadReadBack
<1>7. CASE ThreadReadBackFails(t) BY <1>7 DEF ThreadReadBackFails, Opened
<1>8. CASE ThreadRewrite(t) BY <1>8 DEF ThreadRewrite
<1>9. CASE ThreadScriptFails(t) BY <1>9 DEF ThreadScriptFails
<1> QED
  BY <1>1, <1>2, <1>3, <1>4, <1>5, <1>6, <1>7, <1>8, <1>9 DEF Thread

LEMMA PromiseRequest ==
  ASSUME Known, TrackingInv, NEW r \in Jobs,
         Enqueue(r) \/ Cancel(r) \/ Delete(r) \/ Read(r) \/ RequestDropped(r)
  PROVE  [Promise!Next]_Shown
<1> USE DEF Shown, VisibleResult, Known, TypeOK, KeyOnlyWhenSucceeded, LaunchInv,
            RemovalInv, TrackingInv, Starting, Finishing, Guarded, RowExists,
            Active, Terminal, Live, WorkerMoves, ThreadMoves, ThreadReturns,
            dbVars, workerVars, requestVars, boundVars, historyVars
<1>1. CASE Enqueue(r)
  <2>1. Promise!Accept(r) BY <1>1 DEF Enqueue, Promise!Accept, Promise!Goes
  <2> QED BY <2>1, OneJob
<1>2. CASE CancelRead(r) BY <1>2 DEF CancelRead
<1>3. CASE CancelUpdate(r)
  <2>1. Promise!Stop(r)
    BY <1>3 DEF CancelUpdate, MayCancel, Promise!Stop, Promise!Goes, Promise!Active
  <2> QED BY <2>1, OneJob
<1>4. CASE CancelMiss(r) BY <1>4 DEF CancelMiss, MayCancel
<1>5. CASE CancelMark(r) BY <1>5 DEF CancelMark
<1>6. CASE DeleteRead(r)
  <2>1. Promise!Doom({r}) BY <1>6 DEF DeleteRead, Promise!Doom, Promise!Terminal
  <2> QED BY <2>1, SomeJobs
<1>7. CASE DeleteFile(r)
  <2>1. Promise!Withdraw({r}) BY <1>7 DEF DeleteFile, Promise!Withdraw
  <2> QED BY <2>1, SomeJobs
<1>8. CASE DeleteRow(r)
  <2>1. /\ dpc[r] # "idle" /\ status' = [status EXCEPT ![r] = "deleted"]
        /\ hasKey' = [hasKey EXCEPT ![r] = FALSE] /\ UNCHANGED <<artifact, retired>>
    BY <1>8 DEF DeleteRow
  <2>2. r \in retired /\ status[r] \in Terminal \cup {"deleted"}
    BY <2>1
  <2>3. VisibleResult' = [VisibleResult EXCEPT ![r] = "none"]
    BY <2>1
  <2>4. Promise!Delete(r)
    BY <2>1, <2>2, <2>3 DEF Promise!Delete, Promise!Goes, Promise!Terminal
  <2> QED BY <2>4, OneJob
<1>9. CASE ReadStart(r) BY <1>9 DEF ReadStart
<1>10. CASE ReadPermit(r) BY <1>10 DEF ReadPermit
<1>11. CASE ReadGivesUp(r) BY <1>11 DEF ReadGivesUp
<1>12. CASE ReadPage(r) BY <1>12 DEF ReadPage, Opened
<1>13. CASE RequestDropped(r) BY <1>13 DEF RequestDropped
<1> QED
  BY <1>1, <1>2, <1>3, <1>4, <1>5, <1>6, <1>7, <1>8, <1>9, <1>10, <1>11, <1>12,
     <1>13 DEF Cancel, Delete, Read

LEMMA PromiseStorage ==
  ASSUME Known, TrackingInv,
         Expiry \/ SourceDelete \/ Crash \/ Recover \/ Sweep
  PROVE  [Promise!Next]_Shown
<1> USE DEF Shown, VisibleResult, Known, TypeOK, KeyOnlyWhenSucceeded, LaunchInv,
            RemovalInv, TrackingInv, Starting, Finishing, Guarded, RowExists,
            Active, Terminal, Live, WorkerMoves, ThreadMoves, ThreadReturns,
            dbVars, workerVars, requestVars, boundVars, historyVars
<1>1. CASE ExpiryFault BY <1>1 DEF ExpiryFault
<1>2. CASE SourceScan
  <2>1. PICK S \in SUBSET Jobs : S = skeys'
    BY <1>2 DEF SourceScan
  <2>2. Promise!Doom(S) BY <1>2, <2>1 DEF SourceScan, Promise!Doom, Promise!Terminal
  <2> QED BY <2>2, SomeJobs
<1>3. CASE SourceFiles
  <2>1. PICK S \in SUBSET Jobs : S = skeys
    OBVIOUS
  <2>2. Promise!Withdraw(S)
    BY <1>3, <2>1 DEF SourceFiles, SourceRemoves, Promise!Withdraw
  <2> QED BY <2>2, SomeJobs
<1>4. CASE SourceCascade
  <2>1. Promise!DeleteAll BY <1>4 DEF SourceCascade, Promise!DeleteAll
  <2> QED BY <2>1, AllJobs
<1>5. CASE Crash BY <1>5 DEF Crash
<1>6. CASE Recover
  <2>1. Promise!Interrupt BY <1>6 DEF Recover, Recovered, Promise!Interrupt
  <2> QED BY <2>1, AllJobs
<1>7. CASE Sweep BY <1>7 DEF Sweep, SweepKeeps
<1>8. ASSUME NEW S \in SUBSET Jobs, ExpiryBegin(S) PROVE [Promise!Next]_Shown
  <2>1. Promise!Doom(S) BY <1>8 DEF ExpiryBegin, Promise!Doom, Promise!Terminal
  <2> QED BY <2>1, SomeJobs
<1>9. ASSUME NEW e \in Jobs, ExpiryFile(e) PROVE [Promise!Next]_Shown
  <2>1. e \in retired BY <1>9 DEF ExpiryFile
  <2>2. Promise!Withdraw({e}) BY <1>9, <2>1 DEF ExpiryFile, Promise!Withdraw
  <2> QED BY <2>2, SomeJobs
<1>10. ASSUME NEW e \in Jobs, ExpiryClear(e) PROVE [Promise!Next]_Shown
  <2>1. e \in retired BY <1>10 DEF ExpiryClear
  <2>2. Promise!Withdraw({e}) BY <1>10, <2>1 DEF ExpiryClear, Promise!Withdraw
  <2> QED BY <2>2, SomeJobs
<1> QED
  BY <1>1, <1>2, <1>3, <1>4, <1>5, <1>6, <1>7, <1>8, <1>9, <1>10 DEF Expiry,
     SourceDelete

LEMMA PromiseStep == Known /\ TrackingInv /\ [Next]_vars => [Promise!Next]_Shown
<1>1. ASSUME UNCHANGED vars PROVE UNCHANGED Shown
  BY <1>1 DEF Shown, VisibleResult, vars, dbVars, historyVars
<1> QED
  BY <1>1, PromiseWorker, PromiseThread, PromiseRequest, PromiseStorage DEF Next

\* The queue implements JobPromise: a job settles once, a result is offered in the
\* step that makes its job succeed, is withdrawn only after its expiry or deletion
\* was decided, and is never offered again.
THEOREM PromiseIsKept == Spec => PromiseKept
<1>1. Init => Promise!Init
  BY DEF Init, Promise!Init, VisibleResult
<1>2. Known /\ TrackingInv /\ [Next]_vars => [Promise!Next]_Shown
  BY PromiseStep
<1> QED
  BY <1>1, <1>2, KnownInvariant, TrackingInvariant, PTL
     DEF Spec, PromiseKept, Promise!Spec, Promise!promiseVars, Shown

=============================================================================
