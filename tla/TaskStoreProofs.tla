-------------------------- MODULE TaskStoreProofs --------------------------
(***************************************************************************)
(* Theorems about TaskStore, for every set of plans, tasks, sessions and   *)
(* workers, every dependency graph and every reservation.                  *)
(*                                                                         *)
(* StoreInv is inductive as a whole: its conjuncts lean on one another     *)
(* (ClaimsNameLiveRows on WorkersHaveSessions when a session is deleted,   *)
(* DependenciesFirst and ClaimsNameLiveRows on TasksHavePlans when a plan  *)
(* is imported).  One lemma shows each conjunct preserved, one step per    *)
(* action of the store.                                                    *)
(*                                                                         *)
(* What OperatorView tells an operator of a stuck plan is proved last, for *)
(* every graph that can be run: the least set behind a failure is compared *)
(* with what can move.                                                     *)
(***************************************************************************)
EXTENDS OperatorView, TLAPS

\* Every store method keeps every column in its domain.
LEMMA TypeStep == TypeOK /\ [StoreNext]_storeVars => TypeOK'
<1> SUFFICES ASSUME TypeOK, [StoreNext]_storeVars
             PROVE  TypeOK'
  OBVIOUS
<1> USE TimeAssumption, NullAssumption, GraphAssumption
        DEF TypeOK, PlanStatuses, TaskStatuses, WorkerStatuses,
            planVars, taskVars, sessionVars, workerVars, storeVars
<1>1. ASSUME NEW p \in Plan, CreatePlanGraph(p)
       PROVE  TypeOK'
  BY <1>1 DEF CreatePlanGraph
<1>2. ASSUME NEW p \in Plan, NEW st \in {"active", "stopped"}, SetPlanStatus(p, st)
       PROVE  TypeOK'
  BY <1>2 DEF SetPlanStatus
<1>3. ASSUME NEW p \in Plan, DeletePlan(p)
       PROVE  TypeOK'
  BY <1>3 DEF DeletePlan
<1>4. ASSUME NEW s \in Session, CreateSession(s)
       PROVE  TypeOK'
  BY <1>4 DEF CreateSession, MaxAge, DeleteAfter
<1>5. ASSUME NEW s \in Session, HeartbeatSession(s)
       PROVE  TypeOK'
  BY <1>5 DEF HeartbeatSession, MaxAge, DeleteAfter
<1>6. ASSUME NEW s \in Session, CloseSession(s)
       PROVE  TypeOK'
  BY <1>6 DEF CloseSession, DeleteRows, WorkerExists, MaxAge, DeleteAfter
<1>7. ASSUME NEW w \in Worker, NEW s \in Session, CreateWorker(w, s)
       PROVE  TypeOK'
  BY <1>7 DEF CreateWorker, WorkerExists, MaxAge, DeleteAfter
<1>8. ASSUME NEW w \in Worker, HeartbeatWorkerAndSession(w)
       PROVE  TypeOK'
  <2>1. 0 \in 0..MaxAge
    BY DEF MaxAge, DeleteAfter
  <2>2. sessionAge' \in [Session -> 0..MaxAge]
    BY <1>8, <2>1 DEF HeartbeatWorkerAndSession
  <2>3. workerAge' \in [Worker -> 0..MaxAge]
    BY <1>8, <2>1 DEF HeartbeatWorkerAndSession
  <2> QED
    BY <1>8, <2>2, <2>3 DEF HeartbeatWorkerAndSession
<1>9. ASSUME NEW w \in Worker, NEW t \in Task, SetWorkerTask(w, t)
       PROVE  TypeOK'
  BY <1>9 DEF SetWorkerTask, WorkerExists, MaxAge, DeleteAfter
<1>10. ASSUME NEW w \in Worker, NEW st \in {"idle", "crashed"}, ClearWorkerTask(w, st)
       PROVE  TypeOK'
  BY <1>10 DEF ClearWorkerTask, WorkerExists, MaxAge, DeleteAfter
<1>11. ASSUME NEW w \in Worker, ReclaimWorker(w)
       PROVE  TypeOK'
  BY <1>11 DEF ReclaimWorker, WorkerExists, MaxAge, DeleteAfter
<1>12. ASSUME NEW t \in Task, ApproveTask(t)
       PROVE  TypeOK'
  BY <1>12 DEF ApproveTask
<1>13. ASSUME NEW t \in Task, NEW block \in GateBlocks, MarkGateBlocked(t, block)
       PROVE  TypeOK'
  BY <1>13 DEF MarkGateBlocked, GateBlocks, Claimable
<1>14. ASSUME NEW t \in Task, NEW block \in GateBlocks, ClearTaskBlock(t, block)
       PROVE  TypeOK'
  BY <1>14 DEF ClearTaskBlock, GateBlocks
<1>15. ASSUME NEW t \in Task, NEW s \in Session, NEW w \in Worker, ClaimTask(t, s, w)
       PROVE  TypeOK'
  BY <1>15 DEF ClaimTask, CanClaim, Claimable, WorkerExists
<1>16. ASSUME NEW t \in Task, NEW s \in Session, MarkDone(t, s)
       PROVE  TypeOK'
  BY <1>16 DEF MarkDone, EndClaim, OwnsRunning
<1>17. ASSUME NEW t \in Task, NEW s \in Session, NEW budget \in {0, MaxRetries}, MarkFailed(t, s, budget)
       PROVE  TypeOK'
  <2>1. CASE retryCount[t] + 1 <= budget
    <3>1. retryCount' \in [Task -> 0..MaxRetries]
      BY <1>17, <2>1 DEF MarkFailed
    <3> QED
      BY <1>17, <2>1, <3>1 DEF MarkFailed, EndClaim, OwnsRunning
  <2>2. CASE ~(retryCount[t] + 1 <= budget)
    BY <1>17, <2>2 DEF MarkFailed, EndClaim, OwnsRunning
  <2> QED
    BY <2>1, <2>2
<1>18. ASSUME NEW t \in Task, NEW s \in Session, ReleaseClaim(t, s)
       PROVE  TypeOK'
  BY <1>18 DEF ReleaseClaim, EndClaim, OwnsRunning
<1>19. ASSUME NEW t \in Task, NEW s \in Session, MarkBlocked(t, s)
       PROVE  TypeOK'
  BY <1>19 DEF MarkBlocked, EndClaim, OwnsRunning
<1>20. ASSUME ReclaimStale
       PROVE  TypeOK'
  BY <1>20 DEF ReclaimStale, DeleteRows, WorkerExists, MaxAge, DeleteAfter
<1>21. ASSUME Tick
       PROVE  TypeOK'
  BY <1>21 DEF Tick, WorkerExists, MaxAge, DeleteAfter, Older
<1>22. ASSUME UNCHANGED storeVars
       PROVE  TypeOK'
  BY <1>22
<1> QED
  BY <1>1, <1>2, <1>3, <1>4, <1>5, <1>6, <1>7, <1>8, <1>9, <1>10, <1>11,
     <1>12, <1>13, <1>14, <1>15, <1>16, <1>17, <1>18, <1>19, <1>20, <1>21, <1>22
     DEF StoreNext, PlanNext, RowNext, TaskNext

\* Task rows are created and deleted with their plan row.
LEMMA PlansStep == TypeOK /\ TasksHavePlans /\ [StoreNext]_storeVars => TasksHavePlans'
<1> SUFFICES ASSUME TypeOK, TasksHavePlans, [StoreNext]_storeVars
             PROVE  TasksHavePlans'
  OBVIOUS
<1> USE TimeAssumption, NullAssumption, GraphAssumption
        DEF TypeOK, PlanStatuses, TaskStatuses, WorkerStatuses,
            planVars, taskVars, sessionVars, workerVars, storeVars
<1>1. ASSUME NEW p \in Plan, CreatePlanGraph(p)
       PROVE  TasksHavePlans'
  BY <1>1 DEF CreatePlanGraph, TasksHavePlans
<1>2. ASSUME NEW p \in Plan, NEW st \in {"active", "stopped"}, SetPlanStatus(p, st)
       PROVE  TasksHavePlans'
  BY <1>2 DEF SetPlanStatus, TasksHavePlans
<1>3. ASSUME NEW p \in Plan, DeletePlan(p)
       PROVE  TasksHavePlans'
  BY <1>3 DEF DeletePlan, TasksHavePlans
<1>4. ASSUME NEW s \in Session, CreateSession(s)
       PROVE  TasksHavePlans'
  BY <1>4 DEF CreateSession, TasksHavePlans
<1>5. ASSUME NEW s \in Session, HeartbeatSession(s)
       PROVE  TasksHavePlans'
  BY <1>5 DEF HeartbeatSession, TasksHavePlans
<1>6. ASSUME NEW s \in Session, CloseSession(s)
       PROVE  TasksHavePlans'
  BY <1>6 DEF CloseSession, DeleteRows, WorkerExists, TasksHavePlans
<1>7. ASSUME NEW w \in Worker, NEW s \in Session, CreateWorker(w, s)
       PROVE  TasksHavePlans'
  BY <1>7 DEF CreateWorker, WorkerExists, TasksHavePlans
<1>8. ASSUME NEW w \in Worker, HeartbeatWorkerAndSession(w)
       PROVE  TasksHavePlans'
  BY <1>8 DEF HeartbeatWorkerAndSession, WorkerExists, TasksHavePlans
<1>9. ASSUME NEW w \in Worker, NEW t \in Task, SetWorkerTask(w, t)
       PROVE  TasksHavePlans'
  BY <1>9 DEF SetWorkerTask, WorkerExists, TasksHavePlans
<1>10. ASSUME NEW w \in Worker, NEW st \in {"idle", "crashed"}, ClearWorkerTask(w, st)
       PROVE  TasksHavePlans'
  BY <1>10 DEF ClearWorkerTask, WorkerExists, TasksHavePlans
<1>11. ASSUME NEW w \in Worker, ReclaimWorker(w)
       PROVE  TasksHavePlans'
  BY <1>11 DEF ReclaimWorker, WorkerExists, TasksHavePlans
<1>12. ASSUME NEW t \in Task, ApproveTask(t)
       PROVE  TasksHavePlans'
  BY <1>12 DEF ApproveTask, TasksHavePlans
<1>13. ASSUME NEW t \in Task, NEW block \in GateBlocks, MarkGateBlocked(t, block)
       PROVE  TasksHavePlans'
  BY <1>13 DEF MarkGateBlocked, GateBlocks, Claimable, TasksHavePlans
<1>14. ASSUME NEW t \in Task, NEW block \in GateBlocks, ClearTaskBlock(t, block)
       PROVE  TasksHavePlans'
  BY <1>14 DEF ClearTaskBlock, GateBlocks, TasksHavePlans
<1>15. ASSUME NEW t \in Task, NEW s \in Session, NEW w \in Worker, ClaimTask(t, s, w)
       PROVE  TasksHavePlans'
  BY <1>15 DEF ClaimTask, CanClaim, Claimable, WorkerExists, TasksHavePlans
<1>16. ASSUME NEW t \in Task, NEW s \in Session, MarkDone(t, s)
       PROVE  TasksHavePlans'
  BY <1>16 DEF MarkDone, EndClaim, OwnsRunning, TasksHavePlans
<1>17. ASSUME NEW t \in Task, NEW s \in Session, NEW budget \in {0, MaxRetries}, MarkFailed(t, s, budget)
       PROVE  TasksHavePlans'
  BY <1>17 DEF MarkFailed, EndClaim, OwnsRunning, TasksHavePlans
<1>18. ASSUME NEW t \in Task, NEW s \in Session, ReleaseClaim(t, s)
       PROVE  TasksHavePlans'
  BY <1>18 DEF ReleaseClaim, EndClaim, OwnsRunning, TasksHavePlans
<1>19. ASSUME NEW t \in Task, NEW s \in Session, MarkBlocked(t, s)
       PROVE  TasksHavePlans'
  BY <1>19 DEF MarkBlocked, EndClaim, OwnsRunning, TasksHavePlans
<1>20. ASSUME ReclaimStale
       PROVE  TasksHavePlans'
  BY <1>20 DEF ReclaimStale, DeleteRows, WorkerExists, StaleClaims, TasksHavePlans
<1>21. ASSUME Tick
       PROVE  TasksHavePlans'
  BY <1>21 DEF Tick, WorkerExists, TasksHavePlans
<1>22. ASSUME UNCHANGED storeVars
       PROVE  TasksHavePlans'
  BY <1>22 DEF TasksHavePlans
<1> QED
  BY <1>1, <1>2, <1>3, <1>4, <1>5, <1>6, <1>7, <1>8, <1>9, <1>10, <1>11,
     <1>12, <1>13, <1>14, <1>15, <1>16, <1>17, <1>18, <1>19, <1>20, <1>21, <1>22
     DEF StoreNext, PlanNext, RowNext, TaskNext

\* Deleting a session deletes its workers in the same transaction.
LEMMA SessionsStep == TypeOK /\ WorkersHaveSessions /\ [StoreNext]_storeVars => WorkersHaveSessions'
<1> SUFFICES ASSUME TypeOK, WorkersHaveSessions, [StoreNext]_storeVars
             PROVE  WorkersHaveSessions'
  OBVIOUS
<1> USE TimeAssumption, NullAssumption, GraphAssumption
        DEF TypeOK, PlanStatuses, TaskStatuses, WorkerStatuses,
            planVars, taskVars, sessionVars, workerVars, storeVars
<1>1. ASSUME NEW p \in Plan, CreatePlanGraph(p)
       PROVE  WorkersHaveSessions'
  BY <1>1 DEF CreatePlanGraph, WorkersHaveSessions, WorkerExists
<1>2. ASSUME NEW p \in Plan, NEW st \in {"active", "stopped"}, SetPlanStatus(p, st)
       PROVE  WorkersHaveSessions'
  BY <1>2 DEF SetPlanStatus, WorkersHaveSessions, WorkerExists
<1>3. ASSUME NEW p \in Plan, DeletePlan(p)
       PROVE  WorkersHaveSessions'
  BY <1>3 DEF DeletePlan, WorkersHaveSessions, WorkerExists
<1>4. ASSUME NEW s \in Session, CreateSession(s)
       PROVE  WorkersHaveSessions'
  BY <1>4 DEF CreateSession, WorkersHaveSessions, WorkerExists
<1>5. ASSUME NEW s \in Session, HeartbeatSession(s)
       PROVE  WorkersHaveSessions'
  BY <1>5 DEF HeartbeatSession, WorkersHaveSessions, WorkerExists
<1>6. ASSUME NEW s \in Session, CloseSession(s)
       PROVE  WorkersHaveSessions'
  BY <1>6 DEF CloseSession, DeleteRows, WorkerExists, WorkersHaveSessions
<1>7. ASSUME NEW w \in Worker, NEW s \in Session, CreateWorker(w, s)
       PROVE  WorkersHaveSessions'
  BY <1>7 DEF CreateWorker, WorkerExists, WorkersHaveSessions
<1>8. ASSUME NEW w \in Worker, HeartbeatWorkerAndSession(w)
       PROVE  WorkersHaveSessions'
  BY <1>8 DEF HeartbeatWorkerAndSession, WorkerExists, WorkersHaveSessions
<1>9. ASSUME NEW w \in Worker, NEW t \in Task, SetWorkerTask(w, t)
       PROVE  WorkersHaveSessions'
  BY <1>9 DEF SetWorkerTask, WorkerExists, WorkersHaveSessions
<1>10. ASSUME NEW w \in Worker, NEW st \in {"idle", "crashed"}, ClearWorkerTask(w, st)
       PROVE  WorkersHaveSessions'
  BY <1>10 DEF ClearWorkerTask, WorkerExists, WorkersHaveSessions
<1>11. ASSUME NEW w \in Worker, ReclaimWorker(w)
       PROVE  WorkersHaveSessions'
  BY <1>11 DEF ReclaimWorker, WorkerExists, WorkersHaveSessions
<1>12. ASSUME NEW t \in Task, ApproveTask(t)
       PROVE  WorkersHaveSessions'
  BY <1>12 DEF ApproveTask, WorkersHaveSessions, WorkerExists
<1>13. ASSUME NEW t \in Task, NEW block \in GateBlocks, MarkGateBlocked(t, block)
       PROVE  WorkersHaveSessions'
  BY <1>13 DEF MarkGateBlocked, GateBlocks, Claimable, WorkersHaveSessions, WorkerExists
<1>14. ASSUME NEW t \in Task, NEW block \in GateBlocks, ClearTaskBlock(t, block)
       PROVE  WorkersHaveSessions'
  BY <1>14 DEF ClearTaskBlock, GateBlocks, WorkersHaveSessions, WorkerExists
<1>15. ASSUME NEW t \in Task, NEW s \in Session, NEW w \in Worker, ClaimTask(t, s, w)
       PROVE  WorkersHaveSessions'
  BY <1>15 DEF ClaimTask, CanClaim, Claimable, WorkerExists, WorkersHaveSessions
<1>16. ASSUME NEW t \in Task, NEW s \in Session, MarkDone(t, s)
       PROVE  WorkersHaveSessions'
  BY <1>16 DEF MarkDone, EndClaim, OwnsRunning, WorkersHaveSessions, WorkerExists
<1>17. ASSUME NEW t \in Task, NEW s \in Session, NEW budget \in {0, MaxRetries}, MarkFailed(t, s, budget)
       PROVE  WorkersHaveSessions'
  BY <1>17 DEF MarkFailed, EndClaim, OwnsRunning, WorkersHaveSessions, WorkerExists
<1>18. ASSUME NEW t \in Task, NEW s \in Session, ReleaseClaim(t, s)
       PROVE  WorkersHaveSessions'
  BY <1>18 DEF ReleaseClaim, EndClaim, OwnsRunning, WorkersHaveSessions, WorkerExists
<1>19. ASSUME NEW t \in Task, NEW s \in Session, MarkBlocked(t, s)
       PROVE  WorkersHaveSessions'
  BY <1>19 DEF MarkBlocked, EndClaim, OwnsRunning, WorkersHaveSessions, WorkerExists
<1>20. ASSUME ReclaimStale
       PROVE  WorkersHaveSessions'
  BY <1>20 DEF ReclaimStale, DeleteRows, WorkerExists, WorkersHaveSessions
<1>21. ASSUME Tick
       PROVE  WorkersHaveSessions'
  BY <1>21 DEF Tick, WorkerExists, WorkersHaveSessions
<1>22. ASSUME UNCHANGED storeVars
       PROVE  WorkersHaveSessions'
  BY <1>22 DEF WorkersHaveSessions, WorkerExists
<1> QED
  BY <1>1, <1>2, <1>3, <1>4, <1>5, <1>6, <1>7, <1>8, <1>9, <1>10, <1>11,
     <1>12, <1>13, <1>14, <1>15, <1>16, <1>17, <1>18, <1>19, <1>20, <1>21, <1>22
     DEF StoreNext, PlanNext, RowNext, TaskNext

\* Every exit from running clears both claim columns, and every deletion of a
\* row clears the claims that name it.
LEMMA ClaimsStep == TypeOK /\ WorkersHaveSessions /\ TasksHavePlans /\ ClaimsNameLiveRows /\ [StoreNext]_storeVars => ClaimsNameLiveRows'
<1> SUFFICES ASSUME TypeOK, WorkersHaveSessions, TasksHavePlans, ClaimsNameLiveRows, [StoreNext]_storeVars
             PROVE  ClaimsNameLiveRows'
  OBVIOUS
<1> USE TimeAssumption, NullAssumption, GraphAssumption
        DEF TypeOK, PlanStatuses, TaskStatuses, WorkerStatuses,
            planVars, taskVars, sessionVars, workerVars, storeVars
<1>1. ASSUME NEW p \in Plan, CreatePlanGraph(p)
       PROVE  ClaimsNameLiveRows'
  BY <1>1 DEF CreatePlanGraph, TasksHavePlans, ClaimsNameLiveRows, WorkerExists
<1>2. ASSUME NEW p \in Plan, NEW st \in {"active", "stopped"}, SetPlanStatus(p, st)
       PROVE  ClaimsNameLiveRows'
  BY <1>2 DEF SetPlanStatus, ClaimsNameLiveRows, WorkerExists
<1>3. ASSUME NEW p \in Plan, DeletePlan(p)
       PROVE  ClaimsNameLiveRows'
  BY <1>3 DEF DeletePlan, ClaimsNameLiveRows, WorkerExists
<1>4. ASSUME NEW s \in Session, CreateSession(s)
       PROVE  ClaimsNameLiveRows'
  BY <1>4 DEF CreateSession, ClaimsNameLiveRows, WorkerExists
<1>5. ASSUME NEW s \in Session, HeartbeatSession(s)
       PROVE  ClaimsNameLiveRows'
  BY <1>5 DEF HeartbeatSession, ClaimsNameLiveRows, WorkerExists
<1>6. ASSUME NEW s \in Session, CloseSession(s)
       PROVE  ClaimsNameLiveRows'
  BY <1>6 DEF CloseSession, DeleteRows, WorkerExists, WorkersHaveSessions, ClaimsNameLiveRows
<1>7. ASSUME NEW w \in Worker, NEW s \in Session, CreateWorker(w, s)
       PROVE  ClaimsNameLiveRows'
  BY <1>7 DEF CreateWorker, WorkerExists, ClaimsNameLiveRows
<1>8. ASSUME NEW w \in Worker, HeartbeatWorkerAndSession(w)
       PROVE  ClaimsNameLiveRows'
  BY <1>8 DEF HeartbeatWorkerAndSession, WorkerExists, ClaimsNameLiveRows
<1>9. ASSUME NEW w \in Worker, NEW t \in Task, SetWorkerTask(w, t)
       PROVE  ClaimsNameLiveRows'
  BY <1>9 DEF SetWorkerTask, WorkerExists, ClaimsNameLiveRows
<1>10. ASSUME NEW w \in Worker, NEW st \in {"idle", "crashed"}, ClearWorkerTask(w, st)
       PROVE  ClaimsNameLiveRows'
  BY <1>10 DEF ClearWorkerTask, WorkerExists, ClaimsNameLiveRows
<1>11. ASSUME NEW w \in Worker, ReclaimWorker(w)
       PROVE  ClaimsNameLiveRows'
  BY <1>11 DEF ReclaimWorker, WorkerExists, ClaimsNameLiveRows
<1>12. ASSUME NEW t \in Task, ApproveTask(t)
       PROVE  ClaimsNameLiveRows'
  BY <1>12 DEF ApproveTask, ClaimsNameLiveRows, WorkerExists
<1>13. ASSUME NEW t \in Task, NEW block \in GateBlocks, MarkGateBlocked(t, block)
       PROVE  ClaimsNameLiveRows'
  BY <1>13 DEF MarkGateBlocked, GateBlocks, Claimable, ClaimsNameLiveRows, WorkerExists
<1>14. ASSUME NEW t \in Task, NEW block \in GateBlocks, ClearTaskBlock(t, block)
       PROVE  ClaimsNameLiveRows'
  BY <1>14 DEF ClearTaskBlock, GateBlocks, ClaimsNameLiveRows, WorkerExists
<1>15. ASSUME NEW t \in Task, NEW s \in Session, NEW w \in Worker, ClaimTask(t, s, w)
       PROVE  ClaimsNameLiveRows'
  BY <1>15 DEF ClaimTask, CanClaim, Claimable, WorkerExists, ClaimsNameLiveRows
<1>16. ASSUME NEW t \in Task, NEW s \in Session, MarkDone(t, s)
       PROVE  ClaimsNameLiveRows'
  BY <1>16 DEF MarkDone, EndClaim, OwnsRunning, ClaimsNameLiveRows, WorkerExists
<1>17. ASSUME NEW t \in Task, NEW s \in Session, NEW budget \in {0, MaxRetries}, MarkFailed(t, s, budget)
       PROVE  ClaimsNameLiveRows'
  BY <1>17 DEF MarkFailed, EndClaim, OwnsRunning, ClaimsNameLiveRows, WorkerExists
<1>18. ASSUME NEW t \in Task, NEW s \in Session, ReleaseClaim(t, s)
       PROVE  ClaimsNameLiveRows'
  BY <1>18 DEF ReleaseClaim, EndClaim, OwnsRunning, ClaimsNameLiveRows, WorkerExists
<1>19. ASSUME NEW t \in Task, NEW s \in Session, MarkBlocked(t, s)
       PROVE  ClaimsNameLiveRows'
  BY <1>19 DEF MarkBlocked, EndClaim, OwnsRunning, ClaimsNameLiveRows, WorkerExists
<1>20. ASSUME ReclaimStale
       PROVE  ClaimsNameLiveRows'
  BY <1>20 DEF ReclaimStale, DeleteRows, WorkerExists, WorkersHaveSessions, ClaimsNameLiveRows
<1>21. ASSUME Tick
       PROVE  ClaimsNameLiveRows'
  BY <1>21 DEF Tick, WorkerExists, ClaimsNameLiveRows
<1>22. ASSUME UNCHANGED storeVars
       PROVE  ClaimsNameLiveRows'
  BY <1>22 DEF ClaimsNameLiveRows, WorkerExists
<1> QED
  BY <1>1, <1>2, <1>3, <1>4, <1>5, <1>6, <1>7, <1>8, <1>9, <1>10, <1>11,
     <1>12, <1>13, <1>14, <1>15, <1>16, <1>17, <1>18, <1>19, <1>20, <1>21, <1>22
     DEF StoreNext, PlanNext, RowNext, TaskNext

\* The conflict between two tasks' outputs does not depend on who asks.
LEMMA SameOutputSymmetric ==
  ASSUME NEW t \in Task, NEW u \in Task, SameOutput(t, u)
  PROVE  SameOutput(u, t)
BY DEF SameOutput

\* Only a claim makes a task running, and the claim looks for a running peer
\* on the same outputs in the transaction that takes it.
LEMMA OutputStep == TypeOK /\ OutputExclusive /\ [StoreNext]_storeVars => OutputExclusive'
<1> SUFFICES ASSUME TypeOK, OutputExclusive, [StoreNext]_storeVars
             PROVE  OutputExclusive'
  OBVIOUS
<1> USE TimeAssumption, NullAssumption, GraphAssumption
        DEF TypeOK, PlanStatuses, TaskStatuses, WorkerStatuses,
            planVars, taskVars, sessionVars, workerVars, storeVars
<1>1. ASSUME NEW p \in Plan, CreatePlanGraph(p)
       PROVE  OutputExclusive'
  BY <1>1 DEF CreatePlanGraph, OutputExclusive
<1>2. ASSUME NEW p \in Plan, NEW st \in {"active", "stopped"}, SetPlanStatus(p, st)
       PROVE  OutputExclusive'
  BY <1>2 DEF SetPlanStatus, OutputExclusive
<1>3. ASSUME NEW p \in Plan, DeletePlan(p)
       PROVE  OutputExclusive'
  BY <1>3 DEF DeletePlan, OutputExclusive
<1>4. ASSUME NEW s \in Session, CreateSession(s)
       PROVE  OutputExclusive'
  BY <1>4 DEF CreateSession, OutputExclusive
<1>5. ASSUME NEW s \in Session, HeartbeatSession(s)
       PROVE  OutputExclusive'
  BY <1>5 DEF HeartbeatSession, OutputExclusive
<1>6. ASSUME NEW s \in Session, CloseSession(s)
       PROVE  OutputExclusive'
  BY <1>6 DEF CloseSession, DeleteRows, WorkerExists, OutputExclusive
<1>7. ASSUME NEW w \in Worker, NEW s \in Session, CreateWorker(w, s)
       PROVE  OutputExclusive'
  BY <1>7 DEF CreateWorker, WorkerExists, OutputExclusive
<1>8. ASSUME NEW w \in Worker, HeartbeatWorkerAndSession(w)
       PROVE  OutputExclusive'
  BY <1>8 DEF HeartbeatWorkerAndSession, WorkerExists, OutputExclusive
<1>9. ASSUME NEW w \in Worker, NEW t \in Task, SetWorkerTask(w, t)
       PROVE  OutputExclusive'
  BY <1>9 DEF SetWorkerTask, WorkerExists, OutputExclusive
<1>10. ASSUME NEW w \in Worker, NEW st \in {"idle", "crashed"}, ClearWorkerTask(w, st)
       PROVE  OutputExclusive'
  BY <1>10 DEF ClearWorkerTask, WorkerExists, OutputExclusive
<1>11. ASSUME NEW w \in Worker, ReclaimWorker(w)
       PROVE  OutputExclusive'
  BY <1>11 DEF ReclaimWorker, WorkerExists, OutputExclusive
<1>12. ASSUME NEW t \in Task, ApproveTask(t)
       PROVE  OutputExclusive'
  BY <1>12 DEF ApproveTask, OutputExclusive
<1>13. ASSUME NEW t \in Task, NEW block \in GateBlocks, MarkGateBlocked(t, block)
       PROVE  OutputExclusive'
  BY <1>13 DEF MarkGateBlocked, GateBlocks, Claimable, OutputExclusive
<1>14. ASSUME NEW t \in Task, NEW block \in GateBlocks, ClearTaskBlock(t, block)
       PROVE  OutputExclusive'
  BY <1>14 DEF ClearTaskBlock, GateBlocks, OutputExclusive
<1>15. ASSUME NEW t \in Task, NEW s \in Session, NEW w \in Worker, ClaimTask(t, s, w)
       PROVE  OutputExclusive'
  <2> SUFFICES ASSUME NEW x \in Task, NEW y \in Task, SameOutput(x, y)
               PROVE  ~(status'[x] = "running" /\ status'[y] = "running")
    BY DEF OutputExclusive
  <2>1. x # y
    BY DEF SameOutput
  <2>2. CASE x = t
    BY <1>15, <2>1, <2>2 DEF ClaimTask, CanClaim, OutputReserved
  <2>3. CASE y = t
    BY <1>15, <2>1, <2>3, SameOutputSymmetric DEF ClaimTask, CanClaim, OutputReserved
  <2>4. CASE x # t /\ y # t
    BY <1>15, <2>4 DEF ClaimTask, CanClaim, OutputExclusive
  <2> QED
    BY <2>2, <2>3, <2>4
<1>16. ASSUME NEW t \in Task, NEW s \in Session, MarkDone(t, s)
       PROVE  OutputExclusive'
  BY <1>16 DEF MarkDone, EndClaim, OwnsRunning, OutputExclusive
<1>17. ASSUME NEW t \in Task, NEW s \in Session, NEW budget \in {0, MaxRetries}, MarkFailed(t, s, budget)
       PROVE  OutputExclusive'
  BY <1>17 DEF MarkFailed, EndClaim, OwnsRunning, OutputExclusive
<1>18. ASSUME NEW t \in Task, NEW s \in Session, ReleaseClaim(t, s)
       PROVE  OutputExclusive'
  BY <1>18 DEF ReleaseClaim, EndClaim, OwnsRunning, OutputExclusive
<1>19. ASSUME NEW t \in Task, NEW s \in Session, MarkBlocked(t, s)
       PROVE  OutputExclusive'
  BY <1>19 DEF MarkBlocked, EndClaim, OwnsRunning, OutputExclusive
<1>20. ASSUME ReclaimStale
       PROVE  OutputExclusive'
  BY <1>20 DEF ReclaimStale, DeleteRows, WorkerExists, OutputExclusive
<1>21. ASSUME Tick
       PROVE  OutputExclusive'
  BY <1>21 DEF Tick, WorkerExists, OutputExclusive
<1>22. ASSUME UNCHANGED storeVars
       PROVE  OutputExclusive'
  BY <1>22 DEF OutputExclusive
<1> QED
  BY <1>1, <1>2, <1>3, <1>4, <1>5, <1>6, <1>7, <1>8, <1>9, <1>10, <1>11,
     <1>12, <1>13, <1>14, <1>15, <1>16, <1>17, <1>18, <1>19, <1>20, <1>21, <1>22
     DEF StoreNext, PlanNext, RowNext, TaskNext

\* A claim checks the dependencies; a satisfied dependency is never undone
\* except by deleting the plan, dependents included.
LEMMA DepsStep == TypeOK /\ TasksHavePlans /\ DependenciesFirst /\ [StoreNext]_storeVars => DependenciesFirst'
<1> SUFFICES ASSUME TypeOK, TasksHavePlans, DependenciesFirst, [StoreNext]_storeVars
             PROVE  DependenciesFirst'
  OBVIOUS
<1> USE TimeAssumption, NullAssumption, GraphAssumption
        DEF TypeOK, PlanStatuses, TaskStatuses, WorkerStatuses,
            planVars, taskVars, sessionVars, workerVars, storeVars
<1>1. ASSUME NEW p \in Plan, CreatePlanGraph(p)
       PROVE  DependenciesFirst'
  BY <1>1 DEF CreatePlanGraph, TasksHavePlans, DependenciesFirst, DepsSatisfied, Satisfied
<1>2. ASSUME NEW p \in Plan, NEW st \in {"active", "stopped"}, SetPlanStatus(p, st)
       PROVE  DependenciesFirst'
  BY <1>2 DEF SetPlanStatus, DependenciesFirst, DepsSatisfied, Satisfied
<1>3. ASSUME NEW p \in Plan, DeletePlan(p)
       PROVE  DependenciesFirst'
  BY <1>3 DEF DeletePlan, DependenciesFirst, DepsSatisfied, Satisfied
<1>4. ASSUME NEW s \in Session, CreateSession(s)
       PROVE  DependenciesFirst'
  BY <1>4 DEF CreateSession, DependenciesFirst, DepsSatisfied, Satisfied
<1>5. ASSUME NEW s \in Session, HeartbeatSession(s)
       PROVE  DependenciesFirst'
  BY <1>5 DEF HeartbeatSession, DependenciesFirst, DepsSatisfied, Satisfied
<1>6. ASSUME NEW s \in Session, CloseSession(s)
       PROVE  DependenciesFirst'
  BY <1>6 DEF CloseSession, DeleteRows, WorkerExists, DependenciesFirst, DepsSatisfied, Satisfied
<1>7. ASSUME NEW w \in Worker, NEW s \in Session, CreateWorker(w, s)
       PROVE  DependenciesFirst'
  BY <1>7 DEF CreateWorker, WorkerExists, DependenciesFirst, DepsSatisfied, Satisfied
<1>8. ASSUME NEW w \in Worker, HeartbeatWorkerAndSession(w)
       PROVE  DependenciesFirst'
  BY <1>8 DEF HeartbeatWorkerAndSession, WorkerExists, DependenciesFirst, DepsSatisfied, Satisfied
<1>9. ASSUME NEW w \in Worker, NEW t \in Task, SetWorkerTask(w, t)
       PROVE  DependenciesFirst'
  BY <1>9 DEF SetWorkerTask, WorkerExists, DependenciesFirst, DepsSatisfied, Satisfied
<1>10. ASSUME NEW w \in Worker, NEW st \in {"idle", "crashed"}, ClearWorkerTask(w, st)
       PROVE  DependenciesFirst'
  BY <1>10 DEF ClearWorkerTask, WorkerExists, DependenciesFirst, DepsSatisfied, Satisfied
<1>11. ASSUME NEW w \in Worker, ReclaimWorker(w)
       PROVE  DependenciesFirst'
  BY <1>11 DEF ReclaimWorker, WorkerExists, DependenciesFirst, DepsSatisfied, Satisfied
<1>12. ASSUME NEW t \in Task, ApproveTask(t)
       PROVE  DependenciesFirst'
  BY <1>12 DEF ApproveTask, DependenciesFirst, DepsSatisfied, Satisfied
<1>13. ASSUME NEW t \in Task, NEW block \in GateBlocks, MarkGateBlocked(t, block)
       PROVE  DependenciesFirst'
  BY <1>13 DEF MarkGateBlocked, GateBlocks, Claimable, DependenciesFirst, DepsSatisfied, Satisfied
<1>14. ASSUME NEW t \in Task, NEW block \in GateBlocks, ClearTaskBlock(t, block)
       PROVE  DependenciesFirst'
  BY <1>14 DEF ClearTaskBlock, GateBlocks, DependenciesFirst, DepsSatisfied, Satisfied
<1>15. ASSUME NEW t \in Task, NEW s \in Session, NEW w \in Worker, ClaimTask(t, s, w)
       PROVE  DependenciesFirst'
  BY <1>15 DEF ClaimTask, CanClaim, Claimable, WorkerExists, DependenciesFirst, DepsSatisfied, Satisfied
<1>16. ASSUME NEW t \in Task, NEW s \in Session, MarkDone(t, s)
       PROVE  DependenciesFirst'
  BY <1>16 DEF MarkDone, EndClaim, OwnsRunning, DependenciesFirst, DepsSatisfied, Satisfied
<1>17. ASSUME NEW t \in Task, NEW s \in Session, NEW budget \in {0, MaxRetries}, MarkFailed(t, s, budget)
       PROVE  DependenciesFirst'
  BY <1>17 DEF MarkFailed, EndClaim, OwnsRunning, DependenciesFirst, DepsSatisfied, Satisfied
<1>18. ASSUME NEW t \in Task, NEW s \in Session, ReleaseClaim(t, s)
       PROVE  DependenciesFirst'
  BY <1>18 DEF ReleaseClaim, EndClaim, OwnsRunning, DependenciesFirst, DepsSatisfied, Satisfied
<1>19. ASSUME NEW t \in Task, NEW s \in Session, MarkBlocked(t, s)
       PROVE  DependenciesFirst'
  BY <1>19 DEF MarkBlocked, EndClaim, OwnsRunning, DependenciesFirst, DepsSatisfied, Satisfied
<1>20. ASSUME ReclaimStale
       PROVE  DependenciesFirst'
  BY <1>20 DEF ReclaimStale, DeleteRows, WorkerExists, StaleClaims, DependenciesFirst, DepsSatisfied, Satisfied
<1>21. ASSUME Tick
       PROVE  DependenciesFirst'
  BY <1>21 DEF Tick, WorkerExists, DependenciesFirst, DepsSatisfied, Satisfied
<1>22. ASSUME UNCHANGED storeVars
       PROVE  DependenciesFirst'
  BY <1>22 DEF DependenciesFirst, DepsSatisfied, Satisfied
<1> QED
  BY <1>1, <1>2, <1>3, <1>4, <1>5, <1>6, <1>7, <1>8, <1>9, <1>10, <1>11,
     <1>12, <1>13, <1>14, <1>15, <1>16, <1>17, <1>18, <1>19, <1>20, <1>21, <1>22
     DEF StoreNext, PlanNext, RowNext, TaskNext

\* Only ApproveTask moves a gated task out of ready_pending_approval.
LEMMA GateStep == TypeOK /\ ClaimsNameLiveRows /\ ApprovalGate /\ [StoreNext]_storeVars => ApprovalGate'
<1> SUFFICES ASSUME TypeOK, ClaimsNameLiveRows, ApprovalGate, [StoreNext]_storeVars
             PROVE  ApprovalGate'
  OBVIOUS
<1> USE TimeAssumption, NullAssumption, GraphAssumption
        DEF TypeOK, PlanStatuses, TaskStatuses, WorkerStatuses,
            planVars, taskVars, sessionVars, workerVars, storeVars
<1>1. ASSUME NEW p \in Plan, CreatePlanGraph(p)
       PROVE  ApprovalGate'
  BY <1>1 DEF CreatePlanGraph, ApprovalGate
<1>2. ASSUME NEW p \in Plan, NEW st \in {"active", "stopped"}, SetPlanStatus(p, st)
       PROVE  ApprovalGate'
  BY <1>2 DEF SetPlanStatus, ApprovalGate
<1>3. ASSUME NEW p \in Plan, DeletePlan(p)
       PROVE  ApprovalGate'
  BY <1>3 DEF DeletePlan, ApprovalGate
<1>4. ASSUME NEW s \in Session, CreateSession(s)
       PROVE  ApprovalGate'
  BY <1>4 DEF CreateSession, ApprovalGate
<1>5. ASSUME NEW s \in Session, HeartbeatSession(s)
       PROVE  ApprovalGate'
  BY <1>5 DEF HeartbeatSession, ApprovalGate
<1>6. ASSUME NEW s \in Session, CloseSession(s)
       PROVE  ApprovalGate'
  BY <1>6 DEF CloseSession, DeleteRows, WorkerExists, ApprovalGate
<1>7. ASSUME NEW w \in Worker, NEW s \in Session, CreateWorker(w, s)
       PROVE  ApprovalGate'
  BY <1>7 DEF CreateWorker, WorkerExists, ApprovalGate
<1>8. ASSUME NEW w \in Worker, HeartbeatWorkerAndSession(w)
       PROVE  ApprovalGate'
  BY <1>8 DEF HeartbeatWorkerAndSession, WorkerExists, ApprovalGate
<1>9. ASSUME NEW w \in Worker, NEW t \in Task, SetWorkerTask(w, t)
       PROVE  ApprovalGate'
  BY <1>9 DEF SetWorkerTask, WorkerExists, ApprovalGate
<1>10. ASSUME NEW w \in Worker, NEW st \in {"idle", "crashed"}, ClearWorkerTask(w, st)
       PROVE  ApprovalGate'
  BY <1>10 DEF ClearWorkerTask, WorkerExists, ApprovalGate
<1>11. ASSUME NEW w \in Worker, ReclaimWorker(w)
       PROVE  ApprovalGate'
  BY <1>11 DEF ReclaimWorker, WorkerExists, ApprovalGate
<1>12. ASSUME NEW t \in Task, ApproveTask(t)
       PROVE  ApprovalGate'
  BY <1>12 DEF ApproveTask, ApprovalGate
<1>13. ASSUME NEW t \in Task, NEW block \in GateBlocks, MarkGateBlocked(t, block)
       PROVE  ApprovalGate'
  BY <1>13 DEF MarkGateBlocked, GateBlocks, Claimable, ApprovalGate
<1>14. ASSUME NEW t \in Task, NEW block \in GateBlocks, ClearTaskBlock(t, block)
       PROVE  ApprovalGate'
  BY <1>14 DEF ClearTaskBlock, GateBlocks, ApprovalGate
<1>15. ASSUME NEW t \in Task, NEW s \in Session, NEW w \in Worker, ClaimTask(t, s, w)
       PROVE  ApprovalGate'
  BY <1>15 DEF ClaimTask, CanClaim, Claimable, WorkerExists, ApprovalGate
<1>16. ASSUME NEW t \in Task, NEW s \in Session, MarkDone(t, s)
       PROVE  ApprovalGate'
  BY <1>16 DEF MarkDone, EndClaim, OwnsRunning, ApprovalGate
<1>17. ASSUME NEW t \in Task, NEW s \in Session, NEW budget \in {0, MaxRetries}, MarkFailed(t, s, budget)
       PROVE  ApprovalGate'
  BY <1>17 DEF MarkFailed, EndClaim, OwnsRunning, ApprovalGate
<1>18. ASSUME NEW t \in Task, NEW s \in Session, ReleaseClaim(t, s)
       PROVE  ApprovalGate'
  BY <1>18 DEF ReleaseClaim, EndClaim, OwnsRunning, ApprovalGate
<1>19. ASSUME NEW t \in Task, NEW s \in Session, MarkBlocked(t, s)
       PROVE  ApprovalGate'
  BY <1>19 DEF MarkBlocked, EndClaim, OwnsRunning, ApprovalGate
<1>20. ASSUME ReclaimStale
       PROVE  ApprovalGate'
  BY <1>20 DEF ReclaimStale, DeleteRows, WorkerExists, StaleClaims, ApprovalGate
<1>21. ASSUME Tick
       PROVE  ApprovalGate'
  BY <1>21 DEF Tick, WorkerExists, ApprovalGate
<1>22. ASSUME UNCHANGED storeVars
       PROVE  ApprovalGate'
  BY <1>22 DEF ApprovalGate
<1> QED
  BY <1>1, <1>2, <1>3, <1>4, <1>5, <1>6, <1>7, <1>8, <1>9, <1>10, <1>11,
     <1>12, <1>13, <1>14, <1>15, <1>16, <1>17, <1>18, <1>19, <1>20, <1>21, <1>22
     DEF StoreNext, PlanNext, RowNext, TaskNext

\* The inductive invariant: it holds of the empty store, and every call keeps it.
LEMMA StoreInitial == StoreInit => StoreInv
BY TimeAssumption, NullAssumption, GraphAssumption
   DEF StoreInit, StoreInv, TypeOK, ClaimsNameLiveRows, WorkersHaveSessions,
       TasksHavePlans, OutputExclusive, DependenciesFirst, ApprovalGate,
       PlanStatuses, TaskStatuses, WorkerStatuses, WorkerExists, MaxAge, DeleteAfter

LEMMA StoreInductive == StoreInv /\ [StoreNext]_storeVars => StoreInv'
BY TypeStep, PlansStep, SessionsStep, ClaimsStep, OutputStep, DepsStep, GateStep
   DEF StoreInv

\* So it holds in every reachable state.
THEOREM StoreInvariant == StoreSpec => []StoreInv
BY StoreInitial, StoreInductive, PTL DEF StoreSpec

\* Type correctness, with the retry budget: retry_count never exceeds
\* MaxRetries, whatever reports arrive.
THEOREM TypeCorrect == StoreSpec => []TypeOK
<1>1. StoreInv => TypeOK
  BY DEF StoreInv
<1> QED
  BY <1>1, StoreInvariant, PTL

\* The claim columns of a task always name existing rows that belong together,
\* and only a running task has any.
THEOREM ClaimsAreSound == StoreSpec => []ClaimsNameLiveRows
<1>1. StoreInv => ClaimsNameLiveRows
  BY DEF StoreInv
<1> QED
  BY <1>1, StoreInvariant, PTL

\* A worker row never outlives the session row it references: the foreign key
\* a reaper, a kill and a session close each reach by a path of their own.
THEOREM SessionsOutliveWorkers == StoreSpec => []WorkersHaveSessions
<1>1. StoreInv => WorkersHaveSessions
  BY DEF StoreInv
<1> QED
  BY <1>1, StoreInvariant, PTL

\* Two tasks of one project that declare the same output never run together.
THEOREM OutputsAreExclusive == StoreSpec => []OutputExclusive
<1>1. StoreInv => OutputExclusive
  BY DEF StoreInv
<1> QED
  BY <1>1, StoreInvariant, PTL

\* A task runs only after its dependencies.
THEOREM DependenciesComeFirst == StoreSpec => []DependenciesFirst
<1>1. StoreInv => DependenciesFirst
  BY DEF StoreInv
<1> QED
  BY <1>1, StoreInvariant, PTL

\* A gated task moves only after an operator's approval.
THEOREM ApprovalIsRequired == StoreSpec => []ApprovalGate
<1>1. StoreInv => ApprovalGate
  BY DEF StoreInv
<1> QED
  BY <1>1, StoreInvariant, PTL

\* What one reaper pass does to a claim held by a worker with a fresh heartbeat:
\* nothing.  The worker is neither stale nor dead, and its session is spared, so
\* neither the requeue nor a cascade reaches the claim or the rows it names.
LEMMA FreshClaim ==
  ASSUME StoreInv, ReclaimStale, NEW t \in Task, NEW w \in Worker,
         status[t] = "running", claimWorker[t] = w, workerAge[w] <= StaleAfter
  PROVE  /\ status'[t] = "running"
         /\ claimWorker'[t] = w
         /\ claimSession'[t] = claimSession[t]
         /\ workerRow'[w] = workerRow[w] /\ workerAge'[w] = workerAge[w]
         /\ sessionRow'[claimSession[t]] = "open"
<1>1. /\ WorkerExists(w) /\ workerSession[w] = claimSession[t]
      /\ workerAge[w] \in Nat /\ w # NoWorker
      /\ claimSession[t] \in Session /\ sessionRow[claimSession[t]] = "open"
  BY TimeAssumption, NullAssumption
     DEF StoreInv, ClaimsNameLiveRows, WorkersHaveSessions, TypeOK, MaxAge, DeleteAfter
<1>2. t \notin StaleClaims
  BY <1>1, TimeAssumption DEF StaleClaims
<1>3. w \notin DeadWorkers
  BY <1>1, TimeAssumption DEF DeadWorkers, DeleteAfter
<1>4. workerSession[w] \notin DeadSessions
  BY <1>1 DEF DeadSessions
<1> QED
  BY <1>1, <1>2, <1>3, <1>4 DEF ReclaimStale, DeleteRows, StoreInv, TypeOK

\* A reaper pass never takes a task from a worker with a fresh heartbeat.
THEOREM ReaperIsSafe == StoreSpec => ReaperSparesFreshClaims
<1>1. StoreInv /\ ReclaimStale =>
        \A t \in Task, w \in Worker :
          (status[t] = "running" /\ claimWorker[t] = w /\ workerAge[w] <= StaleAfter)
            => /\ status'[t] = "running"
               /\ claimWorker'[t] = w
               /\ claimSession'[t] = claimSession[t]
  BY FreshClaim
<1> QED
  BY <1>1, StoreInvariant, PTL DEF ReaperSparesFreshClaims

\* After a reaper pass every running task is held by a worker row with a fresh
\* heartbeat: the two branches of its WHERE clause miss no abandoned claim.
THEOREM ReaperIsComplete == StoreSpec => ReaperLeavesNoOrphan
<1>1. StoreInv /\ ReclaimStale =>
        \A t \in Task : status'[t] = "running" =>
          /\ claimWorker'[t] # NoWorker
          /\ workerRow'[claimWorker'[t]] \in WorkerStatuses
          /\ workerAge'[claimWorker'[t]] <= StaleAfter
          /\ sessionRow'[claimSession'[t]] = "open"
  <2> SUFFICES ASSUME StoreInv, ReclaimStale, NEW t \in Task, status'[t] = "running"
               PROVE  /\ claimWorker'[t] # NoWorker
                      /\ workerRow'[claimWorker'[t]] \in WorkerStatuses
                      /\ workerAge'[claimWorker'[t]] <= StaleAfter
                      /\ sessionRow'[claimSession'[t]] = "open"
    OBVIOUS
  <2>1. status[t] = "running" /\ t \notin StaleClaims
    BY DEF ReclaimStale
  <2>2. claimWorker[t] \in Worker /\ WorkerExists(claimWorker[t])
    BY <2>1 DEF StaleClaims, StoreInv, TypeOK, ClaimsNameLiveRows
  <2>3. workerAge[claimWorker[t]] <= StaleAfter
    BY <2>1, <2>2, TimeAssumption DEF StaleClaims, StoreInv, TypeOK, MaxAge, DeleteAfter
  <2> QED
    BY <2>1, <2>2, <2>3, FreshClaim, NullAssumption DEF WorkerExists
<1> QED
  BY <1>1, StoreInvariant, PTL DEF ReaperLeavesNoOrphan

\* A verdict is final: done and failed are left only by deleting the plan.
THEOREM VerdictsAreFinal == StoreSpec => VerdictIsFinal
<1>1. StoreInv /\ [StoreNext]_storeVars =>
        \A t \in Task : status[t] \in {"done", "failed"} =>
          /\ status'[t] = status[t] \/ planStatus'[PlanOf[t]] = "deleted"
          /\ retryCount'[t] = retryCount[t]
  <2> SUFFICES ASSUME StoreInv, [StoreNext]_storeVars, NEW u \in Task,
                      status[u] \in {"done", "failed"}
               PROVE  /\ status'[u] = status[u] \/ planStatus'[PlanOf[u]] = "deleted"
                      /\ retryCount'[u] = retryCount[u]
    OBVIOUS
  <2> USE GraphAssumption
          DEF StoreInv, TypeOK, planVars, taskVars, sessionVars, workerVars, storeVars
  <2>1. CASE PlanNext
    BY <2>1 DEF PlanNext, CreatePlanGraph, SetPlanStatus, DeletePlan, TasksHavePlans
  <2>2. CASE RowNext
    <3>1. ASSUME NEW w \in Worker, ReclaimWorker(w)
          PROVE  status'[u] = status[u] /\ retryCount' = retryCount
      BY <3>1 DEF ReclaimWorker
    <3>2. ASSUME NEW w \in Worker, NEW t \in Task, SetWorkerTask(w, t)
          PROVE  UNCHANGED <<status, retryCount>>
      BY <3>2 DEF SetWorkerTask
    <3>3. ASSUME NEW w \in Worker, NEW s \in Session, CreateWorker(w, s)
          PROVE  UNCHANGED <<status, retryCount>>
      BY <3>3 DEF CreateWorker
    <3>4. ASSUME NEW w \in Worker, NEW st \in {"idle", "crashed"},
                 HeartbeatWorkerAndSession(w) \/ ClearWorkerTask(w, st)
          PROVE  UNCHANGED <<status, retryCount>>
      BY <3>4 DEF HeartbeatWorkerAndSession, ClearWorkerTask
    <3>5. ASSUME NEW s \in Session,
                 CreateSession(s) \/ HeartbeatSession(s) \/ CloseSession(s)
          PROVE  UNCHANGED <<status, retryCount>>
      BY <3>5 DEF CreateSession, HeartbeatSession, CloseSession
    <3> QED
      BY <2>2, <3>1, <3>2, <3>3, <3>4, <3>5 DEF RowNext
  <2>3. CASE TaskNext
    BY <2>3 DEF TaskNext, ApproveTask, MarkGateBlocked, ClearTaskBlock, ClaimTask, CanClaim,
                MarkDone, MarkFailed, ReleaseClaim, MarkBlocked, EndClaim, OwnsRunning,
                Claimable, GateBlocks
  <2>4. CASE ReclaimStale
    BY <2>4 DEF ReclaimStale, StaleClaims
  <2>5. CASE Tick
    BY <2>5 DEF Tick
  <2>6. CASE UNCHANGED storeVars
    BY <2>6
  <2> QED
    BY <2>1, <2>2, <2>3, <2>4, <2>5, <2>6 DEF StoreNext
<1> QED
  BY <1>1, StoreInvariant, PTL DEF StoreSpec, VerdictIsFinal
-----------------------------------------------------------------------------
(* OperatorView *)

\* A stored plan has all of its rows, and nothing but a report makes a task satisfied.
RowsAreWhole ==
  \A t \in Task :
    /\ planStatus[PlanOf[t]] \notin {"absent", "deleted"} => status[t] # "absent"
    /\ status[t] \notin {"skipped", "decomposed"}

\* What a step does to one task of a plan that is not deleted by it: a verdict stays,
\* and a task that waits for another goes on waiting for it.
LEMMA StepOfATask ==
  ASSUME StoreInv, RowsAreWhole, [StoreNext]_storeVars, NEW u \in Task
  PROVE  \/ planStatus'[PlanOf[u]] = "deleted" /\ status'[u] = "absent"
         \/ /\ planStatus'[PlanOf[u]] = "absent" /\ planStatus[PlanOf[u]] = "absent"
            /\ status'[u] = "absent"
         \/ /\ planStatus[PlanOf[u]] \in {"active", "stopped"} /\ status'[u] = status[u]
         \/ /\ status[u] \notin Satisfied \cup {"failed"}
            /\ status'[u] \notin {"absent", "skipped", "decomposed"}
            /\ \/ CanMove(u) \/ status[u] = "absent"
               \/ status'[u] \notin Satisfied \cup {"failed"}
<1> DEFINE Goal ==
         \/ planStatus'[PlanOf[u]] = "deleted" /\ status'[u] = "absent"
         \/ /\ planStatus'[PlanOf[u]] = "absent" /\ planStatus[PlanOf[u]] = "absent"
            /\ status'[u] = "absent"
         \/ /\ planStatus[PlanOf[u]] \in {"active", "stopped"} /\ status'[u] = status[u]
         \/ /\ status[u] \notin Satisfied \cup {"failed"}
            /\ status'[u] \notin {"absent", "skipped", "decomposed"}
            /\ \/ CanMove(u) \/ status[u] = "absent"
               \/ status'[u] \notin Satisfied \cup {"failed"}
<1> SUFFICES Goal
  OBVIOUS
<1>0. /\ planStatus \in [Plan -> PlanStatuses] /\ PlanOf \in [Task -> Plan]
      /\ status \in [Task -> TaskStatuses \cup {"absent"}]
  BY GraphAssumption DEF StoreInv, TypeOK
<1>1. /\ planStatus[PlanOf[u]] \in {"absent", "deleted"} => status[u] = "absent"
      /\ planStatus[PlanOf[u]] \in {"active", "stopped"} => status[u] # "absent"
      /\ status[u] \notin {"skipped", "decomposed"}
      /\ planStatus[PlanOf[u]] \in {"absent", "deleted", "active", "stopped"}
  BY <1>0 DEF StoreInv, TasksHavePlans, RowsAreWhole, PlanStatuses
<1>2. status[u] \in {"running", "blocked"} => CanMove(u)
  BY DEF StoreInv, DependenciesFirst, CanMove, DepsSatisfied, Satisfied
<1>3. ASSUME UNCHANGED <<planStatus, status>>
      PROVE  Goal
  BY <1>1, <1>3
<1>4. CASE PlanNext
  <2>1. ASSUME NEW p \in Plan, CreatePlanGraph(p)
        PROVE  Goal
    BY <1>0, <1>1, <2>1 DEF CreatePlanGraph, Satisfied
  <2>2. ASSUME NEW p \in Plan, NEW st \in {"active", "stopped"}, SetPlanStatus(p, st)
        PROVE  Goal
    BY <1>0, <1>1, <2>2 DEF SetPlanStatus, taskVars
  <2>3. ASSUME NEW p \in Plan, DeletePlan(p)
        PROVE  Goal
    BY <1>0, <1>1, <2>3 DEF DeletePlan
  <2> HIDE DEF Goal
  <2> QED
    BY <1>4, <2>1, <2>2, <2>3 DEF PlanNext
<1>5. ASSUME planStatus' = planStatus, status[u] = "running" \/ status'[u] = status[u],
             status'[u] \notin {"absent", "skipped", "decomposed"} \/ status'[u] = status[u]
      PROVE  Goal
  BY <1>0, <1>1, <1>2, <1>5 DEF Satisfied
<1>6. CASE RowNext
  <2>1. ASSUME NEW w \in Worker, ReclaimWorker(w)
        PROVE  Goal
    <3>1. planStatus' = planStatus /\ status' = [t \in Task |->
             IF t \in {x \in Task : status[x] = "running" /\ claimWorker[x] = w}
             THEN "pending" ELSE status[t]]
      BY <2>1 DEF ReclaimWorker, planVars
    <3> HIDE DEF Goal
    <3> QED
      BY <1>5, <3>1
  <2>2. ASSUME NEW w \in Worker, NEW t \in Task, SetWorkerTask(w, t)
        PROVE  UNCHANGED <<planStatus, status>>
    BY <2>2 DEF SetWorkerTask, planVars, taskVars
  <2>3. ASSUME NEW w \in Worker, NEW s \in Session, CreateWorker(w, s)
        PROVE  UNCHANGED <<planStatus, status>>
    BY <2>3 DEF CreateWorker, planVars, taskVars
  <2>4. ASSUME NEW w \in Worker, NEW st \in {"idle", "crashed"},
               HeartbeatWorkerAndSession(w) \/ ClearWorkerTask(w, st)
        PROVE  UNCHANGED <<planStatus, status>>
    BY <2>4 DEF HeartbeatWorkerAndSession, ClearWorkerTask, planVars, taskVars
  <2>5. ASSUME NEW s \in Session,
               CreateSession(s) \/ HeartbeatSession(s) \/ CloseSession(s)
        PROVE  UNCHANGED <<planStatus, status>>
    BY <2>5 DEF CreateSession, HeartbeatSession, CloseSession, planVars, taskVars
  <2> HIDE DEF Goal
  <2> QED
    BY <1>3, <1>6, <2>1, <2>2, <2>3, <2>4, <2>5 DEF RowNext
<1>7. CASE TaskNext
  <2>1. ASSUME NEW t \in Task,
               \/ ApproveTask(t)
               \/ \E block \in GateBlocks : MarkGateBlocked(t, block) \/ ClearTaskBlock(t, block)
        PROVE  Goal
    <3>1. planStatus' = planStatus
      BY <2>1 DEF ApproveTask, MarkGateBlocked, ClearTaskBlock, planVars
    <3>2. PICK x \in Claimable \cup GateBlocks : status' = [status EXCEPT ![t] = x]
      BY <2>1 DEF ApproveTask, MarkGateBlocked, ClearTaskBlock, GateBlocks, Claimable
    <3>3. status[t] \in Claimable \cup GateBlocks \cup {"ready_pending_approval"}
      BY <2>1 DEF ApproveTask, MarkGateBlocked, ClearTaskBlock, GateBlocks, Claimable
    <3> QED
      BY <1>0, <1>1, <3>1, <3>2, <3>3 DEF GateBlocks, Claimable, Satisfied
  <2>2. ASSUME NEW t \in Task, NEW s \in Session, NEW w \in Worker, ClaimTask(t, s, w)
        PROVE  Goal
    <3>1. planStatus' = planStatus /\ status' = [status EXCEPT ![t] = "running"]
      BY <2>2 DEF ClaimTask, planVars
    <3>2. status[t] \in Claimable /\ CanMove(t)
      BY <2>2 DEF ClaimTask, CanClaim, CanMove, Claimable, Satisfied
    <3> QED
      BY <1>0, <1>1, <3>1, <3>2 DEF Claimable, Satisfied
  <2>3. ASSUME NEW t \in Task, NEW s \in Session, NEW budget \in {0, MaxRetries},
               \/ MarkDone(t, s) \/ MarkFailed(t, s, budget)
               \/ ReleaseClaim(t, s) \/ MarkBlocked(t, s)
        PROVE  Goal
    <3>1. PICK x \in {"done", "pending", "failed", "blocked"} : EndClaim(t, s, x)
      BY <2>3 DEF MarkDone, MarkFailed, ReleaseClaim, MarkBlocked
    <3>2. /\ planStatus' = planStatus /\ status[t] = "running"
          /\ status' = [status EXCEPT ![t] = x]
      BY <3>1 DEF EndClaim, OwnsRunning, planVars
    <3>3. t # u => status'[u] = status[u]
      BY <1>0, <3>2
    <3>4. t = u => status'[u] = x
      BY <1>0, <3>2
    <3> HIDE DEF Goal
    <3> QED
      BY <1>5, <3>2, <3>3, <3>4
  <2> HIDE DEF Goal
  <2> QED
    BY <1>7, <2>1, <2>2, <2>3 DEF TaskNext
<1>8. CASE ReclaimStale
  <2>1. planStatus' = planStatus /\ status' = [t \in Task |->
           IF t \in StaleClaims THEN "pending" ELSE status[t]]
    BY <1>8 DEF ReclaimStale, planVars
  <2>2. u \in StaleClaims => status[u] = "running"
    BY DEF StaleClaims
  <2> HIDE DEF Goal
  <2> QED
    BY <1>5, <2>1, <2>2
<1>9. CASE Tick
  <2>1. UNCHANGED <<planStatus, status>>
    BY <1>9 DEF Tick, planVars, taskVars
  <2> HIDE DEF Goal
  <2> QED
    BY <1>3, <2>1
<1>10. CASE UNCHANGED storeVars
  <2>1. UNCHANGED <<planStatus, status>>
    BY <1>10 DEF storeVars, planVars, taskVars
  <2> HIDE DEF Goal
  <2> QED
    BY <1>3, <2>1
<1> HIDE DEF Goal
<1> QED
  BY <1>4, <1>6, <1>7, <1>8, <1>9, <1>10 DEF StoreNext

LEMMA RowsStep ==
  ASSUME StoreInv, RowsAreWhole, [StoreNext]_storeVars
  PROVE  RowsAreWhole'
<1> SUFFICES ASSUME NEW u \in Task
             PROVE  /\ planStatus'[PlanOf[u]] \notin {"absent", "deleted"} => status'[u] # "absent"
                    /\ status'[u] \notin {"skipped", "decomposed"}
  BY DEF RowsAreWhole
<1>1. /\ planStatus[PlanOf[u]] \in {"active", "stopped"} => status[u] # "absent"
      /\ status[u] \notin {"skipped", "decomposed"}
  BY DEF RowsAreWhole
<1> QED
  BY <1>1, StepOfATask

\* The tasks behind a failure: the set is closed, and each of its members is behind the
\* failure itself or behind another of them.
LEMMA DownstreamIsLeast ==
  ASSUME NEW f \in Task
  PROVE  /\ Downstream[f] \subseteq Task /\ ClosedFrom(f, Downstream[f])
         /\ \A C \in SUBSET Task : ClosedFrom(f, C) => Downstream[f] \subseteq C
         /\ \A t \in Downstream[f] : DependsOn[t] \cap (Downstream[f] \cup {f}) # {}
<1> DEFINE D == Downstream[f]
<1>1. D = {t \in Task : \A C \in SUBSET Task : ClosedFrom(f, C) => t \in C}
  BY DEF Downstream
<1> HIDE DEF D
<1>2. \A C \in SUBSET Task : ClosedFrom(f, C) => D \subseteq C
  BY <1>1
<1>3. ASSUME NEW t \in Task, DependsOn[t] \cap (D \cup {f}) # {}
      PROVE  t \in D
  <2>1. ASSUME NEW C \in SUBSET Task, ClosedFrom(f, C)
        PROVE  t \in C
    <3>1. DependsOn[t] \cap (C \cup {f}) # {}
      BY <1>2, <1>3, <2>1
    <3> QED
      BY <2>1, <3>1 DEF ClosedFrom
  <2> QED
    BY <1>1, <2>1
<1>4. ClosedFrom(f, D)
  BY <1>3 DEF ClosedFrom
<1>5. ASSUME NEW t \in D
      PROVE  DependsOn[t] \cap (D \cup {f}) # {}
  <2> DEFINE C == {u \in D : DependsOn[u] \cap (D \cup {f}) # {}}
  <2>1. C \in SUBSET Task
    BY <1>1
  <2>2. ASSUME NEW u \in Task, DependsOn[u] \cap (C \cup {f}) # {}
        PROVE  u \in C
    <3>1. DependsOn[u] \cap (D \cup {f}) # {}
      BY <2>2
    <3> QED
      BY <1>3, <3>1
  <2>3. ClosedFrom(f, C)
    BY <2>2 DEF ClosedFrom
  <2>4. D \subseteq C
    <3> HIDE DEF C
    <3> QED
      BY <1>2, <2>1, <2>3
  <2> QED
    BY <2>4
<1> QED
  BY <1>1, <1>2, <1>4, <1>5 DEF D

\* What is behind a failure is of its plan, is not satisfied and cannot move, and has
\* not failed itself.
LEMMA BehindAFailure ==
  ASSUME StoreInv, RowsAreWhole, NEW f \in Failed, NEW t \in Downstream[f]
  PROVE  /\ t \in Task /\ PlanOf[t] = PlanOf[f] /\ ~DepsSatisfied(t)
         /\ status[t] \notin Satisfied \cup {"failed"} /\ ~CanMove(t)
<1> DEFINE C == {u \in Task : PlanOf[u] = PlanOf[f] /\ ~DepsSatisfied(u)}
<1>1. f \in Task /\ status[f] = "failed" /\ DependsOn \in [Task -> SUBSET Task]
      /\ \A u \in Task : \A d \in DependsOn[u] : PlanOf[d] = PlanOf[u]
  BY GraphAssumption DEF Failed
<1>2. ASSUME NEW u \in Task, ~DepsSatisfied(u)
      PROVE  status[u] \notin Satisfied \cup {"failed"}
  BY <1>2 DEF StoreInv, DependenciesFirst, DepsSatisfied, RowsAreWhole, Satisfied
<1>3. ASSUME NEW u \in Task, DependsOn[u] \cap (C \cup {f}) # {}
      PROVE  u \in C
  <2>1. PICK d \in DependsOn[u] : d \in C \/ d = f
    BY <1>3
  <2>2. PlanOf[u] = PlanOf[f] /\ d \in Task
    BY <1>1, <2>1
  <2>3. status[d] \notin Satisfied
    BY <1>1, <1>2, <2>1 DEF Satisfied
  <2> QED
    BY <2>2, <2>3 DEF DepsSatisfied
<1>4. ClosedFrom(f, C)
  BY <1>3 DEF ClosedFrom
<1>5. t \in C
  <2>1. C \in SUBSET Task
    OBVIOUS
  <2> HIDE DEF C
  <2> QED
    BY <1>1, <1>4, <2>1, DownstreamIsLeast
<1> QED
  BY <1>2, <1>5 DEF CanMove

\* The failure named for a task is not itself behind one.
LEMMA CausesAreFailures ==
  ASSUME StoreInv, RowsAreWhole
  PROVE  \A t \in Task : \A f \in BlockedBy(t) : BlockedBy(f) = {}
<1> SUFFICES ASSUME NEW t \in Task, NEW f \in BlockedBy(t), NEW g \in BlockedBy(f)
             PROVE  FALSE
  OBVIOUS
<1>1. f \in Failed /\ g \in Failed /\ f \in Downstream[g]
  BY DEF BlockedBy
<1>2. status[f] \notin Satisfied \cup {"failed"}
  BY <1>1, BehindAFailure
<1> QED
  BY <1>1, <1>2 DEF Failed

\* A plan shows no runnable work exactly when it has failed and nothing of it can move.
LEMMA NoRunnableWorkIsExact ==
  ASSUME StoreInv, RowsAreWhole, NEW p \in Plan
  PROVE  NoRunnableWork(p) <=> /\ \E t \in TasksOf(p) : status[t] = "failed"
                               /\ \A t \in TasksOf(p) : ~CanMove(t)
<1>0. /\ DependsOn \in [Task -> SUBSET Task]
      /\ \A t \in Task : \A d \in DependsOn[t] : PlanOf[d] = PlanOf[t]
  BY GraphAssumption
<1>1. ASSUME NoRunnableWork(p)
      PROVE  \E t \in TasksOf(p) : status[t] = "failed"
  <2>1. PICK t \in TasksOf(p) : t \in Failed \cup BlockedTasks
    BY <1>1 DEF NoRunnableWork, TaskTotal
  <2>2. CASE t \in Failed
    BY <2>2 DEF Failed
  <2>3. CASE t \in BlockedTasks
    <3>1. PICK f \in Failed : t \in Downstream[f]
      BY <2>3 DEF BlockedTasks
    <3>2. PlanOf[t] = PlanOf[f]
      BY <3>1, BehindAFailure
    <3> QED
      BY <3>2 DEF Failed, TasksOf
  <2> QED
    BY <2>1, <2>2, <2>3
<1>2. ASSUME NoRunnableWork(p), NEW t \in TasksOf(p), CanMove(t)
      PROVE  FALSE
  <2>1. t \in Task /\ status[t] \notin Satisfied \cup {"failed", "absent"}
    BY <1>2 DEF CanMove, TasksOf
  <2>2. t \in BlockedTasks
    BY <1>2, <2>1 DEF NoRunnableWork, TaskTotal, TaskDone, Failed
  <2>3. PICK f \in Failed : t \in Downstream[f]
    BY <2>2 DEF BlockedTasks
  <2> QED
    BY <1>2, <2>3, BehindAFailure
<1>3. ASSUME NEW x \in TasksOf(p), status[x] = "failed",
             \A t \in TasksOf(p) : ~CanMove(t)
      PROVE  NoRunnableWork(p)
  <2>1. x \in TaskTotal(p) \cap Failed
    BY <1>3 DEF TaskTotal, Failed, TasksOf
  <2> DEFINE L == {t \in TaskTotal(p) : t \notin TaskDone(p) \cup Failed \cup BlockedTasks}
  <2>2. L = {}
    <3> SUFFICES ASSUME L # {}
                 PROVE  FALSE
      OBVIOUS
    <3>1. L \subseteq Task
      BY DEF TaskTotal, TasksOf
    <3>2. L \in (SUBSET Task) \ {{}}
      BY <3>1, Zenon
    <3>3. PICK t \in L : DependsOn[t] \cap L = {}
      <4> HIDE DEF L
      <4> QED
        BY <3>2, OrderAssumption, Zenon
    <3>4. /\ t \in TasksOf(p) /\ t \in Task /\ t \in TaskTotal(p) /\ t \notin TaskDone(p)
          /\ t \notin Failed /\ t \notin BlockedTasks
      BY <3>1, <3>3 DEF TaskTotal
    <3>5. status[t] \notin Satisfied \cup {"failed", "absent"}
      BY <3>4 DEF TaskTotal, TaskDone, Failed
    <3>6. PICK d \in DependsOn[t] : status[d] \notin Satisfied
      BY <1>3, <3>4, <3>5 DEF CanMove, DepsSatisfied
    <3>7. d \in Task /\ PlanOf[d] = PlanOf[t] /\ d \in TasksOf(p)
      BY <1>0, <3>4, <3>6 DEF TasksOf
    <3>8. status[d] # "absent"
      BY <3>4, <3>5, <3>7 DEF RowsAreWhole, StoreInv, TasksHavePlans
    <3>9. d \in Failed \cup BlockedTasks
      BY <3>3, <3>6, <3>7, <3>8 DEF TaskTotal, TaskDone
    <3>10. CASE d \in Failed
      <4>1. t \in Downstream[d]
        BY <3>4, <3>6, <3>7, DownstreamIsLeast DEF ClosedFrom
      <4> QED
        BY <3>4, <3>10, <4>1 DEF BlockedTasks
    <3>11. CASE d \in BlockedTasks
      <4>1. PICK f \in Failed : d \in Downstream[f]
        BY <3>11 DEF BlockedTasks
      <4>2. f \in Task
        BY DEF Failed
      <4>3. t \in Downstream[f]
        BY <3>4, <3>6, <4>1, <4>2, DownstreamIsLeast DEF ClosedFrom
      <4> QED
        BY <3>4, <4>3 DEF BlockedTasks
    <3> QED
      BY <3>9, <3>10, <3>11
  <2> QED
    BY <2>1, <2>2 DEF NoRunnableWork
<1> QED
  BY <1>1, <1>2, <1>3

DeadEndsAreExact ==
  \A p \in Plan :
    NoRunnableWork(p) <=> /\ \E t \in TasksOf(p) : status[t] = "failed"
                          /\ \A t \in TasksOf(p) : ~CanMove(t)

LEMMA DeadEndsExact == StoreInv /\ RowsAreWhole => DeadEndsAreExact
BY NoRunnableWorkIsExact DEF DeadEndsAreExact

\* A dead end stays one: no step moves a task that waits behind a failure.
LEMMA DeadEndsStay ==
  ASSUME StoreInv, RowsAreWhole, StoreInv', RowsAreWhole', [StoreNext]_storeVars,
         NEW p \in Plan, NoRunnableWork(p), planStatus'[p] # "deleted"
  PROVE  NoRunnableWork(p)' /\ TaskDone(p)' = TaskDone(p)
<1>0. /\ DependsOn \in [Task -> SUBSET Task]
      /\ \A t \in Task : \A d \in DependsOn[t] : PlanOf[d] = PlanOf[t]
  BY GraphAssumption
<1>1. PICK f \in TasksOf(p) : status[f] = "failed"
  BY NoRunnableWorkIsExact
<1>2. \A t \in TasksOf(p) : ~CanMove(t)
  BY NoRunnableWorkIsExact
<1>3. planStatus[p] \notin {"absent", "deleted"}
  BY <1>1 DEF StoreInv, TasksHavePlans, TasksOf
<1>4. ASSUME NEW t \in TasksOf(p)
      PROVE  /\ t \in Task /\ (status'[t] \in Satisfied <=> status[t] \in Satisfied)
             /\ (status'[t] = "failed" <=> status[t] = "failed")
             /\ (status'[t] = "absent" <=> status[t] = "absent")
  <2>1. t \in Task /\ PlanOf[t] = p /\ status[t] # "absent" /\ ~CanMove(t)
    BY <1>2, <1>3 DEF TasksOf, RowsAreWhole
  <2>2. \/ status'[t] = status[t]
        \/ /\ status[t] \notin Satisfied \cup {"failed"}
           /\ status'[t] \notin {"absent", "skipped", "decomposed"}
           /\ status'[t] \notin Satisfied \cup {"failed"}
    BY <1>3, <2>1, StepOfATask
  <2> QED
    BY <2>1, <2>2
<1>5. TaskDone(p)' = TaskDone(p)
  BY <1>4 DEF TaskDone, TasksOf
<1>6. ASSUME NEW t \in TasksOf(p)
      PROVE  ~CanMove(t)'
  <2>1. t \in Task /\ \A d \in DependsOn[t] : d \in TasksOf(p)
    BY <1>0 DEF TasksOf
  <2>2. DepsSatisfied(t)' => DepsSatisfied(t)
    BY <1>4, <2>1 DEF DepsSatisfied
  <2>3. ~CanMove(t)
    BY <1>2
  <2> QED
    BY <1>4, <2>2, <2>3 DEF CanMove
<1>7. status'[f] = "failed"
  BY <1>1, <1>4
<1>8. TasksOf(p)' = TasksOf(p)
  BY DEF TasksOf
<1>9. DeadEndsAreExact'
  BY DeadEndsExact, PTL
<1> QED
  BY <1>1, <1>5, <1>6, <1>7, <1>8, <1>9 DEF DeadEndsAreExact

\* The operator is told the truth about a plan that is stuck: what the recursive query
\* of operator_snapshot.go finds behind the failures is exactly what cannot move, and
\* stays so, for every graph that can be run at all.
THEOREM StuckPlansAreStuck == StoreSpec => DeadEndsAreReal
<1>1. StoreInit => RowsAreWhole
  BY GraphAssumption DEF StoreInit, RowsAreWhole
<1>2. StoreInv /\ RowsAreWhole /\ [StoreNext]_storeVars => RowsAreWhole'
  BY RowsStep
<1>3. StoreSpec => []RowsAreWhole
  BY <1>1, <1>2, StoreInvariant, PTL DEF StoreSpec
<1>4. StoreInv /\ RowsAreWhole =>
        \A p \in Plan :
          NoRunnableWork(p) <=> /\ \E t \in TasksOf(p) : status[t] = "failed"
                                /\ \A t \in TasksOf(p) : ~CanMove(t)
  BY NoRunnableWorkIsExact
<1>5. StoreInv /\ RowsAreWhole => \A t \in Task : \A f \in BlockedBy(t) : BlockedBy(f) = {}
  BY CausesAreFailures
<1>6. StoreInv /\ RowsAreWhole /\ StoreInv' /\ RowsAreWhole' /\ [StoreNext]_storeVars =>
        \A p \in {PlanOf[t] : t \in Failed} : NoRunnableWork(p) =>
          \/ NoRunnableWork(p)' /\ TaskDone(p)' = TaskDone(p)
          \/ planStatus'[p] = "deleted"
  <2>1. {PlanOf[t] : t \in Failed} \subseteq Plan
    BY GraphAssumption DEF Failed
  <2> QED
    BY <2>1, DeadEndsStay
<1> QED
  BY <1>3, <1>4, <1>5, <1>6, StoreInvariant, PTL DEF StoreSpec, DeadEndsAreReal
=============================================================================
