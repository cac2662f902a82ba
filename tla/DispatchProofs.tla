--------------------------- MODULE DispatchProofs ---------------------------
(***************************************************************************)
(* Theorems about the supervisor, for every set of plans, tasks and        *)
(* workers and every setting of the budgets.                               *)
(*                                                                         *)
(* DispatchImplementsStore carries the theorems of TaskStoreProofs over to *)
(* the supervisor: whatever it does to the store is a step of StoreSpec.   *)
(* OwnerStep and LeaseStep are the inductive steps behind the two theorems *)
(* about ownership.  What each action does to the store is found once, in  *)
(* StoreCalls.                                                             *)
(***************************************************************************)
EXTENDS Dispatch, TaskStoreProofs

\* The reports an attempt makes under its own session, and what it was doing.
SettlingCall ==
  \E w \in Worker :
    /\ pc[w] \in {"report", "mark"} /\ pc'[w] # pc[w]
    /\ \/ outcome[w] = "pass" /\ MarkDone(job[w], SessionOf[w])
       \/ \E budget \in {0, MaxRetries} : MarkFailed(job[w], SessionOf[w], budget)

\* The store calls the supervisor makes, with the arguments it makes them with.
PlanCall ==
  \/ \E p \in Plan : \/ CreatePlanGraph(p) \/ DeletePlan(p)
                     \/ \E st \in {"active", "stopped"} : SetPlanStatus(p, st)
  \/ \E t \in Task : \/ ApproveTask(t)
                     \/ \E block \in GateBlocks :
                          MarkGateBlocked(t, block) \/ ClearTaskBlock(t, block)

WorkerCall ==
  \E w \in Worker :
    \/ CreateSession(SessionOf[w])
    \/ CreateWorker(w, SessionOf[w])
    \/ ClaimTask(job[w], SessionOf[w], w)
    \/ ReleaseClaim(job[w], SessionOf[w])
    \/ SetWorkerTask(w, job[w])
    \/ HeartbeatWorkerAndSession(w)
    \/ \E st \in {"idle", "crashed"} : ClearWorkerTask(w, st)
    \/ ReclaimWorker(w)

StoreCall ==
  \/ UNCHANGED storeVars
  \/ PlanCall \/ WorkerCall \/ SettlingCall
  \/ ReclaimStale \/ Tick

\* Every step keeps the attempts' variables in their domains.
LEMMA ControlStep == TypeOK /\ ControlTypeOK /\ [Next]_vars => ControlTypeOK'
<1> SUFFICES ASSUME TypeOK, ControlTypeOK, [Next]_vars
             PROVE  ControlTypeOK'
  OBVIOUS
<1> USE DispatchAssumption, NullAssumption
    DEF ControlTypeOK, Phases, InDispatcher, InGoroutine, Working,
        passVars, attemptVars, operatorVars, processVars, controlVars
<1>1. ASSUME BeginRound
       PROVE  ControlTypeOK'
  BY <1>1 DEF BeginRound, DispatchFrame
<1>2. ASSUME NEW p \in Plan, BeginPass(p)
       PROVE  ControlTypeOK'
  BY <1>2 DEF BeginPass, DispatchFrame
<1>3. ASSUME NEW t \in Task, GateRefuses(t)
       PROVE  ControlTypeOK'
  BY <1>3 DEF GateRefuses, DispatchFrame
<1>4. ASSUME NEW t \in Task, GateClears(t)
       PROVE  ControlTypeOK'
  BY <1>4 DEF GateClears, DispatchFrame
<1>5. ASSUME NEW t \in Task, NEW w \in Worker, Admit(w, t)
       PROVE  ControlTypeOK'
  BY <1>5 DEF Admit, Goto, DispatchFrame
<1>6. ASSUME AbandonPass
       PROVE  ControlTypeOK'
  BY <1>6 DEF AbandonPass, DispatchFrame
<1>7. ASSUME NEW w \in Worker, RefuseAdmission(w)
       PROVE  ControlTypeOK'
  BY <1>7 DEF RefuseAdmission, Goto, DispatchFrame
<1>8. ASSUME NEW w \in Worker, SpawnSession(w)
       PROVE  ControlTypeOK'
  BY <1>8 DEF SpawnSession, DispatchFrame
<1>9. ASSUME NEW w \in Worker, SpawnWorker(w)
       PROVE  ControlTypeOK'
  BY <1>9 DEF SpawnWorker, Step, DispatchFrame, Goto
<1>10. ASSUME NEW w \in Worker, SpawnFails(w)
       PROVE  ControlTypeOK'
  BY <1>10 DEF SpawnFails, Finish, DispatchFrame, Goto
<1>11. ASSUME NEW w \in Worker, ClaimStep(w)
       PROVE  ControlTypeOK'
  BY <1>11 DEF ClaimStep, DispatchFrame
<1>12. ASSUME NEW w \in Worker, LoseClaim(w)
       PROVE  ControlTypeOK'
  BY <1>12 DEF LoseClaim, Finish, ReleaseRow, DispatchFrame, Goto
<1>13. ASSUME NEW w \in Worker, ClaimFails(w)
       PROVE  ControlTypeOK'
  BY <1>13 DEF ClaimFails, Finish, ReleaseRow, DispatchFrame, Goto
<1>14. ASSUME NEW w \in Worker, Launch(w)
       PROVE  ControlTypeOK'
  BY <1>14 DEF Launch, Step, DispatchFrame, Goto
<1>15. ASSUME NEW w \in Worker, LaunchFails(w)
       PROVE  ControlTypeOK'
  BY <1>15 DEF LaunchFails, Finish, DispatchFrame, Goto
<1>16. ASSUME NEW w \in Worker, StartTurn(w)
       PROVE  ControlTypeOK'
  BY <1>16 DEF StartTurn, Step, GoroutineFrame, TurnFrame, Goto
<1>17. ASSUME NEW w \in Worker, SetupFails(w)
       PROVE  ControlTypeOK'
  BY <1>17 DEF SetupFails, Finish, GoroutineFrame, TurnFrame, Goto
<1>18. ASSUME NEW w \in Worker, NEW out \in TurnOutcomes, EndTurn(w, out)
       PROVE  ControlTypeOK'
  BY <1>18 DEF EndTurn, Goto, TurnFrame
<1>19. ASSUME NEW w \in Worker, RecordTurn(w)
       PROVE  ControlTypeOK'
  BY <1>19 DEF RecordTurn, GoroutineFrame, TurnFrame
<1>20. ASSUME NEW w \in Worker, RecordFails(w)
       PROVE  ControlTypeOK'
  BY <1>20 DEF RecordFails, Finish, GoroutineFrame, TurnFrame, Goto
<1>21. ASSUME NEW w \in Worker, ReportFailure(w)
       PROVE  ControlTypeOK'
  BY <1>21 DEF ReportFailure, Step, RetryBudget, GoroutineFrame, TurnFrame, Goto
<1>22. ASSUME NEW w \in Worker, BeginCheck(w)
       PROVE  ControlTypeOK'
  BY <1>22 DEF BeginCheck, Goto, GoroutineFrame, TurnFrame, TypeOK
<1>23. ASSUME NEW w \in Worker, NEW verdict \in {"pass", "reject"}, EndCheck(w, verdict)
       PROVE  ControlTypeOK'
  BY <1>23 DEF EndCheck, Goto, GoroutineFrame, TurnFrame
<1>24. ASSUME NEW w \in Worker, LoseVerdict(w)
       PROVE  ControlTypeOK'
  BY <1>24 DEF LoseVerdict, Step, GoroutineFrame, TurnFrame, Goto
<1>25. ASSUME NEW w \in Worker, MarkVerdict(w)
       PROVE  ControlTypeOK'
  BY <1>25 DEF MarkVerdict, Step, GoroutineFrame, TurnFrame, Goto
<1>26. ASSUME NEW w \in Worker, RecoverPanic(w)
       PROVE  ControlTypeOK'
  BY <1>26 DEF RecoverPanic, Step, GoroutineFrame, TurnFrame, Goto
<1>27. ASSUME NEW w \in Worker, EndAttempt(w)
       PROVE  ControlTypeOK'
  BY <1>27 DEF EndAttempt, Finish, ReleaseRow, GoroutineFrame, TurnFrame, Goto
<1>28. ASSUME NEW w \in Worker, BeatTurn(w)
       PROVE  ControlTypeOK'
  BY <1>28 DEF BeatTurn, Beat, GoroutineFrame, TurnFrame
<1>29. ASSUME NEW w \in Worker, BeatCheck(w)
       PROVE  ControlTypeOK'
  BY <1>29 DEF BeatCheck, Beat, GoroutineFrame, TurnFrame
<1>30. ASSUME NEW w \in Worker, Panic(w)
       PROVE  ControlTypeOK'
  BY <1>30 DEF Panic, Step, TurnFrame, Goto
<1>31. ASSUME NEW p \in Plan, HandlePlanImport(p)
       PROVE  ControlTypeOK'
  BY <1>31 DEF HandlePlanImport
<1>32. ASSUME NEW p \in Plan, NEW st \in {"active", "stopped"}, HandlePlanSetStatus(p, st)
       PROVE  ControlTypeOK'
  BY <1>32 DEF HandlePlanSetStatus
<1>33. ASSUME NEW t \in Task, HandleTaskApprove(t)
       PROVE  ControlTypeOK'
  BY <1>33 DEF HandleTaskApprove
<1>34. ASSUME NEW w \in Worker, KillProcess(w)
       PROVE  ControlTypeOK'
  BY <1>34 DEF KillProcess, KillWorker, OperatorFrame
<1>35. ASSUME NEW p \in Plan, ListPlanWorkers(p)
       PROVE  ControlTypeOK'
  BY <1>35 DEF ListPlanWorkers, OperatorFrame
<1>36. ASSUME NEW t \in Task, FixDeclaration(t)
       PROVE  ControlTypeOK'
  BY <1>36 DEF FixDeclaration
<1>37. ASSUME KillRow
       PROVE  ControlTypeOK'
  BY <1>37 DEF KillRow, OperatorFrame
<1>38. ASSUME NEW w \in Worker, KillListed(w)
       PROVE  ControlTypeOK'
  BY <1>38 DEF KillListed, KillWorker, OperatorFrame
<1>39. ASSUME NEW p \in Plan, DeleteListed(p)
       PROVE  ControlTypeOK'
  BY <1>39 DEF DeleteListed, OperatorFrame
<1>40. ASSUME Reap
       PROVE  ControlTypeOK'
  BY <1>40 DEF Reap
<1>41. ASSUME PassTime
       PROVE  ControlTypeOK'
  BY <1>41 DEF PassTime
<1>42. ASSUME Shutdown
       PROVE  ControlTypeOK'
  BY <1>42 DEF Shutdown
<1>43. ASSUME Restart
       PROVE  ControlTypeOK'
  BY <1>43 DEF Restart
<1>44. ASSUME Crash
       PROVE  ControlTypeOK'
  BY <1>44 DEF Crash
<1>45. ASSUME UNCHANGED vars
       PROVE  ControlTypeOK'
  BY <1>45 DEF vars
<1> QED
  BY <1>1, <1>2, <1>3, <1>4, <1>5, <1>6, <1>7, <1>8, <1>9, <1>10, <1>11, <1>12,
     <1>13, <1>14, <1>15, <1>16, <1>17, <1>18, <1>19, <1>20, <1>21, <1>22,
     <1>23, <1>24, <1>25, <1>26, <1>27, <1>28, <1>29, <1>30, <1>31, <1>32,
     <1>33, <1>34, <1>35, <1>36, <1>37, <1>38, <1>39, <1>40, <1>41, <1>42,
     <1>43, <1>44, <1>45
     DEF Next, PassNext, DispatcherStep, GoroutineStep, OperatorNext, HandlerStep

\* Every step of the supervisor makes at most one store call, and this is it.
LEMMA StoreCalls == ControlTypeOK /\ [Next]_vars => StoreCall
<1> SUFFICES ASSUME ControlTypeOK, [Next]_vars
             PROVE  StoreCall
  OBVIOUS
<1> USE DispatchAssumption, NullAssumption
    DEF ControlTypeOK, StoreCall
<1>1. ASSUME BeginRound
       PROVE  StoreCall
  BY <1>1 DEF BeginRound, DispatchFrame
<1>2. ASSUME NEW p \in Plan, BeginPass(p)
       PROVE  StoreCall
  BY <1>2 DEF BeginPass, DispatchFrame
<1>3. ASSUME NEW t \in Task, GateRefuses(t)
       PROVE  StoreCall
  BY <1>3 DEF GateRefuses, DispatchFrame, PlanCall, GateBlocks
<1>4. ASSUME NEW t \in Task, GateClears(t)
       PROVE  StoreCall
  BY <1>4 DEF GateClears, DispatchFrame, PlanCall, GateBlocks
<1>5. ASSUME NEW t \in Task, NEW w \in Worker, Admit(w, t)
       PROVE  StoreCall
  BY <1>5 DEF Admit, Goto, DispatchFrame
<1>6. ASSUME AbandonPass
       PROVE  StoreCall
  BY <1>6 DEF AbandonPass, DispatchFrame
<1>7. ASSUME NEW w \in Worker, RefuseAdmission(w)
       PROVE  StoreCall
  BY <1>7 DEF RefuseAdmission, Goto, DispatchFrame
<1>8. ASSUME NEW w \in Worker, SpawnSession(w)
       PROVE  StoreCall
  BY <1>8 DEF SpawnSession, DispatchFrame, WorkerCall
<1>9. ASSUME NEW w \in Worker, SpawnWorker(w)
       PROVE  StoreCall
  BY <1>9 DEF SpawnWorker, Step, DispatchFrame, Goto, WorkerCall
<1>10. ASSUME NEW w \in Worker, SpawnFails(w)
       PROVE  StoreCall
  BY <1>10 DEF SpawnFails, Finish, DispatchFrame, Goto
<1>11. ASSUME NEW w \in Worker, ClaimStep(w)
       PROVE  StoreCall
  BY <1>11 DEF ClaimStep, DispatchFrame, WorkerCall
<1>12. ASSUME NEW w \in Worker, LoseClaim(w)
       PROVE  StoreCall
  BY <1>12 DEF LoseClaim, Finish, ReleaseRow, DispatchFrame, Goto, WorkerCall
<1>13. ASSUME NEW w \in Worker, ClaimFails(w)
       PROVE  StoreCall
  BY <1>13 DEF ClaimFails, Finish, ReleaseRow, DispatchFrame, Goto, WorkerCall
<1>14. ASSUME NEW w \in Worker, Launch(w)
       PROVE  StoreCall
  BY <1>14 DEF Launch, Step, DispatchFrame, Goto, WorkerCall
<1>15. ASSUME NEW w \in Worker, LaunchFails(w)
       PROVE  StoreCall
  BY <1>15 DEF LaunchFails, Finish, DispatchFrame, Goto
<1>16. ASSUME NEW w \in Worker, StartTurn(w)
       PROVE  StoreCall
  BY <1>16 DEF StartTurn, Step, GoroutineFrame, TurnFrame, Goto
<1>17. ASSUME NEW w \in Worker, SetupFails(w)
       PROVE  StoreCall
  BY <1>17 DEF SetupFails, Finish, GoroutineFrame, TurnFrame, Goto
<1>18. ASSUME NEW w \in Worker, NEW out \in TurnOutcomes, EndTurn(w, out)
       PROVE  StoreCall
  BY <1>18 DEF EndTurn, Goto, TurnFrame
<1>19. ASSUME NEW w \in Worker, RecordTurn(w)
       PROVE  StoreCall
  BY <1>19 DEF RecordTurn, GoroutineFrame, TurnFrame
<1>20. ASSUME NEW w \in Worker, RecordFails(w)
       PROVE  StoreCall
  BY <1>20 DEF RecordFails, Finish, GoroutineFrame, TurnFrame, Goto
<1>21. ASSUME NEW w \in Worker, ReportFailure(w)
       PROVE  StoreCall
  BY <1>21 DEF ReportFailure, Step, RetryBudget, GoroutineFrame, TurnFrame, Goto,
      SettlingCall
<1>22. ASSUME NEW w \in Worker, BeginCheck(w)
       PROVE  StoreCall
  BY <1>22 DEF BeginCheck, Goto, GoroutineFrame, TurnFrame
<1>23. ASSUME NEW w \in Worker, NEW verdict \in {"pass", "reject"}, EndCheck(w, verdict)
       PROVE  StoreCall
  BY <1>23 DEF EndCheck, Goto, GoroutineFrame, TurnFrame
<1>24. ASSUME NEW w \in Worker, LoseVerdict(w)
       PROVE  StoreCall
  BY <1>24 DEF LoseVerdict, Step, GoroutineFrame, TurnFrame, Goto
<1>25. ASSUME NEW w \in Worker, MarkVerdict(w)
       PROVE  StoreCall
  BY <1>25 DEF MarkVerdict, Step, GoroutineFrame, TurnFrame, Goto, SettlingCall
<1>26. ASSUME NEW w \in Worker, RecoverPanic(w)
       PROVE  StoreCall
  BY <1>26 DEF RecoverPanic, Step, GoroutineFrame, TurnFrame, Goto, WorkerCall
<1>27. ASSUME NEW w \in Worker, EndAttempt(w)
       PROVE  StoreCall
  BY <1>27 DEF EndAttempt, Finish, ReleaseRow, GoroutineFrame, TurnFrame, Goto,
      WorkerCall
<1>28. ASSUME NEW w \in Worker, BeatTurn(w)
       PROVE  StoreCall
  BY <1>28 DEF BeatTurn, Beat, GoroutineFrame, TurnFrame, WorkerCall
<1>29. ASSUME NEW w \in Worker, BeatCheck(w)
       PROVE  StoreCall
  BY <1>29 DEF BeatCheck, Beat, GoroutineFrame, TurnFrame, WorkerCall
<1>30. ASSUME NEW w \in Worker, Panic(w)
       PROVE  StoreCall
  BY <1>30 DEF Panic, Step, TurnFrame, Goto
<1>31. ASSUME NEW p \in Plan, HandlePlanImport(p)
       PROVE  StoreCall
  BY <1>31 DEF HandlePlanImport, PlanCall
<1>32. ASSUME NEW p \in Plan, NEW st \in {"active", "stopped"}, HandlePlanSetStatus(p, st)
       PROVE  StoreCall
  BY <1>32 DEF HandlePlanSetStatus, PlanCall
<1>33. ASSUME NEW t \in Task, HandleTaskApprove(t)
       PROVE  StoreCall
  BY <1>33 DEF HandleTaskApprove, PlanCall
<1>34. ASSUME NEW w \in Worker, KillProcess(w)
       PROVE  StoreCall
  BY <1>34 DEF KillProcess, KillWorker, OperatorFrame
<1>35. ASSUME NEW p \in Plan, ListPlanWorkers(p)
       PROVE  StoreCall
  BY <1>35 DEF ListPlanWorkers, OperatorFrame
<1>36. ASSUME NEW t \in Task, FixDeclaration(t)
       PROVE  StoreCall
  BY <1>36 DEF FixDeclaration
<1>37. ASSUME KillRow
       PROVE  StoreCall
  BY <1>37 DEF KillRow, OperatorFrame, WorkerCall
<1>38. ASSUME NEW w \in Worker, KillListed(w)
       PROVE  StoreCall
  BY <1>38 DEF KillListed, KillWorker, OperatorFrame
<1>39. ASSUME NEW p \in Plan, DeleteListed(p)
       PROVE  StoreCall
  BY <1>39 DEF DeleteListed, OperatorFrame, PlanCall
<1>40. ASSUME Reap
       PROVE  StoreCall
  BY <1>40 DEF Reap
<1>41. ASSUME PassTime
       PROVE  StoreCall
  BY <1>41 DEF PassTime
<1>42. ASSUME Shutdown
       PROVE  StoreCall
  BY <1>42 DEF Shutdown
<1>43. ASSUME Restart
       PROVE  StoreCall
  BY <1>43 DEF Restart
<1>44. ASSUME Crash
       PROVE  StoreCall
  BY <1>44 DEF Crash
<1>45. ASSUME UNCHANGED vars
       PROVE  StoreCall
  BY <1>45 DEF vars
<1> QED
  BY <1>1, <1>2, <1>3, <1>4, <1>5, <1>6, <1>7, <1>8, <1>9, <1>10, <1>11, <1>12,
     <1>13, <1>14, <1>15, <1>16, <1>17, <1>18, <1>19, <1>20, <1>21, <1>22,
     <1>23, <1>24, <1>25, <1>26, <1>27, <1>28, <1>29, <1>30, <1>31, <1>32,
     <1>33, <1>34, <1>35, <1>36, <1>37, <1>38, <1>39, <1>40, <1>41, <1>42,
     <1>43, <1>44, <1>45
     DEF Next, PassNext, DispatcherStep, GoroutineStep, OperatorNext, HandlerStep

\* A step of the supervisor is a step of the store, or leaves it alone.
LEMMA StoreStep == ControlTypeOK /\ [Next]_vars => [StoreNext]_storeVars
<1> SUFFICES ASSUME ControlTypeOK, StoreCall
             PROVE  [StoreNext]_storeVars
  BY StoreCalls
<1> USE DispatchAssumption DEF ControlTypeOK, StoreNext
<1>1. CASE PlanCall
  BY <1>1 DEF PlanCall, PlanNext, TaskNext
<1>2. CASE WorkerCall
  BY <1>2 DEF WorkerCall, RowNext, TaskNext
<1>3. CASE SettlingCall
  BY <1>3 DEF SettlingCall, TaskNext
<1> QED
  BY <1>1, <1>2, <1>3 DEF StoreCall

\* The attempts' variables and the store's are in order in the initial state.
LEMMA InitialState == Init => ControlTypeOK /\ StoreInv /\ OwnerInv
<1> SUFFICES ASSUME Init
             PROVE  ControlTypeOK /\ StoreInv /\ OwnerInv
  OBVIOUS
<1>1. ControlTypeOK
  BY DispatchAssumption DEF Init, ControlTypeOK, Phases
<1>2. StoreInv
  BY StoreInitial DEF Init
<1>3. OwnerInv
  BY DEF Init, StoreInit, OwnerInv, WorkerExists, WorkerStatuses
<1> QED
  BY <1>1, <1>2, <1>3

\* The supervisor implements the store's specification: every call it makes,
\* on behalf of a pass, a goroutine, a handler or the tick, is one that the
\* store's theorems allow for.
THEOREM DispatchImplementsStore == Spec => StoreSpec
<1>1. Init => StoreInit /\ ControlTypeOK /\ StoreInv
  BY InitialState DEF Init
<1>2. ControlTypeOK /\ StoreInv /\ [Next]_vars => ControlTypeOK' /\ StoreInv'
  BY ControlStep, StoreStep, StoreInductive DEF StoreInv
<1>3. ControlTypeOK /\ [Next]_vars => [StoreNext]_storeVars
  BY StoreStep
<1> QED
  BY <1>1, <1>2, <1>3, PTL DEF Spec, StoreSpec

\* The supervisor only creates an attempt's worker row under the attempt's own
\* session, and never leaves a running task without its worker.
LEMMA OwnerStep == StoreInv /\ ControlTypeOK /\ OwnerInv /\ [Next]_vars => OwnerInv'
<1> SUFFICES ASSUME StoreInv, ControlTypeOK, OwnerInv, StoreCall
             PROVE  OwnerInv'
  BY StoreCalls
<1> USE DispatchAssumption, NullAssumption, TimeAssumption
    DEF StoreInv, TypeOK, ControlTypeOK, OwnerInv, WorkerExists, WorkerStatuses,
        planVars, taskVars, sessionVars, workerVars, storeVars
<1>1. CASE UNCHANGED storeVars
  BY <1>1
<1>2. CASE PlanCall
  BY <1>2 DEF PlanCall, CreatePlanGraph, DeletePlan, SetPlanStatus, ApproveTask,
              MarkGateBlocked, ClearTaskBlock, Claimable, GateBlocks
<1>3. CASE WorkerCall
  <2>1. PICK w \in Worker :
           \/ CreateSession(SessionOf[w])
           \/ CreateWorker(w, SessionOf[w])
           \/ ClaimTask(job[w], SessionOf[w], w)
           \/ ReleaseClaim(job[w], SessionOf[w])
           \/ SetWorkerTask(w, job[w])
           \/ HeartbeatWorkerAndSession(w)
           \/ \E st \in {"idle", "crashed"} : ClearWorkerTask(w, st)
           \/ ReclaimWorker(w)
    BY <1>3 DEF WorkerCall
  <2>2. CASE CreateSession(SessionOf[w])
    BY <2>2 DEF CreateSession
  <2>3. CASE CreateWorker(w, SessionOf[w])
    BY <2>3 DEF CreateWorker
  <2>4. CASE ClaimTask(job[w], SessionOf[w], w)
    BY <2>4 DEF ClaimTask
  <2>5. CASE ReleaseClaim(job[w], SessionOf[w])
    BY <2>5 DEF ReleaseClaim, EndClaim
  <2>6. CASE SetWorkerTask(w, job[w])
    BY <2>6 DEF SetWorkerTask
  <2>7. CASE HeartbeatWorkerAndSession(w)
    BY <2>7 DEF HeartbeatWorkerAndSession
  <2>8. CASE \E st \in {"idle", "crashed"} : ClearWorkerTask(w, st)
    BY <2>8 DEF ClearWorkerTask
  <2>9. CASE ReclaimWorker(w)
    BY <2>9 DEF ReclaimWorker
  <2> QED
    BY <2>1, <2>2, <2>3, <2>4, <2>5, <2>6, <2>7, <2>8, <2>9
<1>4. CASE SettlingCall
  BY <1>4 DEF SettlingCall, MarkDone, MarkFailed, EndClaim
<1>5. CASE ReclaimStale
  BY <1>5 DEF ReclaimStale, DeleteRows, StaleClaims, DeadWorkers, DeadSessions,
              DeleteAfter, ClaimsNameLiveRows, MaxAge
<1>6. CASE Tick
  BY <1>6 DEF Tick
<1> QED
  BY <1>1, <1>2, <1>3, <1>4, <1>5, <1>6 DEF StoreCall

\* The session an attempt reports under identifies it.
LEMMA ClaimantIsUnique ==
  ASSUME StoreInv, ControlTypeOK, OwnerInv, NEW w \in Worker, Owns(w)
  PROVE  claimWorker[job[w]] = w
<1> DEFINE t == job[w]
           v == claimWorker[t]
<1>1. t \in Task /\ status[t] = "running" /\ claimSession[t] = SessionOf[w]
  BY DEF Owns, OwnsRunning, ControlTypeOK
<1>2. v \in Worker
  BY <1>1 DEF OwnerInv
<1>3. WorkerExists(v) /\ workerSession[v] = SessionOf[w]
  BY <1>1, <1>2, NullAssumption DEF StoreInv, ClaimsNameLiveRows
<1>4. SessionOf[v] = SessionOf[w]
  BY <1>2, <1>3 DEF OwnerInv
<1> QED
  BY <1>2, <1>4, DispatchAssumption

\* Only a report of the claim's owner settles a task or charges it a retry.
LEMMA SettlingStep ==
  ASSUME StoreInv, ControlTypeOK, OwnerInv, [Next]_vars, NEW t \in Task,
         \/ status[t] = "running" /\ status'[t] \in {"done", "failed"}
         \/ retryCount'[t] # retryCount[t]
  PROVE  \E w \in Worker :
           /\ claimWorker[t] = w /\ job[w] = t
           /\ pc[w] \in {"report", "mark"} /\ pc'[w] # pc[w]
           /\ status'[t] = "done" => outcome[w] = "pass"
<1> USE DEF StoreInv, TypeOK, ControlTypeOK,
            planVars, taskVars, sessionVars, workerVars, storeVars
<1>1. ~UNCHANGED storeVars
  OBVIOUS
<1>2. ~PlanCall
  BY DEF PlanCall, CreatePlanGraph, DeletePlan, SetPlanStatus, ApproveTask,
         MarkGateBlocked, ClearTaskBlock, Claimable, GateBlocks
<1>3. ~WorkerCall
  BY DEF WorkerCall, CreateSession, CreateWorker, ClaimTask, CanClaim, Claimable,
         ReleaseClaim, EndClaim, SetWorkerTask, HeartbeatWorkerAndSession,
         ClearWorkerTask, ReclaimWorker
<1>4. ~ReclaimStale /\ ~Tick
  BY DEF ReclaimStale, Tick, StaleClaims
<1>5. SettlingCall
  BY <1>1, <1>2, <1>3, <1>4, StoreCalls DEF StoreCall
<1>6. PICK w \in Worker :
         /\ pc[w] \in {"report", "mark"} /\ pc'[w] # pc[w]
         /\ \/ outcome[w] = "pass" /\ MarkDone(job[w], SessionOf[w])
            \/ \E budget \in {0, MaxRetries} : MarkFailed(job[w], SessionOf[w], budget)
  BY <1>5 DEF SettlingCall
<1>7. Owns(w)
  BY <1>6 DEF MarkDone, MarkFailed, EndClaim, Owns
<1>8. job[w] = t
  BY <1>6 DEF MarkDone, MarkFailed, EndClaim
<1>9. claimWorker[t] = w
  BY <1>7, <1>8, ClaimantIsUnique
<1>10. status'[t] = "done" => outcome[w] = "pass"
  BY <1>6, <1>8 DEF MarkDone, MarkFailed, EndClaim
<1> QED
  BY <1>6, <1>8, <1>9, <1>10

\* In every reachable state the attempts and the store are in order.
LEMMA SupervisorInvariant == Spec => [](StoreInv /\ ControlTypeOK /\ OwnerInv)
<1>1. Init => StoreInv /\ ControlTypeOK /\ OwnerInv
  BY InitialState
<1>2. StoreInv /\ ControlTypeOK /\ OwnerInv /\ [Next]_vars
        => StoreInv' /\ ControlTypeOK' /\ OwnerInv'
  BY ControlStep, StoreStep, StoreInductive, OwnerStep DEF StoreInv
<1> QED
  BY <1>1, <1>2, PTL DEF Spec

\* The fencing of reports (issue #248): a worker that was killed, reaped or
\* replaced cannot settle the task of its replacement, for any number of
\* attempts, kills, deletions, crashes and any delays.
THEOREM ReportsAreFenced == Spec => OnlyOwnerSettles
<1> DEFINE Fenced ==
      \A t \in Task :
        \/ status[t] = "running" /\ status'[t] \in {"done", "failed"}
        \/ retryCount'[t] # retryCount[t]
        => \E w \in Worker :
             /\ claimWorker[t] = w /\ job[w] = t
             /\ pc[w] \in {"report", "mark"} /\ pc'[w] # pc[w]
             /\ status'[t] = "done" => outcome[w] = "pass"
<1>1. StoreInv /\ ControlTypeOK /\ OwnerInv /\ [Next]_vars => Fenced
  BY SettlingStep
<1>2. OnlyOwnerSettles <=> [][Fenced]_vars
  BY PTL DEF OnlyOwnerSettles
<1> HIDE DEF Fenced
<1> QED
  BY <1>1, <1>2, SupervisorInvariant, PTL DEF Spec

\* With punctual timers, and budgets that add up to no more than the lease, a
\* working attempt's heartbeat never goes stale, so every step leaves it its
\* claim.  Kills and deletions take claims away on purpose and are left out.
LEMMA LeaseStep ==
  ASSUME BudgetsFit, StoreInv, ControlTypeOK, LeaseInv, [Next]_vars
  PROVE  LeaseInv'
<1> DEFINE Quiet == killing = NoWorker /\ deleting = {} /\ doomed = {}
<1> SUFFICES ASSUME NEW v \in Worker
             PROVE  Quiet' /\ Leased(v)'
  BY DispatchAssumption DEF LeaseInv
<1> DEFINE Kept == Quiet' /\ Leased(v)'
<1> USE DispatchAssumption, NullAssumption, TimeAssumption
    DEF BudgetsFit, StoreInv, TypeOK, ControlTypeOK, LeaseInv, Leased, Owns, OwnsRunning,
        Margin, Deadline, Timed, Working, WorkerExists,
        passVars, attemptVars, operatorVars, processVars, controlVars,
        planVars, taskVars, sessionVars, workerVars, storeVars
<1>1. ASSUME BeginRound
       PROVE  Kept
  BY <1>1 DEF BeginRound, DispatchFrame
<1>2. ASSUME NEW p \in Plan, BeginPass(p)
       PROVE  Kept
  BY <1>2 DEF BeginPass, DispatchFrame
<1>3. ASSUME NEW t \in Task, GateRefuses(t)
       PROVE  Kept
  BY <1>3 DEF GateRefuses, DispatchFrame, MarkGateBlocked, Claimable, GateBlocks
<1>4. ASSUME NEW t \in Task, GateClears(t)
       PROVE  Kept
  BY <1>4 DEF GateClears, DispatchFrame, ClearTaskBlock, Claimable, GateBlocks
<1>5. ASSUME NEW t \in Task, NEW w \in Worker, Admit(w, t)
       PROVE  Kept
  BY <1>5 DEF Admit, Goto, DispatchFrame
<1>6. ASSUME AbandonPass
       PROVE  Kept
  BY <1>6 DEF AbandonPass, DispatchFrame
<1>7. ASSUME NEW w \in Worker, RefuseAdmission(w)
       PROVE  Kept
  BY <1>7 DEF RefuseAdmission, Goto, DispatchFrame
<1>8. ASSUME NEW w \in Worker, SpawnSession(w)
       PROVE  Kept
  BY <1>8 DEF SpawnSession, DispatchFrame, CreateSession
<1>9. ASSUME NEW w \in Worker, SpawnWorker(w)
       PROVE  Kept
  BY <1>9 DEF SpawnWorker, Step, DispatchFrame, Goto, CreateWorker
<1>10. ASSUME NEW w \in Worker, SpawnFails(w)
       PROVE  Kept
  BY <1>10 DEF SpawnFails, Finish, DispatchFrame, Goto
<1>11. ASSUME NEW w \in Worker, ClaimStep(w)
       PROVE  Kept
  BY <1>11 DEF ClaimStep, DispatchFrame, ClaimTask, CanClaim, Claimable
<1>12. ASSUME NEW w \in Worker, LoseClaim(w)
       PROVE  Kept
  BY <1>12 DEF LoseClaim, Finish, ReleaseRow, DispatchFrame, Goto, ClearWorkerTask
<1>13. ASSUME NEW w \in Worker, ClaimFails(w)
       PROVE  Kept
  BY <1>13 DEF ClaimFails, Finish, ReleaseRow, DispatchFrame, Goto, ClearWorkerTask
<1>14. ASSUME NEW w \in Worker, Launch(w)
       PROVE  Kept
  BY <1>14 DEF Launch, Step, DispatchFrame, Goto, SetWorkerTask
<1>15. ASSUME NEW w \in Worker, LaunchFails(w)
       PROVE  Kept
  BY <1>15 DEF LaunchFails, Finish, DispatchFrame, Goto
<1>16. ASSUME NEW w \in Worker, StartTurn(w)
       PROVE  Kept
  BY <1>16 DEF StartTurn, Step, GoroutineFrame, TurnFrame, Goto
<1>17. ASSUME NEW w \in Worker, SetupFails(w)
       PROVE  Kept
  BY <1>17 DEF SetupFails, Finish, GoroutineFrame, TurnFrame, Goto
<1>18. ASSUME NEW w \in Worker, NEW out \in TurnOutcomes, EndTurn(w, out)
       PROVE  Kept
  BY <1>18 DEF EndTurn, Goto, TurnFrame
<1>19. ASSUME NEW w \in Worker, RecordTurn(w)
       PROVE  Kept
  BY <1>19 DEF RecordTurn, GoroutineFrame, TurnFrame
<1>20. ASSUME NEW w \in Worker, RecordFails(w)
       PROVE  Kept
  BY <1>20 DEF RecordFails, Finish, GoroutineFrame, TurnFrame, Goto
<1>21. ASSUME NEW w \in Worker, ReportFailure(w)
       PROVE  Kept
  BY <1>21 DEF ReportFailure, Step, RetryBudget, GoroutineFrame, TurnFrame, Goto,
      MarkFailed, EndClaim
<1>22. ASSUME NEW w \in Worker, BeginCheck(w)
       PROVE  Kept
  BY <1>22 DEF BeginCheck, Goto, GoroutineFrame, TurnFrame
<1>23. ASSUME NEW w \in Worker, NEW verdict \in {"pass", "reject"}, EndCheck(w, verdict)
       PROVE  Kept
  BY <1>23 DEF EndCheck, Goto, GoroutineFrame, TurnFrame
<1>24. ASSUME NEW w \in Worker, LoseVerdict(w)
       PROVE  Kept
  BY <1>24 DEF LoseVerdict, Step, GoroutineFrame, TurnFrame, Goto
<1>25. ASSUME NEW w \in Worker, MarkVerdict(w)
       PROVE  Kept
  BY <1>25 DEF MarkVerdict, Step, GoroutineFrame, TurnFrame, Goto, MarkDone, MarkFailed,
      EndClaim
<1>26. ASSUME NEW w \in Worker, RecoverPanic(w)
       PROVE  Kept
  BY <1>26 DEF RecoverPanic, Step, GoroutineFrame, TurnFrame, Goto, ReleaseClaim,
      EndClaim
<1>27. ASSUME NEW w \in Worker, EndAttempt(w)
       PROVE  Kept
  BY <1>27 DEF EndAttempt, Finish, ReleaseRow, GoroutineFrame, TurnFrame, Goto,
      ClearWorkerTask
<1>28. ASSUME NEW w \in Worker, BeatTurn(w)
       PROVE  Kept
  BY <1>28 DEF BeatTurn, Beat, GoroutineFrame, TurnFrame, HeartbeatWorkerAndSession
<1>29. ASSUME NEW w \in Worker, BeatCheck(w)
       PROVE  Kept
  BY <1>29 DEF BeatCheck, Beat, GoroutineFrame, TurnFrame, HeartbeatWorkerAndSession
<1>30. ASSUME NEW w \in Worker, Panic(w)
       PROVE  Kept
  BY <1>30 DEF Panic, Step, TurnFrame, Goto
<1>31. ASSUME NEW p \in Plan, HandlePlanImport(p)
       PROVE  Kept
  BY <1>31, GraphAssumption DEF HandlePlanImport, CreatePlanGraph, TasksHavePlans
<1>32. ASSUME NEW p \in Plan, NEW st \in {"active", "stopped"}, HandlePlanSetStatus(p, st)
       PROVE  Kept
  BY <1>32 DEF HandlePlanSetStatus, SetPlanStatus
<1>33. ASSUME NEW t \in Task, HandleTaskApprove(t)
       PROVE  Kept
  BY <1>33 DEF HandleTaskApprove, ApproveTask
<1>34. ASSUME NEW w \in Worker, KillProcess(w)
       PROVE  Kept
  BY <1>34 DEF KillProcess, KillWorker, OperatorFrame
<1>35. ASSUME NEW p \in Plan, ListPlanWorkers(p)
       PROVE  Kept
  BY <1>35 DEF ListPlanWorkers, OperatorFrame
<1>36. ASSUME NEW t \in Task, FixDeclaration(t)
       PROVE  Kept
  BY <1>36 DEF FixDeclaration
<1>37. ASSUME KillRow
       PROVE  Kept
  BY <1>37 DEF KillRow, OperatorFrame, ReclaimWorker
<1>38. ASSUME NEW w \in Worker, KillListed(w)
       PROVE  Kept
  BY <1>38 DEF KillListed, KillWorker, OperatorFrame
<1>39. ASSUME NEW p \in Plan, DeleteListed(p)
       PROVE  Kept
  BY <1>39 DEF DeleteListed, OperatorFrame, DeletePlan
<1>40. ASSUME Reap
       PROVE  Kept
  <2>1. Quiet' /\ ~stopping /\ ReclaimStale
    BY <1>40 DEF Reap
  <2>2. UNCHANGED <<pc, job, clock, beatRow, stopping>>
    BY <1>40 DEF Reap
  <2>3. ASSUME pc[v] \in {"claimed"} \cup Working
        PROVE  Owns(v)' /\ claimWorker'[job[v]] = v
    <3>1. Owns(v) /\ claimWorker[job[v]] = v /\ job[v] \in Task
      BY <2>3
    <3>2. WorkerExists(v)
      BY <3>1 DEF ClaimsNameLiveRows
    <3>3. workerAge[v] <= Margin(v) + clock[v] /\ clock[v] <= Deadline(v)
      BY <2>1, <2>3, <3>2
    <3>4. workerAge[v] <= StaleAfter
      BY <2>3, <3>3
    <3> QED
      BY <2>1, <2>2, <3>1, <3>4, FreshClaim
  <2>4. WorkerExists(v)' => WorkerExists(v) /\ workerAge'[v] = workerAge[v]
    BY <2>1 DEF ReclaimStale, DeleteRows, WorkerStatuses
  <2> QED
    BY <2>1, <2>2, <2>3, <2>4
<1>41. ASSUME PassTime
       PROVE  Kept
  <2>1. Quiet' /\ UNCHANGED <<status, claimSession, claimWorker, workerRow,
                              pc, job, beatRow, stopping>>
    BY <1>41 DEF PassTime, Tick
  <2>2. ASSUME pc[v] \in Timed, ~stopping
        PROVE  /\ clock'[v] = clock[v] + 1
               /\ clock'[v] <= Deadline(v)
               /\ WorkerExists(v) => workerAge'[v] <= workerAge[v] + 1
    <3>1. clock[v] < Deadline(v)
      BY <1>41, <2>2 DEF PassTime
    <3>2. clock[v] \in Nat /\ Deadline(v) \in Nat /\ Deadline(v) <= MaxClock
      BY DEF MaxClock
    <3>3. clock'[v] = clock[v] + 1
      BY <1>41, <2>2, <3>1, <3>2 DEF PassTime, MaxClock
    <3>4. WorkerExists(v) => workerAge'[v] <= workerAge[v] + 1
      BY <1>41 DEF PassTime, Tick, Older, MaxAge, DeleteAfter
    <3> HIDE DEF Deadline
    <3> QED
      BY <3>1, <3>2, <3>3, <3>4
  <2>3. /\ Owns(v)' = Owns(v) /\ WorkerExists(v)' = WorkerExists(v)
        /\ Deadline(v)' = Deadline(v) /\ Margin(v)' = Margin(v)
    BY <2>1
  <2>4. clock[v] \in Nat /\ workerAge[v] \in Nat /\ workerAge'[v] \in Nat /\ Margin(v) \in Nat
    BY <1>41 DEF PassTime, Tick, Older, MaxAge, DeleteAfter
  <2>5. Leased(v)
    OBVIOUS
  <2> HIDE DEF Owns, WorkerExists, Deadline, Margin, Timed, Working, LeaseInv
  <2> QED
    BY <2>1, <2>2, <2>3, <2>4, <2>5
<1>42. ASSUME Shutdown
       PROVE  Kept
  BY <1>42 DEF Shutdown
<1>43. ASSUME Restart
       PROVE  Kept
  BY <1>43 DEF Restart
<1>44. ASSUME Crash
       PROVE  Kept
  BY <1>44 DEF Crash
<1>45. ASSUME UNCHANGED vars
       PROVE  Kept
  BY <1>45 DEF vars
<1> QED
  BY <1>1, <1>2, <1>3, <1>4, <1>5, <1>6, <1>7, <1>8, <1>9, <1>10, <1>11, <1>12,
     <1>13, <1>14, <1>15, <1>16, <1>17, <1>18, <1>19, <1>20, <1>21, <1>22,
     <1>23, <1>24, <1>25, <1>26, <1>27, <1>28, <1>29, <1>30, <1>31, <1>32,
     <1>33, <1>34, <1>35, <1>36, <1>37, <1>38, <1>39, <1>40, <1>41, <1>42,
     <1>43, <1>44, <1>45
     DEF Next, PassNext, DispatcherStep, GoroutineStep, OperatorNext, HandlerStep

\* The promise of the heartbeats, for a supervisor that no operator interferes
\* with: if the timers are punctual and one lease covers a set-up, two missed
\* heartbeat intervals and two persist budgets, an attempt keeps its claim from
\* launch to verdict, and two attempts never work on one task.
THEOREM LeasesHold == BudgetsFit /\ Spec => []WorkersKeepTheirClaims
<1> DEFINE Inv == BudgetsFit /\ StoreInv /\ ControlTypeOK /\ LeaseInv
<1>1. BudgetsFit /\ Init => Inv
  <2>1. Init => LeaseInv
    BY DEF Init, LeaseInv, Leased, Working, Timed
  <2> QED
    BY <2>1, InitialState
<1>2. Inv /\ [Next]_vars => Inv'
  BY ControlStep, StoreStep, StoreInductive, LeaseStep DEF StoreInv, BudgetsFit
<1>3. Inv => WorkersKeepTheirClaims
  BY DEF LeaseInv, Leased, WorkersKeepTheirClaims
<1> QED
  BY <1>1, <1>2, <1>3, PTL DEF Spec
=============================================================================
