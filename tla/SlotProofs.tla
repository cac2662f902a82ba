----------------------------- MODULE SlotProofs -----------------------------
(***************************************************************************)
(* The dispatch semaphore and the type invariant of the supervisor.        *)
(*                                                                         *)
(* That slots never leaves 0..MaxParallel is no fact about types: a return *)
(* that gave a token back twice would take it below zero, and it can be    *)
(* excluded only by counting the attempts under way.  Hence the inductive  *)
(* invariant has the count, and the finiteness that makes it one: no       *)
(* assumption says that worker ids are finite in number.                   *)
(***************************************************************************)
EXTENDS DispatchProofs, FiniteSetTheorems

\* The attempts under way: each holds one token of dispatchSem.
Under == InDispatcher \cup InGoroutine
Holders == {w \in Worker : pc[w] \in Under}

SlotInv ==
  /\ IsFiniteSet(Holders)
  /\ slots = Cardinality(Holders)
  /\ slots <= MaxParallel

\* What a step can do to the semaphore and to the attempts.
Kept == slots' = slots /\ Holders' = Holders

Taken == \E w \in Worker : /\ w \notin Holders /\ Holders' = Holders \cup {w}
                           /\ slots' = slots + 1 /\ slots < MaxParallel

Returned == \E w \in Worker : /\ w \in Holders /\ Holders' = Holders \ {w}
                              /\ slots' = slots - 1

Dropped == slots' = 0 /\ Holders' = {}

\* Every early return and every error path included, a step takes one token with
\* the attempt it admits, returns one with the attempt it ends, or neither.
LEMMA SlotEffect ==
  ASSUME ControlTypeOK, [Next]_vars
  PROVE  Kept \/ Taken \/ Returned \/ Dropped
<1> USE DispatchAssumption, NullAssumption
    DEF ControlTypeOK, Phases, InDispatcher, InGoroutine, Working, Under, Holders,
        passVars, attemptVars, operatorVars, processVars, controlVars
<1>1. ASSUME BeginRound
       PROVE  Kept
  BY <1>1 DEF BeginRound, DispatchFrame, Kept
<1>2. ASSUME NEW p \in Plan, BeginPass(p)
       PROVE  Kept
  BY <1>2 DEF BeginPass, DispatchFrame, Kept
<1>3. ASSUME NEW t \in Task, GateRefuses(t)
       PROVE  Kept
  BY <1>3 DEF GateRefuses, DispatchFrame, Kept
<1>4. ASSUME NEW t \in Task, GateClears(t)
       PROVE  Kept
  BY <1>4 DEF GateClears, DispatchFrame, Kept
<1>5. ASSUME NEW t \in Task, NEW w \in Worker, Admit(w, t)
       PROVE  Taken
  BY <1>5 DEF Admit, Goto, DispatchFrame, SlotFree, Taken
<1>6. ASSUME AbandonPass
       PROVE  Kept
  BY <1>6 DEF AbandonPass, DispatchFrame, Kept
<1>7. ASSUME NEW w \in Worker, RefuseAdmission(w)
       PROVE  Returned
  BY <1>7 DEF RefuseAdmission, Goto, DispatchFrame, Returned
<1>8. ASSUME NEW w \in Worker, SpawnSession(w)
       PROVE  Kept
  BY <1>8 DEF SpawnSession, DispatchFrame, Kept
<1>9. ASSUME NEW w \in Worker, SpawnWorker(w)
       PROVE  Kept
  BY <1>9 DEF SpawnWorker, Step, DispatchFrame, Goto, Kept
<1>10. ASSUME NEW w \in Worker, SpawnFails(w)
       PROVE  Returned
  BY <1>10 DEF SpawnFails, Finish, DispatchFrame, Goto, Returned
<1>11. ASSUME NEW w \in Worker, ClaimStep(w)
       PROVE  Kept
  BY <1>11 DEF ClaimStep, DispatchFrame, Kept
<1>12. ASSUME NEW w \in Worker, LoseClaim(w)
       PROVE  Returned
  BY <1>12 DEF LoseClaim, Finish, ReleaseRow, DispatchFrame, Goto, Returned
<1>13. ASSUME NEW w \in Worker, ClaimFails(w)
       PROVE  Returned
  BY <1>13 DEF ClaimFails, Finish, ReleaseRow, DispatchFrame, Goto, Returned
<1>14. ASSUME NEW w \in Worker, Launch(w)
       PROVE  Kept
  BY <1>14 DEF Launch, Step, DispatchFrame, Goto, Kept
<1>15. ASSUME NEW w \in Worker, LaunchFails(w)
       PROVE  Returned
  BY <1>15 DEF LaunchFails, Finish, DispatchFrame, Goto, Returned
<1>16. ASSUME NEW w \in Worker, StartTurn(w)
       PROVE  Kept
  BY <1>16 DEF StartTurn, Step, GoroutineFrame, TurnFrame, Goto, Kept
<1>17. ASSUME NEW w \in Worker, SetupFails(w)
       PROVE  Returned
  BY <1>17 DEF SetupFails, Finish, GoroutineFrame, TurnFrame, Goto, Returned
<1>18. ASSUME NEW w \in Worker, NEW out \in TurnOutcomes, EndTurn(w, out)
       PROVE  Kept
  BY <1>18 DEF EndTurn, Goto, TurnFrame, Kept
<1>19. ASSUME NEW w \in Worker, RecordTurn(w)
       PROVE  Kept
  BY <1>19 DEF RecordTurn, GoroutineFrame, TurnFrame, Kept
<1>20. ASSUME NEW w \in Worker, RecordFails(w)
       PROVE  Returned
  BY <1>20 DEF RecordFails, Finish, GoroutineFrame, TurnFrame, Goto, Returned
<1>21. ASSUME NEW w \in Worker, ReportFailure(w)
       PROVE  Kept
  BY <1>21 DEF ReportFailure, Step, GoroutineFrame, TurnFrame, Goto, Kept
<1>22. ASSUME NEW w \in Worker, BeginCheck(w)
       PROVE  Kept
  BY <1>22 DEF BeginCheck, Goto, GoroutineFrame, TurnFrame, Kept
<1>23. ASSUME NEW w \in Worker, NEW verdict \in {"pass", "reject"}, EndCheck(w, verdict)
       PROVE  Kept
  BY <1>23 DEF EndCheck, Goto, GoroutineFrame, TurnFrame, Kept
<1>24. ASSUME NEW w \in Worker, LoseVerdict(w)
       PROVE  Kept
  BY <1>24 DEF LoseVerdict, Step, GoroutineFrame, TurnFrame, Goto, Kept
<1>25. ASSUME NEW w \in Worker, MarkVerdict(w)
       PROVE  Kept
  BY <1>25 DEF MarkVerdict, Step, GoroutineFrame, TurnFrame, Goto, Kept
<1>26. ASSUME NEW w \in Worker, RecoverPanic(w)
       PROVE  Kept
  BY <1>26 DEF RecoverPanic, Step, GoroutineFrame, TurnFrame, Goto, Kept
<1>27. ASSUME NEW w \in Worker, EndAttempt(w)
       PROVE  Returned
  BY <1>27 DEF EndAttempt, Finish, ReleaseRow, GoroutineFrame, TurnFrame, Goto, Returned
<1>28. ASSUME NEW w \in Worker, BeatTurn(w)
       PROVE  Kept
  BY <1>28 DEF BeatTurn, Beat, GoroutineFrame, TurnFrame, Kept
<1>29. ASSUME NEW w \in Worker, BeatCheck(w)
       PROVE  Kept
  BY <1>29 DEF BeatCheck, Beat, GoroutineFrame, TurnFrame, Kept
<1>30. ASSUME NEW w \in Worker, Panic(w)
       PROVE  Kept
  BY <1>30 DEF Panic, Step, TurnFrame, Goto, Kept
<1>31. ASSUME NEW p \in Plan, HandlePlanImport(p)
       PROVE  Kept
  BY <1>31 DEF HandlePlanImport, Kept
<1>32. ASSUME NEW p \in Plan, NEW st \in {"active", "stopped"}, HandlePlanSetStatus(p, st)
       PROVE  Kept
  BY <1>32 DEF HandlePlanSetStatus, Kept
<1>33. ASSUME NEW t \in Task, HandleTaskApprove(t)
       PROVE  Kept
  BY <1>33 DEF HandleTaskApprove, Kept
<1>34. ASSUME NEW w \in Worker, KillProcess(w)
       PROVE  Kept
  BY <1>34 DEF KillProcess, KillWorker, OperatorFrame, Kept
<1>35. ASSUME NEW p \in Plan, ListPlanWorkers(p)
       PROVE  Kept
  BY <1>35 DEF ListPlanWorkers, OperatorFrame, Kept
<1>36. ASSUME NEW t \in Task, FixDeclaration(t)
       PROVE  Kept
  BY <1>36 DEF FixDeclaration, Kept
<1>37. ASSUME KillRow
       PROVE  Kept
  BY <1>37 DEF KillRow, OperatorFrame, Kept
<1>38. ASSUME NEW w \in Worker, KillListed(w)
       PROVE  Kept
  BY <1>38 DEF KillListed, KillWorker, OperatorFrame, Kept
<1>39. ASSUME NEW p \in Plan, DeleteListed(p)
       PROVE  Kept
  BY <1>39 DEF DeleteListed, OperatorFrame, Kept
<1>40. ASSUME Reap
       PROVE  Kept
  BY <1>40 DEF Reap, Kept
<1>41. ASSUME PassTime
       PROVE  Kept
  BY <1>41 DEF PassTime, Kept
<1>42. ASSUME Shutdown
       PROVE  Kept
  BY <1>42 DEF Shutdown, Kept
<1>43. ASSUME Restart
       PROVE  Kept
  BY <1>43 DEF Restart, Kept
<1>44. ASSUME Crash
       PROVE  Dropped
  BY <1>44 DEF Crash, Dropped
<1>45. ASSUME UNCHANGED vars
       PROVE  Kept
  BY <1>45 DEF vars, Kept
<1> QED
  BY <1>1, <1>2, <1>3, <1>4, <1>5, <1>6, <1>7, <1>8, <1>9, <1>10, <1>11, <1>12,
     <1>13, <1>14, <1>15, <1>16, <1>17, <1>18, <1>19, <1>20, <1>21, <1>22,
     <1>23, <1>24, <1>25, <1>26, <1>27, <1>28, <1>29, <1>30, <1>31, <1>32,
     <1>33, <1>34, <1>35, <1>36, <1>37, <1>38, <1>39, <1>40, <1>41, <1>42,
     <1>43, <1>44, <1>45
     DEF Next, PassNext, DispatcherStep, GoroutineStep, OperatorNext, HandlerStep

\* So the count is kept.
LEMMA SlotStep == SlotInv /\ ControlTypeOK /\ [Next]_vars => SlotInv'
<1> SUFFICES ASSUME SlotInv, ControlTypeOK, [Next]_vars
             PROVE  SlotInv'
  OBVIOUS
<1> USE DispatchAssumption DEF SlotInv
<1>1. Cardinality(Holders) \in Nat
  BY FS_CardinalityType
<1>2. CASE Kept
  BY <1>2 DEF Kept
<1>3. CASE Taken
  <2>1. PICK w \in Worker : /\ w \notin Holders /\ Holders' = Holders \cup {w}
                            /\ slots' = slots + 1 /\ slots < MaxParallel
    BY <1>3 DEF Taken
  <2>2. /\ IsFiniteSet(Holders \cup {w})
        /\ Cardinality(Holders \cup {w}) = Cardinality(Holders) + 1
    BY <2>1, FS_AddElement
  <2> QED
    BY <1>1, <2>1, <2>2
<1>4. CASE Returned
  <2>1. PICK w \in Worker : /\ w \in Holders /\ Holders' = Holders \ {w}
                            /\ slots' = slots - 1
    BY <1>4 DEF Returned
  <2>2. /\ IsFiniteSet(Holders \ {w})
        /\ Cardinality(Holders \ {w}) = Cardinality(Holders) - 1
    BY <2>1, FS_RemoveElement
  <2> QED
    BY <1>1, <2>1, <2>2
<1>5. CASE Dropped
  BY <1>5, FS_EmptySet DEF Dropped
<1> QED
  BY <1>2, <1>3, <1>4, <1>5, SlotEffect

\* The rest of the type invariant: every variable but the semaphore.
Domains ==
  /\ round \subseteq Plan
  /\ pass \subseteq Task
  /\ outcome \in [Worker -> Outcomes]
  /\ clock \in [Worker -> 0..MaxClock]
  /\ cancelled \subseteq Worker
  /\ stopping \in BOOLEAN
  /\ restarts \in 0..MaxRestarts
  /\ deleting \subseteq Plan
  /\ doomed \subseteq Worker
  /\ escaping \subseteq Undispatchable
  /\ unmet \subseteq Undispatchable

\* The bound on the clocks is a number.
LEMMA MaxClockNat == MaxClock \in Nat /\ 0 \in 0..MaxClock
<1>1. SetupBudget \in Nat /\ BeatEvery \in Nat /\ PersistBudget \in Nat
  BY DispatchAssumption
<1> QED
  BY <1>1 DEF MaxClock

\* Every step keeps those variables in their domains.
LEMMA DomainStep ==
  ASSUME ControlTypeOK, Domains, [Next]_vars
  PROVE  Domains'
<1> USE DispatchAssumption, MaxClockNat
    DEF ControlTypeOK, Domains, Outcomes, TurnOutcomes,
        passVars, attemptVars, operatorVars, processVars, gateVars, controlVars
<1>1. ASSUME BeginRound
       PROVE  Domains'
  BY <1>1 DEF BeginRound, DispatchFrame
<1>2. ASSUME NEW p \in Plan, BeginPass(p)
       PROVE  Domains'
  BY <1>2 DEF BeginPass, DispatchFrame, ReadyPartitions, TasksOf
<1>3. ASSUME NEW t \in Task, GateRefuses(t)
       PROVE  Domains'
  BY <1>3 DEF GateRefuses, DispatchFrame
<1>4. ASSUME NEW t \in Task, GateClears(t)
       PROVE  Domains'
  BY <1>4 DEF GateClears, DispatchFrame
<1>5. ASSUME NEW t \in Task, NEW w \in Worker, Admit(w, t)
       PROVE  Domains'
  BY <1>5 DEF Admit, Goto, DispatchFrame
<1>6. ASSUME AbandonPass
       PROVE  Domains'
  BY <1>6 DEF AbandonPass, DispatchFrame
<1>7. ASSUME NEW w \in Worker, RefuseAdmission(w)
       PROVE  Domains'
  BY <1>7 DEF RefuseAdmission, Goto, DispatchFrame
<1>8. ASSUME NEW w \in Worker, SpawnSession(w)
       PROVE  Domains'
  BY <1>8 DEF SpawnSession, DispatchFrame
<1>9. ASSUME NEW w \in Worker, SpawnWorker(w)
       PROVE  Domains'
  BY <1>9 DEF SpawnWorker, Step, DispatchFrame, Goto
<1>10. ASSUME NEW w \in Worker, SpawnFails(w)
       PROVE  Domains'
  BY <1>10 DEF SpawnFails, Finish, DispatchFrame, Goto
<1>11. ASSUME NEW w \in Worker, ClaimStep(w)
       PROVE  Domains'
  BY <1>11 DEF ClaimStep, DispatchFrame
<1>12. ASSUME NEW w \in Worker, LoseClaim(w)
       PROVE  Domains'
  BY <1>12 DEF LoseClaim, Finish, ReleaseRow, DispatchFrame, Goto
<1>13. ASSUME NEW w \in Worker, ClaimFails(w)
       PROVE  Domains'
  BY <1>13 DEF ClaimFails, Finish, ReleaseRow, DispatchFrame, Goto
<1>14. ASSUME NEW w \in Worker, Launch(w)
       PROVE  Domains'
  BY <1>14 DEF Launch, Step, DispatchFrame, Goto
<1>15. ASSUME NEW w \in Worker, LaunchFails(w)
       PROVE  Domains'
  BY <1>15 DEF LaunchFails, Finish, DispatchFrame, Goto
<1>16. ASSUME NEW w \in Worker, StartTurn(w)
       PROVE  Domains'
  BY <1>16 DEF StartTurn, Step, GoroutineFrame, TurnFrame, Goto
<1>17. ASSUME NEW w \in Worker, SetupFails(w)
       PROVE  Domains'
  BY <1>17 DEF SetupFails, Finish, GoroutineFrame, TurnFrame, Goto
<1>18. ASSUME NEW w \in Worker, NEW out \in TurnOutcomes, EndTurn(w, out)
       PROVE  Domains'
  BY <1>18 DEF EndTurn, Goto, TurnFrame
<1>19. ASSUME NEW w \in Worker, RecordTurn(w)
       PROVE  Domains'
  BY <1>19 DEF RecordTurn, GoroutineFrame, TurnFrame
<1>20. ASSUME NEW w \in Worker, RecordFails(w)
       PROVE  Domains'
  BY <1>20 DEF RecordFails, Finish, GoroutineFrame, TurnFrame, Goto
<1>21. ASSUME NEW w \in Worker, ReportFailure(w)
       PROVE  Domains'
  BY <1>21 DEF ReportFailure, Step, GoroutineFrame, TurnFrame, Goto
<1>22. ASSUME NEW w \in Worker, BeginCheck(w)
       PROVE  Domains'
  BY <1>22 DEF BeginCheck, Goto, GoroutineFrame, TurnFrame
<1>23. ASSUME NEW w \in Worker, NEW verdict \in {"pass", "reject"}, EndCheck(w, verdict)
       PROVE  Domains'
  BY <1>23 DEF EndCheck, Goto, GoroutineFrame, TurnFrame
<1>24. ASSUME NEW w \in Worker, LoseVerdict(w)
       PROVE  Domains'
  BY <1>24 DEF LoseVerdict, Step, GoroutineFrame, TurnFrame, Goto
<1>25. ASSUME NEW w \in Worker, MarkVerdict(w)
       PROVE  Domains'
  BY <1>25 DEF MarkVerdict, Step, GoroutineFrame, TurnFrame, Goto
<1>26. ASSUME NEW w \in Worker, RecoverPanic(w)
       PROVE  Domains'
  BY <1>26 DEF RecoverPanic, Step, GoroutineFrame, TurnFrame, Goto
<1>27. ASSUME NEW w \in Worker, EndAttempt(w)
       PROVE  Domains'
  BY <1>27 DEF EndAttempt, Finish, ReleaseRow, GoroutineFrame, TurnFrame, Goto
<1>28. ASSUME NEW w \in Worker, BeatTurn(w)
       PROVE  Domains'
  BY <1>28 DEF BeatTurn, Beat, GoroutineFrame, TurnFrame
<1>29. ASSUME NEW w \in Worker, BeatCheck(w)
       PROVE  Domains'
  BY <1>29 DEF BeatCheck, Beat, GoroutineFrame, TurnFrame
<1>30. ASSUME NEW w \in Worker, Panic(w)
       PROVE  Domains'
  BY <1>30 DEF Panic, Step, TurnFrame, Goto
<1>31. ASSUME NEW p \in Plan, HandlePlanImport(p)
       PROVE  Domains'
  BY <1>31 DEF HandlePlanImport
<1>32. ASSUME NEW p \in Plan, NEW st \in {"active", "stopped"}, HandlePlanSetStatus(p, st)
       PROVE  Domains'
  BY <1>32 DEF HandlePlanSetStatus
<1>33. ASSUME NEW t \in Task, HandleTaskApprove(t)
       PROVE  Domains'
  BY <1>33 DEF HandleTaskApprove
<1>34. ASSUME NEW w \in Worker, KillProcess(w)
       PROVE  Domains'
  BY <1>34 DEF KillProcess, KillWorker, OperatorFrame
<1>35. ASSUME NEW p \in Plan, ListPlanWorkers(p)
       PROVE  Domains'
  BY <1>35 DEF ListPlanWorkers, OperatorFrame
<1>36. ASSUME NEW t \in Task, FixDeclaration(t)
       PROVE  Domains'
  BY <1>36 DEF FixDeclaration
<1>37. ASSUME KillRow
       PROVE  Domains'
  BY <1>37 DEF KillRow, OperatorFrame
<1>38. ASSUME NEW w \in Worker, KillListed(w)
       PROVE  Domains'
  BY <1>38 DEF KillListed, KillWorker, OperatorFrame
<1>39. ASSUME NEW p \in Plan, DeleteListed(p)
       PROVE  Domains'
  BY <1>39 DEF DeleteListed, OperatorFrame
<1>40. ASSUME Reap
       PROVE  Domains'
  BY <1>40 DEF Reap
<1>41. ASSUME PassTime
       PROVE  Domains'
  BY <1>41 DEF PassTime
<1>42. ASSUME Shutdown
       PROVE  Domains'
  BY <1>42 DEF Shutdown
<1>43. ASSUME Restart
       PROVE  Domains'
  BY <1>43 DEF Restart
<1>44. ASSUME Crash
       PROVE  Domains'
  <2>1. restarts' \in 0..MaxRestarts
    BY <1>44 DEF Crash
  <2>2. clock' \in [Worker -> 0..MaxClock]
    BY <1>44 DEF Crash
  <2>3. outcome' \in [Worker -> Outcomes]
    BY <1>44 DEF Crash
  <2> QED
    BY <1>44, <2>1, <2>2, <2>3 DEF Crash
<1>45. ASSUME UNCHANGED vars
       PROVE  Domains'
  BY <1>45 DEF vars
<1> QED
  BY <1>1, <1>2, <1>3, <1>4, <1>5, <1>6, <1>7, <1>8, <1>9, <1>10, <1>11, <1>12,
     <1>13, <1>14, <1>15, <1>16, <1>17, <1>18, <1>19, <1>20, <1>21, <1>22,
     <1>23, <1>24, <1>25, <1>26, <1>27, <1>28, <1>29, <1>30, <1>31, <1>32,
     <1>33, <1>34, <1>35, <1>36, <1>37, <1>38, <1>39, <1>40, <1>41, <1>42,
     <1>43, <1>44, <1>45
     DEF Next, PassNext, DispatcherStep, GoroutineStep, OperatorNext, HandlerStep

\* In every reachable state the semaphore and all domains are in order.
LEMMA SlotInvariant == Spec => [](ControlTypeOK /\ SlotInv /\ Domains)
<1>1. Init => ControlTypeOK /\ SlotInv /\ Domains
  <2> SUFFICES ASSUME Init
               PROVE  ControlTypeOK /\ SlotInv /\ Domains
    OBVIOUS
  <2>1. ControlTypeOK
    BY InitialState
  <2>2. Holders = {}
    BY DEF Init, Holders, Under, InDispatcher, InGoroutine
  <2>3. SlotInv
    BY <2>2, FS_EmptySet, DispatchAssumption DEF Init, SlotInv
  <2>4. restarts \in 0..MaxRestarts
    BY DispatchAssumption DEF Init
  <2>5. Domains
    BY <2>4, MaxClockNat DEF Init, Domains, Outcomes
  <2> QED
    BY <2>1, <2>3, <2>5
<1>2. StoreInv /\ ControlTypeOK /\ SlotInv /\ Domains /\ [Next]_vars
        => ControlTypeOK' /\ SlotInv' /\ Domains'
  BY ControlStep, SlotStep, DomainStep DEF StoreInv
<1>3. Spec => []StoreInv
  BY SupervisorInvariant, PTL
<1> QED
  BY <1>1, <1>2, <1>3, PTL DEF Spec

\* No path loses a dispatch slot and none returns one twice, for any number of
\* workers, plans, faults, panics, shutdowns and crashes: dispatchSem always
\* holds one token per attempt under way.
THEOREM SlotsAreExact == Spec => []SlotsMatchAttempts
<1>1. SlotInv => SlotsMatchAttempts
  BY DEF SlotInv, SlotsMatchAttempts, Holders, Under
<1> QED
  BY <1>1, SlotInvariant, PTL

\* Type correctness of the supervisor, with the two bounds that matter: at most
\* MaxParallel attempts are under way, and no more tokens are returned than were
\* taken.
THEOREM DispatchTypeCorrect == Spec => []DispatchTypeOK
<1>1. ControlTypeOK /\ SlotInv /\ Domains => DispatchTypeOK
  <2> SUFFICES ASSUME ControlTypeOK, SlotInv, Domains
               PROVE  DispatchTypeOK
    OBVIOUS
  <2>1. slots \in 0..MaxParallel
    BY FS_CardinalityType, DispatchAssumption DEF SlotInv
  <2> QED
    BY <2>1 DEF ControlTypeOK, Domains, DispatchTypeOK
<1> QED
  BY <1>1, SlotInvariant, PTL
=============================================================================
