------------------------------ MODULE FanProofs ------------------------------
(***************************************************************************)
(* Theorems about the fan-out groups, for every set of tasks, workers and  *)
(* sessions, every cap and any number of faults.                           *)
(*                                                                         *)
(* FanImplementsStore: whatever a group does to the store is a step of     *)
(* StoreSpec.  On top of StoreInv the inductive invariant has four parts:  *)
(* the domains and the plan of a group's tasks (FanDomains), the count of  *)
(* slots and reservations (FanCount), who can be about to bill the capped  *)
(* provider (SpendInv), and which tasks a group can own in each phase      *)
(* (HoldInv).                                                              *)
(***************************************************************************)
EXTENDS FanOut, TaskStoreProofs, FiniteSetTheorems

\* What a group keeps of its turn.
TurnEnds == [ok : BOOLEAN, budget : {0, MaxRetries}, usd : 0..MaxTurnUSD]

\* Every variable of a group in its domain; a group's tasks are of its plan.
FanDomains ==
  /\ fan \in [Worker -> FanPhases]
  /\ todo \in [Worker -> SUBSET TasksOf(GroupPlan)]
  /\ mine \in [Worker -> SUBSET TasksOf(GroupPlan)]
  /\ lost \in [Worker -> SUBSET Task]
  /\ turnEnd \in [Worker -> TurnEnds]
  /\ uncapped \subseteq {w \in Worker : fan[w] \in Reserving}
  /\ spent \in Nat
  /\ faults \in Nat

\* The groups that hold a token of dispatchSem, and a reservation.
FanHolders == {w \in Worker : fan[w] \in FanDispatching \cup FanRunning}
Reservers  == {w \in Worker \ uncapped : fan[w] \in Reserving}

FanCount ==
  /\ IsFiniteSet(FanHolders) /\ fanSlots = Cardinality(FanHolders)
  /\ IsFiniteSet(Reservers) /\ capInFlight = Cardinality(Reservers)

\* The groups whose turn has not been billed yet.
BeforeRecord == {"reserved", "session", "claiming", "setup", "turn", "record"}

\* One capped group at a time may still bill, it was admitted under the cap, and
\* what an uncapped one has billed is not the capped provider's.
SpendInv ==
  /\ \A v, w \in Reservers : v = w
  /\ \A w \in Reservers : fan[w] \in BeforeRecord => spent < CapUSD
  /\ \A w \in uncapped : fan[w] = "record" => turnEnd[w].usd = 0
  /\ spent < CapUSD + MaxTurnUSD

\* A stored plan has all its task rows.
PlansHaveTasks ==
  \A t \in Task : status[t] = "absent" => planStatus[PlanOf[t]] \in {"absent", "deleted"}

\* The tasks a group can own, by phase.  Once a release has failed (a second
\* fault, if it was a fault that began the loop) nothing is known of them.
Holds(w, t) ==
  /\ fan[w] \notin {"unused", "slot", "reserved", "session"}
  /\ fan[w] \in FanRunning \cup {"claiming"} => t \in mine[w]
  /\ fan[w] \in {"failing", "refusing"} => t \in todo[w]
  /\ fan[w] = "verifying" => t \in todo[w] \cup lost[w]
  /\ fan[w] = "releasing" => faults # 0
  /\ fan[w] \in {"releasing", "recovering"} /\ faults <= 1 => t \in todo[w]
  /\ fan[w] = "aborted" => faults > 1
  /\ fan[w] = "done" => t \in lost[w] \/ faults > 1

HoldInv ==
  /\ \A w \in Worker : fan[w] = "recovering" => faults > 0
  /\ \A w \in Worker, t \in Task : FanOwns(w, t) => Holds(w, t)

\* What the steps write to turnEnd is in its domain.
LEMMA TurnEndTypes ==
  /\ NoTurn \in TurnEnds
  /\ TurnOutcomes \subseteq TurnEnds
  /\ \A e \in TurnEnds : /\ [e EXCEPT !.usd = 0] \in TurnEnds
                         /\ \A b \in {0, MaxRetries} : [e EXCEPT !.budget = b] \in TurnEnds
<1> USE FanAssumption, TimeAssumption
<1>1. NoTurn \in TurnEnds /\ TurnOutcomes \subseteq TurnEnds
  BY DEF NoTurn, TurnEnds, TurnOutcomes
<1>2. ASSUME NEW e \in TurnEnds, NEW b \in {0, MaxRetries}
      PROVE  [e EXCEPT !.usd = 0] \in TurnEnds /\ [e EXCEPT !.budget = b] \in TurnEnds
  BY <1>2 DEF TurnEnds
<1> QED
  BY <1>1, <1>2

LEMMA TurnEndUpdates ==
  ASSUME turnEnd \in [Worker -> TurnEnds], NEW w \in Worker,
         \/ turnEnd' = [turnEnd EXCEPT ![w].usd = 0]
         \/ \E b \in {0, MaxRetries} : turnEnd' = [turnEnd EXCEPT ![w].budget = b]
  PROVE  turnEnd' \in [Worker -> TurnEnds]
<1>1. turnEnd[w] \in TurnEnds
  OBVIOUS
<1>2. CASE turnEnd' = [turnEnd EXCEPT ![w].usd = 0]
  <2> DEFINE n == [turnEnd[w] EXCEPT !.usd = 0]
  <2>1. n \in TurnEnds
    BY <1>1, TurnEndTypes
  <2>2. turnEnd' = [turnEnd EXCEPT ![w] = n]
    BY <1>2
  <2> HIDE DEF n
  <2> QED
    BY <2>1, <2>2
<1>3. ASSUME NEW b \in {0, MaxRetries}, turnEnd' = [turnEnd EXCEPT ![w].budget = b]
      PROVE  turnEnd' \in [Worker -> TurnEnds]
  <2> DEFINE n == [turnEnd[w] EXCEPT !.budget = b]
  <2>1. n \in TurnEnds
    BY <1>1, TurnEndTypes
  <2>2. turnEnd' = [turnEnd EXCEPT ![w] = n]
    BY <1>3
  <2> HIDE DEF n
  <2> QED
    BY <2>1, <2>2
<1> QED
  BY <1>2, <1>3

\* Every step keeps a group's variables in their domains.
LEMMA FanDomainsStep ==
  ASSUME FanDomains, [FanNext]_fanVars
  PROVE  FanDomains'
<1> USE FanAssumption, TurnEndTypes
    DEF FanDomains, FanPhases, FanDispatching, FanRunning, Reserving
<1>1. ASSUME NEW w \in Worker, BeginGroup(w)
      PROVE  FanDomains'
  BY <1>1 DEF BeginGroup, Loop, CoalescableSteps, ReadyPartitions
<1>2. ASSUME NEW w \in Worker, RefuseGroup(w)
      PROVE  FanDomains'
  BY <1>2 DEF RefuseGroup, Loop
<1>3. ASSUME NEW w \in Worker, CheckSpendCap(w)
      PROVE  FanDomains'
  BY <1>3 DEF CheckSpendCap, Loop, CapAdmits
<1>4. ASSUME NEW w \in Worker, SpawnFanSession(w)
      PROVE  FanDomains'
  BY <1>4 DEF SpawnFanSession, KeepSlot, NoFault
<1>5. ASSUME NEW w \in Worker, SpawnFanWorker(w)
      PROVE  FanDomains'
  BY <1>5 DEF SpawnFanWorker, KeepSlot, NoFault
<1>6. ASSUME NEW w \in Worker, SpawnFanFails(w)
      PROVE  FanDomains'
  BY <1>6 DEF SpawnFanFails, Fault, LeaveGroup, Loop, ReleaseFanoutSlot
<1>7. ASSUME NEW w \in Worker, NEW t \in Task, ClaimMember(w, t)
      PROVE  FanDomains'
  BY <1>7 DEF ClaimMember, Continue, KeepSlot, NoFault
<1>8. ASSUME NEW w \in Worker, AbortClaims(w)
      PROVE  FanDomains'
  BY <1>8 DEF AbortClaims, FaultOr, Fault, NoFault, Loop, ReleaseFanoutSlot
<1>9. ASSUME NEW w \in Worker, NEW t \in Task, ReleaseMember(w, t)
      PROVE  FanDomains'
  BY <1>9 DEF ReleaseMember, Continue, KeepSlot, NoFault, Fault
<1>10. ASSUME NEW w \in Worker, EndRelease(w)
      PROVE  FanDomains'
  BY <1>10 DEF EndRelease, ClearFanRow, LeaveGroup, Loop, KeepSlot, NoFault, Fault
<1>11. ASSUME NEW w \in Worker, NothingClaimed(w)
      PROVE  FanDomains'
  BY <1>11 DEF NothingClaimed, ClearFanRow, LeaveGroup, Loop, ReleaseFanoutSlot,
       NoFault, Fault
<1>12. ASSUME NEW w \in Worker, LaunchGroup(w)
      PROVE  FanDomains'
  BY <1>12 DEF LaunchGroup, Loop, KeepSlot, NoFault
<1>13. ASSUME NEW w \in Worker, SetupGroup(w)
      PROVE  FanDomains'
  BY <1>13 DEF SetupGroup, Loop, Lapse, LeaveGroup, ReleaseFanoutSlot, KeepSlot,
       NoFault, Fault
<1>14. ASSUME NEW w \in Worker, RefuseContainment(w)
      PROVE  FanDomains'
  <2>1. turnEnd' \in [Worker -> TurnEnds]
    BY <1>14, TurnEndUpdates DEF RefuseContainment
  <2>2. fan' = [fan EXCEPT ![w] = "refusing"] /\ todo' = [todo EXCEPT ![w] = mine[w]]
    BY <1>14 DEF RefuseContainment, Loop
  <2>3. UNCHANGED <<mine, lost, uncapped, spent, faults>>
    BY <1>14 DEF RefuseContainment, KeepSlot, NoFault
  <2> QED
    BY <2>1, <2>2, <2>3
<1>15. ASSUME NEW w \in Worker, NEW e \in TurnOutcomes, EndGroupTurn(w, e)
      PROVE  FanDomains'
  BY <1>15 DEF EndGroupTurn, Loop, KeepSlot, NoFault
<1>16. ASSUME NEW w \in Worker, RecordUsage(w)
      PROVE  FanDomains'
  <2>1. CASE FaultOr(~WorkerExists(w)) /\ Lapse(w)
    BY <2>1, <1>16 DEF RecordUsage, FaultOr, Fault, NoFault, Lapse, LeaveGroup, Loop,
       ReleaseFanoutSlot
  <2>2. CASE ~(FaultOr(~WorkerExists(w)) /\ Lapse(w))
    <3>1. turnEnd' \in [Worker -> TurnEnds]
      BY <2>2, <1>16, TurnEndUpdates DEF RecordUsage
    <3>2. turnEnd[w].usd \in Nat
      BY DEF TurnEnds
    <3>3. spent' \in Nat
      BY <2>2, <3>2, <1>16 DEF RecordUsage
    <3>4. fan' = [fan EXCEPT ![w] = "logging"] /\ todo' = [todo EXCEPT ![w] = mine[w]]
      BY <2>2, <1>16 DEF RecordUsage, Loop
    <3>5. UNCHANGED <<mine, lost, uncapped, faults>>
      BY <2>2, <1>16 DEF RecordUsage, KeepSlot, NoFault
    <3> QED
      BY <3>1, <3>3, <3>4, <3>5
  <2> QED
    BY <2>1, <2>2
<1>17. ASSUME NEW w \in Worker, NEW t \in Task, LogMember(w, t)
      PROVE  FanDomains'
  <2>1. CASE FaultOr(~WorkerExists(w) \/ status[t] = "absent") /\ Lapse(w)
    BY <2>1, <1>17 DEF LogMember, FaultOr, Fault, NoFault, Lapse, LeaveGroup, Loop,
       ReleaseFanoutSlot
  <2>2. CASE ~(FaultOr(~WorkerExists(w) \/ status[t] = "absent") /\ Lapse(w))
    BY <2>2, <1>17 DEF LogMember, Continue, KeepSlot, NoFault
  <2> QED
    BY <2>1, <2>2
<1>18. ASSUME NEW w \in Worker, BeginReports(w)
      PROVE  FanDomains'
  BY <1>18 DEF BeginReports, Loop, KeepSlot, NoFault
<1>19. ASSUME NEW w \in Worker, NEW t \in Task, FailMember(w, t)
      PROVE  FanDomains'
  <2>1. CASE Fault /\ Lapse(w)
    BY <2>1, <1>19 DEF FailMember, Fault, Lapse, LeaveGroup, Loop, ReleaseFanoutSlot
  <2>2. CASE ~(Fault /\ Lapse(w))
    BY <2>2, <1>19 DEF FailMember, Continue, KeepSlot, NoFault
  <2> QED
    BY <2>1, <2>2
<1>20. ASSUME NEW w \in Worker, NEW t \in Task, VerifyMember(w, t)
      PROVE  FanDomains'
  BY <1>20 DEF VerifyMember, Continue, KeepSlot, NoFault
<1>21. ASSUME NEW w \in Worker, EndGroup(w)
      PROVE  FanDomains'
  BY <1>21 DEF EndGroup, ClearFanRow, LeaveGroup, Loop, ReleaseFanoutSlot, NoFault,
       Fault
<1>22. ASSUME NEW w \in Worker, PanicGroup(w)
      PROVE  FanDomains'
  BY <1>22 DEF PanicGroup, Loop, Fault, KeepSlot
<1>23. ASSUME NEW w \in Worker, DisplaceGroup(w)
      PROVE  FanDomains'
  BY <1>23 DEF DisplaceGroup, fanControl
<1>24. ASSUME CreatePlanGraph(GroupPlan), UNCHANGED fanControl
      PROVE  FanDomains'
  BY <1>24 DEF fanControl
<1>25. ASSUME DeletePlan(GroupPlan), UNCHANGED fanControl
      PROVE  FanDomains'
  BY <1>25 DEF fanControl
<1>26. ASSUME UNCHANGED fanVars
      PROVE  FanDomains'
  BY <1>26 DEF fanVars, fanControl
<1> QED
  BY <1>1, <1>2, <1>3, <1>4, <1>5, <1>6, <1>7, <1>8, <1>9, <1>10, <1>11, <1>12, <1>13,
       <1>14, <1>15, <1>16, <1>17, <1>18, <1>19, <1>20, <1>21, <1>22, <1>23, <1>24,
       <1>25, <1>26
     DEF FanNext, GroupStep

\* Every step of a group is one call of the store, or leaves the store alone.
LEMMA FanStoreStep ==
  ASSUME FanDomains, [FanNext]_fanVars
  PROVE  [StoreNext]_storeVars
<1> USE FanAssumption DEF FanDomains, StoreNext
<1>1. ASSUME NEW w \in Worker, BeginGroup(w)
      PROVE  UNCHANGED storeVars
  BY <1>1 DEF BeginGroup
<1>2. ASSUME NEW w \in Worker, RefuseGroup(w)
      PROVE  UNCHANGED storeVars
  BY <1>2 DEF RefuseGroup
<1>3. ASSUME NEW w \in Worker, CheckSpendCap(w)
      PROVE  UNCHANGED storeVars
  BY <1>3 DEF CheckSpendCap
<1>4. ASSUME NEW w \in Worker, SpawnFanSession(w)
      PROVE  [StoreNext]_storeVars
  BY <1>4 DEF SpawnFanSession, RowNext
<1>5. ASSUME NEW w \in Worker, SpawnFanWorker(w)
      PROVE  [StoreNext]_storeVars
  BY <1>5 DEF SpawnFanWorker, RowNext
<1>6. ASSUME NEW w \in Worker, SpawnFanFails(w)
      PROVE  UNCHANGED storeVars
  BY <1>6 DEF SpawnFanFails
<1>7. ASSUME NEW w \in Worker, NEW t \in Task, ClaimMember(w, t)
      PROVE  [StoreNext]_storeVars
  BY <1>7 DEF ClaimMember, TaskNext
<1>8. ASSUME NEW w \in Worker, AbortClaims(w)
      PROVE  UNCHANGED storeVars
  BY <1>8 DEF AbortClaims
<1>9. ASSUME NEW w \in Worker, NEW t \in Task, ReleaseMember(w, t)
      PROVE  [StoreNext]_storeVars
  BY <1>9 DEF ReleaseMember, TaskNext
<1>10. ASSUME NEW w \in Worker, EndRelease(w)
      PROVE  [StoreNext]_storeVars
  BY <1>10 DEF EndRelease, ClearFanRow, RowNext
<1>11. ASSUME NEW w \in Worker, NothingClaimed(w)
      PROVE  [StoreNext]_storeVars
  BY <1>11 DEF NothingClaimed, ClearFanRow, RowNext
<1>12. ASSUME NEW w \in Worker, LaunchGroup(w)
      PROVE  [StoreNext]_storeVars
  BY <1>12 DEF LaunchGroup, RowNext, TasksOf
<1>13. ASSUME NEW w \in Worker, SetupGroup(w)
      PROVE  UNCHANGED storeVars
  BY <1>13 DEF SetupGroup, Lapse
<1>14. ASSUME NEW w \in Worker, RefuseContainment(w)
      PROVE  UNCHANGED storeVars
  BY <1>14 DEF RefuseContainment
<1>15. ASSUME NEW w \in Worker, NEW e \in TurnOutcomes, EndGroupTurn(w, e)
      PROVE  UNCHANGED storeVars
  BY <1>15 DEF EndGroupTurn
<1>16. ASSUME NEW w \in Worker, RecordUsage(w)
      PROVE  UNCHANGED storeVars
  BY <1>16 DEF RecordUsage, Lapse
<1>17. ASSUME NEW w \in Worker, NEW t \in Task, LogMember(w, t)
      PROVE  UNCHANGED storeVars
  BY <1>17 DEF LogMember, Lapse
<1>18. ASSUME NEW w \in Worker, BeginReports(w)
      PROVE  UNCHANGED storeVars
  BY <1>18 DEF BeginReports
<1>19. ASSUME NEW w \in Worker, NEW t \in Task, FailMember(w, t)
      PROVE  [StoreNext]_storeVars
  <2>1. turnEnd[w].budget \in {0, MaxRetries}
    BY DEF TurnEnds
  <2> QED
    BY <1>19, <2>1 DEF FailMember, Lapse, TaskNext
<1>20. ASSUME NEW w \in Worker, NEW t \in Task, VerifyMember(w, t)
      PROVE  [StoreNext]_storeVars
  BY <1>20 DEF VerifyMember, TaskNext
<1>21. ASSUME NEW w \in Worker, EndGroup(w)
      PROVE  [StoreNext]_storeVars
  BY <1>21 DEF EndGroup, ClearFanRow, RowNext
<1>22. ASSUME NEW w \in Worker, PanicGroup(w)
      PROVE  UNCHANGED storeVars
  BY <1>22 DEF PanicGroup
<1>23. ASSUME NEW w \in Worker, DisplaceGroup(w)
      PROVE  [StoreNext]_storeVars
  BY <1>23 DEF DisplaceGroup, RowNext
<1>24. ASSUME CreatePlanGraph(GroupPlan), UNCHANGED fanControl
      PROVE  [StoreNext]_storeVars
  BY <1>24 DEF PlanNext
<1>25. ASSUME DeletePlan(GroupPlan), UNCHANGED fanControl
      PROVE  [StoreNext]_storeVars
  BY <1>25 DEF PlanNext
<1>26. ASSUME UNCHANGED fanVars
      PROVE  UNCHANGED storeVars
  BY <1>26 DEF fanVars
<1> QED
  BY <1>1, <1>2, <1>3, <1>4, <1>5, <1>6, <1>7, <1>8, <1>9, <1>10, <1>11, <1>12, <1>13,
       <1>14, <1>15, <1>16, <1>17, <1>18, <1>19, <1>20, <1>21, <1>22, <1>23, <1>24,
       <1>25, <1>26
     DEF FanNext, GroupStep

\* Initially no group has anything.
LEMMA FanInitial == FanInit => StoreInit /\ FanDomains
BY FanAssumption, TurnEndTypes DEF FanInit, FanDomains, FanPhases

\* The domains, and with them the store's invariant, hold in every state.
LEMMA FanDomainInvariant == FanSpec => [](FanDomains /\ StoreInv)
<1>1. FanInit => FanDomains /\ StoreInv
  BY FanInitial, StoreInitial
<1>2. FanDomains /\ StoreInv /\ [FanNext]_fanVars => FanDomains' /\ StoreInv'
  BY FanDomainsStep, FanStoreStep, StoreInductive
<1> QED
  BY <1>1, <1>2, PTL DEF FanSpec

\* The groups implement the task store: whatever claims, releases, reports and
\* kills of fan-out groups do to the tables is a behaviour of StoreSpec, so every
\* theorem of TaskStoreProofs holds of them too.
THEOREM FanImplementsStore == FanSpec => StoreSpec
<1>1. FanInit => StoreInit
  BY FanInitial
<1>2. FanDomains /\ [FanNext]_fanVars => [StoreNext]_storeVars
  BY FanStoreStep
<1> QED
  BY <1>1, <1>2, FanDomainInvariant, PTL DEF FanSpec, StoreSpec

\* A counter n of the members of S, and the two ways it is kept.
Counts(S, n) == IsFiniteSet(S) /\ n = Cardinality(S)

LEMMA CountMember ==
  ASSUME NEW S, NEW n, Counts(S, n), NEW x
  PROVE  /\ n \in Nat
         /\ x \notin S => Counts(S \cup {x}, n + 1)
         /\ x \in S => Counts(S \ {x}, n - 1)
BY FS_AddElement, FS_RemoveElement, FS_CardinalityType DEF Counts

\* What a step does to the tokens of dispatchSem and to the reservations.
Kept == /\ FanHolders' = FanHolders /\ fanSlots' = fanSlots
        /\ Reservers' = Reservers /\ capInFlight' = capInFlight

TakesSlot(w) == /\ w \notin FanHolders /\ FanHolders' = FanHolders \cup {w}
                /\ fanSlots' = fanSlots + 1
                /\ Reservers' = Reservers /\ capInFlight' = capInFlight

Reserves(w) == /\ FanHolders' = FanHolders /\ fanSlots' = fanSlots
               /\ w \notin Reservers /\ Reservers' = Reservers \cup {w}
               /\ capInFlight' = capInFlight + 1

Returns(w) == /\ w \in FanHolders /\ FanHolders' = FanHolders \ {w}
              /\ fanSlots' = fanSlots - 1
              /\ \/ /\ w \notin Reservers
                    /\ Reservers' = Reservers /\ capInFlight' = capInFlight
                 \/ /\ w \in Reservers /\ Reservers' = Reservers \ {w}
                    /\ capInFlight' = capInFlight - 1

\* Every early return, refusal, abort and panic included, a step takes a token,
\* makes a reservation, returns what its group has of the two, or does none of it.
LEMMA FanCountEffect ==
  ASSUME FanDomains, [FanNext]_fanVars
  PROVE  Kept \/ \E w \in Worker : TakesSlot(w) \/ Reserves(w) \/ Returns(w)
<1> USE DEF FanDomains, FanDispatching, FanRunning, Reserving, FanHolders, Reservers
<1>1. ASSUME NEW w \in Worker, BeginGroup(w)
      PROVE  TakesSlot(w)
  BY <1>1 DEF BeginGroup, Loop, TakesSlot
<1>2. ASSUME NEW w \in Worker, RefuseGroup(w)
      PROVE  Returns(w)
  BY <1>2 DEF RefuseGroup, Loop, Returns
<1>3. ASSUME NEW w \in Worker, CheckSpendCap(w)
      PROVE  Kept \/ Reserves(w) \/ Returns(w)
  BY <1>3 DEF CheckSpendCap, Loop, CapAdmits, Kept, Reserves, Returns
<1>4. ASSUME NEW w \in Worker, SpawnFanSession(w)
      PROVE  Kept
  BY <1>4 DEF SpawnFanSession, KeepSlot, Kept
<1>5. ASSUME NEW w \in Worker, SpawnFanWorker(w)
      PROVE  Kept
  BY <1>5 DEF SpawnFanWorker, KeepSlot, Kept
<1>6. ASSUME NEW w \in Worker, SpawnFanFails(w)
      PROVE  Returns(w)
  BY <1>6 DEF SpawnFanFails, LeaveGroup, Loop, ReleaseFanoutSlot, Returns
<1>7. ASSUME NEW w \in Worker, NEW t \in Task, ClaimMember(w, t)
      PROVE  Kept
  BY <1>7 DEF ClaimMember, Continue, KeepSlot, Kept
<1>8. ASSUME NEW w \in Worker, AbortClaims(w)
      PROVE  Returns(w)
  BY <1>8 DEF AbortClaims, Loop, ReleaseFanoutSlot, Returns
<1>9. ASSUME NEW w \in Worker, NEW t \in Task, ReleaseMember(w, t)
      PROVE  Kept
  BY <1>9 DEF ReleaseMember, Continue, KeepSlot, Kept
<1>10. ASSUME NEW w \in Worker, EndRelease(w)
      PROVE  Kept
  BY <1>10 DEF EndRelease, LeaveGroup, Loop, KeepSlot, Kept
<1>11. ASSUME NEW w \in Worker, NothingClaimed(w)
      PROVE  Returns(w)
  BY <1>11 DEF NothingClaimed, LeaveGroup, Loop, ReleaseFanoutSlot, Returns
<1>12. ASSUME NEW w \in Worker, LaunchGroup(w)
      PROVE  Kept
  BY <1>12 DEF LaunchGroup, Loop, KeepSlot, Kept
<1>13. ASSUME NEW w \in Worker, SetupGroup(w)
      PROVE  Kept \/ Returns(w)
  BY <1>13 DEF SetupGroup, Loop, Lapse, LeaveGroup, ReleaseFanoutSlot, KeepSlot, Kept,
       Returns
<1>14. ASSUME NEW w \in Worker, RefuseContainment(w)
      PROVE  Kept
  BY <1>14 DEF RefuseContainment, Loop, KeepSlot, Kept
<1>15. ASSUME NEW w \in Worker, NEW e \in TurnOutcomes, EndGroupTurn(w, e)
      PROVE  Kept
  BY <1>15 DEF EndGroupTurn, Loop, KeepSlot, Kept
<1>16. ASSUME NEW w \in Worker, RecordUsage(w)
      PROVE  Kept \/ Returns(w)
  BY <1>16 DEF RecordUsage, Loop, Lapse, LeaveGroup, ReleaseFanoutSlot, KeepSlot,
       Kept, Returns
<1>17. ASSUME NEW w \in Worker, NEW t \in Task, LogMember(w, t)
      PROVE  Kept \/ Returns(w)
  BY <1>17 DEF LogMember, Continue, Loop, Lapse, LeaveGroup, ReleaseFanoutSlot,
       KeepSlot, Kept, Returns
<1>18. ASSUME NEW w \in Worker, BeginReports(w)
      PROVE  Kept
  BY <1>18 DEF BeginReports, Loop, KeepSlot, Kept
<1>19. ASSUME NEW w \in Worker, NEW t \in Task, FailMember(w, t)
      PROVE  Kept \/ Returns(w)
  BY <1>19 DEF FailMember, Continue, Loop, Lapse, LeaveGroup, ReleaseFanoutSlot,
       KeepSlot, Kept, Returns
<1>20. ASSUME NEW w \in Worker, NEW t \in Task, VerifyMember(w, t)
      PROVE  Kept
  BY <1>20 DEF VerifyMember, Continue, KeepSlot, Kept
<1>21. ASSUME NEW w \in Worker, EndGroup(w)
      PROVE  Returns(w)
  BY <1>21 DEF EndGroup, LeaveGroup, Loop, ReleaseFanoutSlot, Returns
<1>22. ASSUME NEW w \in Worker, PanicGroup(w)
      PROVE  Kept
  BY <1>22 DEF PanicGroup, Loop, KeepSlot, Kept
<1>23. ASSUME NEW w \in Worker, DisplaceGroup(w)
      PROVE  Kept
  BY <1>23 DEF DisplaceGroup, fanControl, Kept
<1>24. ASSUME CreatePlanGraph(GroupPlan), UNCHANGED fanControl
      PROVE  Kept
  BY <1>24 DEF fanControl, Kept
<1>25. ASSUME DeletePlan(GroupPlan), UNCHANGED fanControl
      PROVE  Kept
  BY <1>25 DEF fanControl, Kept
<1>26. ASSUME UNCHANGED fanVars
      PROVE  Kept
  BY <1>26 DEF fanVars, fanControl, Kept
<1> QED
  BY <1>1, <1>2, <1>3, <1>4, <1>5, <1>6, <1>7, <1>8, <1>9, <1>10, <1>11, <1>12, <1>13,
       <1>14, <1>15, <1>16, <1>17, <1>18, <1>19, <1>20, <1>21, <1>22, <1>23, <1>24,
       <1>25, <1>26
     DEF FanNext, GroupStep

\* So both counters are kept.
LEMMA FanCountStep ==
  ASSUME FanDomains, FanCount, [FanNext]_fanVars
  PROVE  FanCount'
<1>1. Counts(FanHolders, fanSlots) /\ Counts(Reservers, capInFlight)
  BY DEF FanCount, Counts
<1>2. Counts(FanHolders', fanSlots') /\ Counts(Reservers', capInFlight')
  <2>1. CASE Kept
    BY <1>1, <2>1 DEF Kept
  <2>2. ASSUME NEW w \in Worker, TakesSlot(w)
        PROVE  Counts(FanHolders', fanSlots') /\ Counts(Reservers', capInFlight')
    BY <1>1, <2>2, CountMember DEF TakesSlot
  <2>3. ASSUME NEW w \in Worker, Reserves(w)
        PROVE  Counts(FanHolders', fanSlots') /\ Counts(Reservers', capInFlight')
    BY <1>1, <2>3, CountMember DEF Reserves
  <2>4. ASSUME NEW w \in Worker, Returns(w)
        PROVE  Counts(FanHolders', fanSlots') /\ Counts(Reservers', capInFlight')
    BY <1>1, <2>4, CountMember DEF Returns
  <2> QED
    BY <2>1, <2>2, <2>3, <2>4, FanCountEffect
<1> QED
  BY <1>2 DEF FanCount, Counts

\* A step that bills nothing, reserves nothing and takes no turn to its end.
NoBill ==
  /\ spent' = spent
  /\ Reservers' \subseteq Reservers
  /\ \A w \in Reservers' : fan'[w] \in BeforeRecord => fan[w] \in BeforeRecord
  /\ uncapped' \subseteq uncapped
  /\ \A w \in uncapped' : fan'[w] = "record" =>
       fan[w] = "record" /\ turnEnd'[w] = turnEnd[w]

\* A capped group is admitted only when none is in flight and the balance is
\* under the cap, and bills once.
LEMMA SpendStep ==
  ASSUME FanDomains, FanCount, SpendInv, [FanNext]_fanVars
  PROVE  SpendInv'
<1> USE FanAssumption
    DEF FanDomains, FanDispatching, FanRunning, Reserving, Reservers, BeforeRecord
<1>0. ASSUME NoBill
      PROVE  SpendInv'
  BY <1>0 DEF NoBill, SpendInv
<1>1. ASSUME NEW w \in Worker, BeginGroup(w)
      PROVE  NoBill
  BY <1>1 DEF BeginGroup, Loop, NoBill
<1>2. ASSUME NEW w \in Worker, RefuseGroup(w)
      PROVE  NoBill
  BY <1>2 DEF RefuseGroup, Loop, NoBill
<1>3. ASSUME NEW w \in Worker, CheckSpendCap(w)
      PROVE  SpendInv'
  <2>1. CASE CapAdmits /\ capInFlight' = capInFlight + 1
    <3>1. Reservers = {}
      BY <2>1, FS_EmptySet DEF CapAdmits, FanCount
    <3>2. Reservers' \subseteq {w} /\ UNCHANGED <<uncapped, turnEnd, spent>>
      BY <2>1, <3>1, <1>3 DEF CheckSpendCap, FanCount
    <3>3. \A v \in uncapped' : fan'[v] = "record" => fan[v] = "record"
      BY <3>2, <1>3 DEF CheckSpendCap, Loop
    <3> QED
      BY <2>1, <3>2, <3>3 DEF CapAdmits, SpendInv
  <2>2. CASE w \in Rotating /\ uncapped' = uncapped \cup {w} /\ fan' = [fan EXCEPT ![w] = "reserved"]
    BY <2>2, <1>3 DEF CheckSpendCap, SpendInv
  <2>3. CASE Loop(w, "unused", {}) /\ UNCHANGED <<capInFlight, uncapped>>
    BY <2>3, <1>3, <1>0 DEF CheckSpendCap, Loop, NoBill
  <2> QED
    BY <2>1, <2>2, <2>3, <1>3 DEF CheckSpendCap
<1>4. ASSUME NEW w \in Worker, SpawnFanSession(w)
      PROVE  NoBill
  BY <1>4 DEF SpawnFanSession, KeepSlot, NoBill
<1>5. ASSUME NEW w \in Worker, SpawnFanWorker(w)
      PROVE  NoBill
  BY <1>5 DEF SpawnFanWorker, KeepSlot, NoBill
<1>6. ASSUME NEW w \in Worker, SpawnFanFails(w)
      PROVE  NoBill
  BY <1>6 DEF SpawnFanFails, LeaveGroup, Loop, ReleaseFanoutSlot, NoBill
<1>7. ASSUME NEW w \in Worker, NEW t \in Task, ClaimMember(w, t)
      PROVE  NoBill
  BY <1>7 DEF ClaimMember, Continue, KeepSlot, NoBill
<1>8. ASSUME NEW w \in Worker, AbortClaims(w)
      PROVE  NoBill
  BY <1>8 DEF AbortClaims, Loop, ReleaseFanoutSlot, NoBill
<1>9. ASSUME NEW w \in Worker, NEW t \in Task, ReleaseMember(w, t)
      PROVE  NoBill
  BY <1>9 DEF ReleaseMember, Continue, KeepSlot, NoBill
<1>10. ASSUME NEW w \in Worker, EndRelease(w)
      PROVE  NoBill
  BY <1>10 DEF EndRelease, LeaveGroup, Loop, KeepSlot, NoBill
<1>11. ASSUME NEW w \in Worker, NothingClaimed(w)
      PROVE  NoBill
  BY <1>11 DEF NothingClaimed, LeaveGroup, Loop, ReleaseFanoutSlot, NoBill
<1>12. ASSUME NEW w \in Worker, LaunchGroup(w)
      PROVE  NoBill
  BY <1>12 DEF LaunchGroup, Loop, KeepSlot, NoBill
<1>13. ASSUME NEW w \in Worker, SetupGroup(w)
      PROVE  NoBill
  BY <1>13 DEF SetupGroup, Loop, Lapse, LeaveGroup, ReleaseFanoutSlot, KeepSlot,
       NoBill
<1>14. ASSUME NEW w \in Worker, RefuseContainment(w)
      PROVE  NoBill
  BY <1>14 DEF RefuseContainment, Loop, KeepSlot, NoBill
<1>15. ASSUME NEW w \in Worker, NEW e \in TurnOutcomes, EndGroupTurn(w, e)
      PROVE  SpendInv'
  BY <1>15 DEF EndGroupTurn, Loop, KeepSlot, SpendInv
<1>16. ASSUME NEW w \in Worker, RecordUsage(w)
      PROVE  SpendInv'
  <2>1. CASE Lapse(w)
    BY <2>1, <1>0, <1>16 DEF RecordUsage, Lapse, LeaveGroup, Loop, ReleaseFanoutSlot, NoBill
  <2>2. CASE ~Lapse(w)
    <3>1. /\ fan[w] = "record" /\ fan' = [fan EXCEPT ![w] = "logging"]
          /\ spent' = spent + turnEnd[w].usd /\ uncapped' = uncapped
      BY <2>2, <1>16 DEF RecordUsage, Loop, KeepSlot
    <3>2. \A v \in Worker \ {w} : turnEnd'[v] = turnEnd[v]
      BY <2>2, <1>16 DEF RecordUsage
    <3>3. turnEnd[w].usd \in 0..MaxTurnUSD
      BY DEF TurnEnds
    <3>4. CASE w \in uncapped
      <4>1. spent' = spent
        BY <3>1, <3>4 DEF SpendInv
      <4> QED
        BY <3>1, <3>2, <4>1, <1>0 DEF NoBill
    <3>5. CASE w \notin uncapped
      <4>1. spent < CapUSD /\ Reservers' = {w}
        BY <3>1, <3>5 DEF SpendInv
      <4> QED
        BY <3>1, <3>2, <3>3, <4>1 DEF SpendInv
    <3> QED
      BY <3>4, <3>5
  <2> QED
    BY <2>1, <2>2
<1>17. ASSUME NEW w \in Worker, NEW t \in Task, LogMember(w, t)
      PROVE  NoBill
  BY <1>17 DEF LogMember, Continue, Loop, Lapse, LeaveGroup, ReleaseFanoutSlot,
       KeepSlot, NoBill
<1>18. ASSUME NEW w \in Worker, BeginReports(w)
      PROVE  NoBill
  BY <1>18 DEF BeginReports, Loop, KeepSlot, NoBill
<1>19. ASSUME NEW w \in Worker, NEW t \in Task, FailMember(w, t)
      PROVE  NoBill
  BY <1>19 DEF FailMember, Continue, Loop, Lapse, LeaveGroup, ReleaseFanoutSlot,
       KeepSlot, NoBill
<1>20. ASSUME NEW w \in Worker, NEW t \in Task, VerifyMember(w, t)
      PROVE  NoBill
  BY <1>20 DEF VerifyMember, Continue, KeepSlot, NoBill
<1>21. ASSUME NEW w \in Worker, EndGroup(w)
      PROVE  NoBill
  BY <1>21 DEF EndGroup, LeaveGroup, Loop, ReleaseFanoutSlot, NoBill
<1>22. ASSUME NEW w \in Worker, PanicGroup(w)
      PROVE  NoBill
  BY <1>22 DEF PanicGroup, Loop, KeepSlot, NoBill
<1>23. ASSUME NEW w \in Worker, DisplaceGroup(w)
      PROVE  NoBill
  BY <1>23 DEF DisplaceGroup, fanControl, NoBill
<1>24. ASSUME CreatePlanGraph(GroupPlan), UNCHANGED fanControl
      PROVE  NoBill
  BY <1>24 DEF fanControl, NoBill
<1>25. ASSUME DeletePlan(GroupPlan), UNCHANGED fanControl
      PROVE  NoBill
  BY <1>25 DEF fanControl, NoBill
<1>26. ASSUME UNCHANGED fanVars
      PROVE  NoBill
  BY <1>26 DEF fanVars, fanControl, NoBill
<1> QED
  BY <1>1, <1>2, <1>3, <1>4, <1>5, <1>6, <1>7, <1>8, <1>9, <1>10, <1>11, <1>12, <1>13,
       <1>14, <1>15, <1>16, <1>17, <1>18, <1>19, <1>20, <1>21, <1>22, <1>23, <1>24,
       <1>25, <1>26, <1>0
     DEF FanNext, GroupStep

\* The inductive invariant of the counters and the cap.
LEMMA FanInvariant == FanSpec => [](FanDomains /\ FanCount /\ SpendInv)
<1>1. FanInit => FanCount /\ SpendInv
  <2> SUFFICES ASSUME FanInit
               PROVE  FanCount /\ SpendInv
    OBVIOUS
  <2>1. FanHolders = {} /\ Reservers = {}
    BY DEF FanInit, FanHolders, Reservers, FanDispatching, FanRunning, Reserving
  <2> QED
    BY <2>1, FS_EmptySet, FanAssumption DEF FanInit, FanCount, SpendInv
<1>2. FanDomains /\ FanCount /\ SpendInv /\ [FanNext]_fanVars => FanCount' /\ SpendInv'
  BY FanCountStep, SpendStep
<1> QED
  BY <1>1, <1>2, FanDomainInvariant, PTL DEF FanSpec

\* Every way out of a group (refusal, abort, early return, panic, success) gives
\* its slot and its reservation back exactly once, for any number of groups.
THEOREM FanResourcesAreExact == FanSpec => []FanResourcesMatch
<1>1. FanCount => FanResourcesMatch
  BY DEF FanCount, FanResourcesMatch, FanHolders, Reservers
<1> QED
  BY <1>1, FanInvariant, PTL

\* checkSpendCap's promise: although a turn's cost is known only when it ends and
\* groups run concurrently, the cap is exceeded by less than one turn.
THEOREM CapIsHeld == FanSpec => []OvershootIsOneTurn
<1>1. SpendInv => OvershootIsOneTurn
  BY DEF SpendInv, OvershootIsOneTurn
<1> QED
  BY <1>1, FanInvariant, PTL

\* Task rows go only with their plan.
LEMMA PlanRowsStep ==
  ASSUME StoreInv, PlansHaveTasks, [StoreNext]_storeVars
  PROVE  PlansHaveTasks'
<1> USE GraphAssumption
    DEF StoreInv, TypeOK, PlansHaveTasks, planVars, taskVars, sessionVars, workerVars,
        storeVars
<1>1. CASE PlanNext
  BY <1>1 DEF PlanNext, CreatePlanGraph, SetPlanStatus, DeletePlan
<1>2. CASE RowNext
  <2>1. ASSUME NEW w \in Worker, ReclaimWorker(w)
        PROVE  PlansHaveTasks'
    BY <2>1 DEF ReclaimWorker
  <2>2. ASSUME NEW w \in Worker, NEW t \in Task, SetWorkerTask(w, t)
        PROVE  PlansHaveTasks'
    BY <2>2 DEF SetWorkerTask
  <2>3. ASSUME NEW w \in Worker, NEW s \in Session, CreateWorker(w, s)
        PROVE  PlansHaveTasks'
    BY <2>3 DEF CreateWorker
  <2>4. ASSUME NEW w \in Worker, NEW st \in {"idle", "crashed"},
               HeartbeatWorkerAndSession(w) \/ ClearWorkerTask(w, st)
        PROVE  PlansHaveTasks'
    BY <2>4 DEF HeartbeatWorkerAndSession, ClearWorkerTask
  <2>5. ASSUME NEW s \in Session,
               CreateSession(s) \/ HeartbeatSession(s) \/ CloseSession(s)
        PROVE  PlansHaveTasks'
    BY <2>5 DEF CreateSession, HeartbeatSession, CloseSession
  <2> QED
    BY <1>2, <2>1, <2>2, <2>3, <2>4, <2>5 DEF RowNext
<1>3. CASE TaskNext
  BY <1>3 DEF TaskNext, ApproveTask, MarkGateBlocked, ClearTaskBlock, ClaimTask, CanClaim,
              MarkDone, MarkFailed, ReleaseClaim, MarkBlocked, EndClaim, OwnsRunning,
              Claimable, GateBlocks
<1>4. CASE ReclaimStale
  BY <1>4 DEF ReclaimStale, StaleClaims
<1>5. CASE Tick
  BY <1>5 DEF Tick
<1>6. CASE UNCHANGED storeVars
  BY <1>6
<1> QED
  BY <1>1, <1>2, <1>3, <1>4, <1>5, <1>6 DEF StoreNext

\* No group comes to own a task.
NoneGained == \A v \in Worker, u \in Task : FanOwns(v, u)' => FanOwns(v, u)

\* Only its own successful claim makes a group the owner of a task; a release, a
\* report, a kill and a deletion can only take ownership away.
LEMMA Ownership ==
  ASSUME StoreInv, FanDomains, [FanNext]_fanVars
  PROVE  \A v \in Worker, u \in Task :
           FanOwns(v, u)' => FanOwns(v, u) \/ (fan'[v] = "claiming" /\ u \in mine'[v])
<1> USE FanAssumption, GraphAssumption, NullAssumption
    DEF StoreInv, TypeOK, FanDomains, NoneGained, FanOwns, OwnsRunning,
        planVars, taskVars, sessionVars, workerVars, storeVars
<1>1. ASSUME NEW w \in Worker, BeginGroup(w)
      PROVE  NoneGained
  BY <1>1 DEF BeginGroup
<1>2. ASSUME NEW w \in Worker, RefuseGroup(w)
      PROVE  NoneGained
  BY <1>2 DEF RefuseGroup
<1>3. ASSUME NEW w \in Worker, CheckSpendCap(w)
      PROVE  NoneGained
  BY <1>3 DEF CheckSpendCap
<1>4. ASSUME NEW w \in Worker, SpawnFanSession(w)
      PROVE  NoneGained
  BY <1>4 DEF SpawnFanSession, CreateSession
<1>5. ASSUME NEW w \in Worker, SpawnFanWorker(w)
      PROVE  NoneGained
  BY <1>5 DEF SpawnFanWorker, CreateWorker
<1>6. ASSUME NEW w \in Worker, SpawnFanFails(w)
      PROVE  NoneGained
  BY <1>6 DEF SpawnFanFails
<1>7. ASSUME NEW w \in Worker, NEW t \in Task, ClaimMember(w, t)
      PROVE  \A v \in Worker, u \in Task :
               FanOwns(v, u)' => FanOwns(v, u) \/ (fan'[v] = "claiming" /\ u \in mine'[v])
  BY <1>7 DEF ClaimMember, ClaimTask, Continue
<1>8. ASSUME NEW w \in Worker, AbortClaims(w)
      PROVE  NoneGained
  BY <1>8 DEF AbortClaims
<1>9. ASSUME NEW w \in Worker, NEW t \in Task, ReleaseMember(w, t)
      PROVE  NoneGained
  BY <1>9 DEF ReleaseMember, ReleaseClaim, EndClaim
<1>10. ASSUME NEW w \in Worker, EndRelease(w)
      PROVE  NoneGained
  BY <1>10 DEF EndRelease, ClearFanRow, ClearWorkerTask
<1>11. ASSUME NEW w \in Worker, NothingClaimed(w)
      PROVE  NoneGained
  BY <1>11 DEF NothingClaimed, ClearFanRow, ClearWorkerTask
<1>12. ASSUME NEW w \in Worker, LaunchGroup(w)
      PROVE  NoneGained
  BY <1>12 DEF LaunchGroup, SetWorkerTask, TasksOf
<1>13. ASSUME NEW w \in Worker, SetupGroup(w)
      PROVE  NoneGained
  BY <1>13 DEF SetupGroup, Lapse
<1>14. ASSUME NEW w \in Worker, RefuseContainment(w)
      PROVE  NoneGained
  BY <1>14 DEF RefuseContainment
<1>15. ASSUME NEW w \in Worker, NEW e \in TurnOutcomes, EndGroupTurn(w, e)
      PROVE  NoneGained
  BY <1>15 DEF EndGroupTurn
<1>16. ASSUME NEW w \in Worker, RecordUsage(w)
      PROVE  NoneGained
  BY <1>16 DEF RecordUsage, Lapse
<1>17. ASSUME NEW w \in Worker, NEW t \in Task, LogMember(w, t)
      PROVE  NoneGained
  BY <1>17 DEF LogMember, Lapse
<1>18. ASSUME NEW w \in Worker, BeginReports(w)
      PROVE  NoneGained
  BY <1>18 DEF BeginReports
<1>19. ASSUME NEW w \in Worker, NEW t \in Task, FailMember(w, t)
      PROVE  NoneGained
  BY <1>19 DEF FailMember, Lapse, MarkFailed, EndClaim
<1>20. ASSUME NEW w \in Worker, NEW t \in Task, VerifyMember(w, t)
      PROVE  NoneGained
  BY <1>20 DEF VerifyMember, MarkDone, MarkFailed, EndClaim
<1>21. ASSUME NEW w \in Worker, EndGroup(w)
      PROVE  NoneGained
  BY <1>21 DEF EndGroup, ClearFanRow, ClearWorkerTask
<1>22. ASSUME NEW w \in Worker, PanicGroup(w)
      PROVE  NoneGained
  BY <1>22 DEF PanicGroup
<1>23. ASSUME NEW w \in Worker, DisplaceGroup(w)
      PROVE  NoneGained
  BY <1>23 DEF DisplaceGroup, ReclaimWorker
<1>24. ASSUME CreatePlanGraph(GroupPlan), UNCHANGED fanControl
      PROVE  NoneGained
  BY <1>24 DEF CreatePlanGraph
<1>25. ASSUME DeletePlan(GroupPlan), UNCHANGED fanControl
      PROVE  NoneGained
  BY <1>25 DEF DeletePlan
<1>26. ASSUME UNCHANGED fanVars
      PROVE  NoneGained
  BY <1>26 DEF fanVars
<1> HIDE DEF FanOwns, OwnsRunning, StoreInv, TypeOK, FanDomains
<1> QED
  BY <1>1, <1>2, <1>3, <1>4, <1>5, <1>6, <1>7, <1>8, <1>9, <1>10, <1>11, <1>12, <1>13,
       <1>14, <1>15, <1>16, <1>17, <1>18, <1>19, <1>20, <1>21, <1>22, <1>23, <1>24,
       <1>25, <1>26
     DEF FanNext, GroupStep

\* What a group may own, it may own after the step as well, if it still does.
StillHolds ==
  /\ faults' \in Nat /\ faults' >= faults
  /\ \A v \in Worker : fan'[v] = "recovering" => fan[v] = "recovering" \/ faults' > faults
  /\ \A v \in Worker, u \in Task :
       FanOwns(v, u) /\ FanOwns(v, u)' /\ Holds(v, u) => Holds(v, u)'

\* Each loop over a group's tasks takes a task off its list only together with
\* the claim, or on a fault, or with the loss of its verdict.
LEMMA HoldStep ==
  ASSUME StoreInv, PlansHaveTasks, FanDomains, HoldInv, [FanNext]_fanVars
  PROVE  HoldInv'
<1> USE DEF FanDomains, StillHolds, Holds, FanRunning
<1>1. ASSUME NEW w \in Worker, BeginGroup(w)
      PROVE  StillHolds
  BY <1>1 DEF BeginGroup, Loop
<1>2. ASSUME NEW w \in Worker, RefuseGroup(w)
      PROVE  StillHolds
  BY <1>2 DEF RefuseGroup, Loop
<1>3. ASSUME NEW w \in Worker, CheckSpendCap(w)
      PROVE  StillHolds
  BY <1>3 DEF CheckSpendCap, Loop
<1>4. ASSUME NEW w \in Worker, SpawnFanSession(w)
      PROVE  StillHolds
  BY <1>4 DEF SpawnFanSession, NoFault
<1>5. ASSUME NEW w \in Worker, SpawnFanWorker(w)
      PROVE  StillHolds
  BY <1>5 DEF SpawnFanWorker, NoFault
<1>6. ASSUME NEW w \in Worker, SpawnFanFails(w)
      PROVE  StillHolds
  BY <1>6 DEF SpawnFanFails, Fault, LeaveGroup, Loop
<1>7. ASSUME NEW w \in Worker, NEW t \in Task, ClaimMember(w, t)
      PROVE  StillHolds
  BY <1>7 DEF ClaimMember, Continue, NoFault
<1>8. ASSUME NEW w \in Worker, AbortClaims(w)
      PROVE  StillHolds
  <2>1. CASE faults' = faults
    <3>1. PICK t \in todo[w] : status[t] = "absent"
      BY <2>1, <1>8 DEF AbortClaims, FaultOr, Fault
    <3>2. ASSUME NEW u \in Task, FanOwns(w, u), Holds(w, u)
          PROVE  FALSE
      BY <3>1, <3>2, <1>8, FanAssumption, GraphAssumption
         DEF AbortClaims, PlansHaveTasks, StoreInv, TasksHavePlans, TasksOf, FanOwns, OwnsRunning
    <3> QED
      BY <2>1, <3>2, <1>8 DEF AbortClaims, Loop
  <2>2. CASE faults' = faults + 1
    BY <2>2, <1>8 DEF AbortClaims, Loop
  <2> QED
    BY <2>1, <2>2, <1>8 DEF AbortClaims, FaultOr, Fault, NoFault
<1>9. ASSUME NEW w \in Worker, NEW t \in Task, ReleaseMember(w, t)
      PROVE  StillHolds
  <2>1. CASE FanOwns(w, t)' => faults' = faults + 1
    <3>1. /\ faults' = faults \/ faults' = faults + 1
          /\ fan' = fan /\ todo' = [todo EXCEPT ![w] = todo[w] \ {t}]
          /\ mine' = mine /\ lost' = lost
      BY <1>9 DEF ReleaseMember, Continue, NoFault, Fault
    <3>2. \A v \in Worker : v # w => todo'[v] = todo[v]
      BY <3>1
    <3>3. todo'[w] = todo[w] \ {t} /\ fan[w] \in {"releasing", "recovering"}
      BY <3>1, <1>9 DEF ReleaseMember
    <3>4. ASSUME NEW u \in Task, Holds(w, u), FanOwns(w, u)'
          PROVE  Holds(w, u)'
      BY <2>1, <3>1, <3>3, <3>4, HoldInv DEF HoldInv
    <3> QED
      BY <3>1, <3>2, <3>4
  <2> QED
    BY <2>1, <1>9, NullAssumption, FanAssumption
       DEF ReleaseMember, Fault, ReleaseClaim, EndClaim, StoreInv, TypeOK, FanOwns, OwnsRunning,
           planVars, taskVars, storeVars
<1>10. ASSUME NEW w \in Worker, EndRelease(w)
      PROVE  StillHolds
  BY <1>10 DEF EndRelease, ClearFanRow, LeaveGroup, Loop, NoFault, Fault
<1>11. ASSUME NEW w \in Worker, NothingClaimed(w)
      PROVE  StillHolds
  BY <1>11 DEF NothingClaimed, ClearFanRow, LeaveGroup, Loop, NoFault, Fault
<1>12. ASSUME NEW w \in Worker, LaunchGroup(w)
      PROVE  StillHolds
  BY <1>12 DEF LaunchGroup, Loop, NoFault
<1>13. ASSUME NEW w \in Worker, SetupGroup(w)
      PROVE  StillHolds
  BY <1>13 DEF SetupGroup, Loop, Lapse, LeaveGroup, NoFault, Fault
<1>14. ASSUME NEW w \in Worker, RefuseContainment(w)
      PROVE  StillHolds
  BY <1>14 DEF RefuseContainment, Loop, NoFault
<1>15. ASSUME NEW w \in Worker, NEW e \in TurnOutcomes, EndGroupTurn(w, e)
      PROVE  StillHolds
  BY <1>15 DEF EndGroupTurn, Loop, NoFault
<1>16. ASSUME NEW w \in Worker, RecordUsage(w)
      PROVE  StillHolds
  BY <1>16 DEF RecordUsage, Loop, Lapse, LeaveGroup, FaultOr, NoFault, Fault
<1>17. ASSUME NEW w \in Worker, NEW t \in Task, LogMember(w, t)
      PROVE  StillHolds
  BY <1>17 DEF LogMember, Continue, Loop, Lapse, LeaveGroup, FaultOr, NoFault, Fault
<1>18. ASSUME NEW w \in Worker, BeginReports(w)
      PROVE  StillHolds
  BY <1>18 DEF BeginReports, Loop, NoFault
<1>19. ASSUME NEW w \in Worker, NEW t \in Task, FailMember(w, t)
      PROVE  StillHolds
  <2>1. CASE Fault /\ Lapse(w)
    BY <2>1, <1>19 DEF FailMember, Fault, Lapse, LeaveGroup, Loop
  <2>2. CASE ~(Fault /\ Lapse(w))
    <3>1. ~FanOwns(w, t)'
      BY <2>2, <1>19, NullAssumption, FanAssumption
         DEF FailMember, MarkFailed, EndClaim, StoreInv, TypeOK, FanOwns, OwnsRunning,
             planVars, taskVars, storeVars
    <3> QED
      BY <2>2, <3>1, <1>19 DEF FailMember, Continue, NoFault
  <2> QED
    BY <2>1, <2>2
<1>20. ASSUME NEW w \in Worker, NEW t \in Task, VerifyMember(w, t)
      PROVE  StillHolds
  <2>1. CASE t \in lost'[w]
    BY <2>1, <1>20 DEF VerifyMember, Continue, NoFault
  <2>2. CASE ~FanOwns(w, t)'
    BY <2>2, <1>20 DEF VerifyMember, Continue, NoFault
  <2> QED
    BY <2>1, <2>2, <1>20, NullAssumption, FanAssumption
       DEF VerifyMember, MarkDone, MarkFailed, EndClaim, StoreInv, TypeOK, FanOwns, OwnsRunning,
           planVars, taskVars, storeVars
<1>21. ASSUME NEW w \in Worker, EndGroup(w)
      PROVE  StillHolds
  BY <1>21 DEF EndGroup, ClearFanRow, LeaveGroup, Loop, NoFault, Fault
<1>22. ASSUME NEW w \in Worker, PanicGroup(w)
      PROVE  StillHolds
  BY <1>22 DEF PanicGroup, Loop, Fault
<1>23. ASSUME NEW w \in Worker, DisplaceGroup(w)
      PROVE  StillHolds
  BY <1>23 DEF DisplaceGroup, fanControl
<1>24. ASSUME CreatePlanGraph(GroupPlan), UNCHANGED fanControl
      PROVE  StillHolds
  BY <1>24 DEF fanControl
<1>25. ASSUME DeletePlan(GroupPlan), UNCHANGED fanControl
      PROVE  StillHolds
  BY <1>25 DEF fanControl
<1>26. ASSUME UNCHANGED fanVars
      PROVE  StillHolds
  BY <1>26 DEF fanVars, fanControl
<1> HIDE DEF FanDomains, StillHolds, Holds
<1>27. StillHolds
  BY <1>1, <1>2, <1>3, <1>4, <1>5, <1>6, <1>7, <1>8, <1>9, <1>10, <1>11, <1>12, <1>13,
       <1>14, <1>15, <1>16, <1>17, <1>18, <1>19, <1>20, <1>21, <1>22, <1>23, <1>24,
       <1>25, <1>26
     DEF FanNext, GroupStep
<1>28. \A v \in Worker : fan'[v] = "recovering" => faults' > 0
  BY <1>27 DEF StillHolds, HoldInv, FanDomains
<1>29. ASSUME NEW v \in Worker, NEW u \in Task, FanOwns(v, u)'
       PROVE  Holds(v, u)'
  <2>1. CASE FanOwns(v, u)
    BY <1>27, <1>29, <2>1 DEF StillHolds, HoldInv
  <2>2. CASE fan'[v] = "claiming" /\ u \in mine'[v]
    BY <2>2 DEF Holds
  <2> QED
    BY <1>29, <2>1, <2>2, Ownership
<1> QED
  BY <1>28, <1>29 DEF HoldInv

\* The whole inductive invariant of the groups.
LEMMA HoldInvariant == FanSpec => [](FanDomains /\ StoreInv /\ PlansHaveTasks /\ HoldInv)
<1>1. FanInit => PlansHaveTasks /\ HoldInv
  BY GraphAssumption, NullAssumption
     DEF FanInit, StoreInit, PlansHaveTasks, HoldInv, FanOwns, OwnsRunning
<1>2. FanDomains /\ StoreInv /\ PlansHaveTasks /\ HoldInv /\ [FanNext]_fanVars
        => PlansHaveTasks' /\ HoldInv'
  BY FanStoreStep, PlanRowsStep, HoldStep
<1> QED
  BY <1>1, <1>2, FanDomainInvariant, PTL DEF FanSpec

\* A group that has ended lets go of its tasks, whatever was killed, deleted,
\* refused, reported or panicked on the way: only a failed release or a
\* verification without a verdict leaves a task to the reaper.
THEOREM EndedGroupsLetGo == FanSpec => []GroupsLetGo
<1>1. FanDomains /\ HoldInv => GroupsLetGo
  BY DEF HoldInv, Holds, GroupsLetGo, FanDomains
<1> QED
  BY <1>1, HoldInvariant, PTL

\* A displaced group's late reports settle nothing: verification moves a task only
\* while the group's own session holds the claim.
THEOREM GroupReportsAreFenced == FanSpec => GroupSettlesOwnTasks
<1>1. FanDomains /\ StoreInv /\ [FanNext]_fanVars =>
        \A w \in Worker, t \in Task :
          /\ fan[w] = "verifying" /\ t \in todo[w] /\ t \notin todo'[w]
          /\ status'[t] # status[t]
          => FanOwns(w, t)
  <2> SUFFICES ASSUME FanDomains, StoreInv, [FanNext]_fanVars, NEW v \in Worker, NEW u \in Task,
                      fan[v] = "verifying", u \in todo[v], u \notin todo'[v],
                      status'[u] # status[u]
               PROVE  FanOwns(v, u)
    OBVIOUS
  <2> USE DEF FanDomains
  <2>1. PICK w \in Worker : GroupStep(w) \/ DisplaceGroup(w)
    BY DEF FanNext, fanControl, fanVars
  <2>2. ~DisplaceGroup(w)
    BY DEF DisplaceGroup, fanControl
  <2>3. todo' = [todo EXCEPT ![w] = todo'[w]]
    BY <2>1, <2>2
       DEF GroupStep, BeginGroup, RefuseGroup, CheckSpendCap, SpawnFanSession, SpawnFanWorker,
           SpawnFanFails, ClaimMember, AbortClaims, ReleaseMember, EndRelease, NothingClaimed,
           LaunchGroup, SetupGroup, RefuseContainment, EndGroupTurn, RecordUsage, LogMember,
           BeginReports, FailMember, VerifyMember, EndGroup, PanicGroup, Loop, LeaveGroup,
           Lapse, Continue
  <2>4. w = v
    BY <2>3
  <2>5. PICK t \in Task : VerifyMember(w, t)
    BY <2>1, <2>2, <2>4
       DEF GroupStep, BeginGroup, RefuseGroup, CheckSpendCap, SpawnFanSession, SpawnFanWorker,
           SpawnFanFails, ClaimMember, AbortClaims, ReleaseMember, EndRelease, NothingClaimed,
           LaunchGroup, SetupGroup, RefuseContainment, EndGroupTurn, RecordUsage, LogMember,
           BeginReports, FailMember, EndGroup, PanicGroup, storeVars, taskVars
  <2>6. t = u
    BY <2>4, <2>5 DEF VerifyMember, Continue
  <2> QED
    BY <2>4, <2>5, <2>6
       DEF VerifyMember, MarkDone, MarkFailed, EndClaim, FanOwns, storeVars, taskVars
<1> QED
  BY <1>1, FanDomainInvariant, PTL DEF FanSpec, GroupSettlesOwnTasks
=============================================================================
