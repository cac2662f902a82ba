------------------------------- MODULE FanOut -------------------------------
(* A native fan-out group: one worker claims every eligible step of a       *)
(* parallel group, runs them in one provider turn, and reports each of them *)
(* (dispatchReadyGroup, dispatchFanoutGroup and runFanoutGroup of           *)
(* internal/orch/orchestrator.go), under the spend cap of its provider      *)
(* (internal/orch/spend.go).                                                *)
(*                                                                          *)
(* A group is named by its worker id w.  fan[w] is how far it is:           *)
(*   slot, reserved, session, claiming   under dispatchMu                   *)
(*   setup, refusing, turn, record, logging, failing, verifying, clear,     *)
(*   recovering                          in its goroutine                   *)
(*   releasing                           an aborted claim phase             *)
(*   lapsed    returned early: claims and row are left to the reaper        *)
(*   aborted, done                                                          *)
(* todo[w] is what the loop it is in has left.  The heartbeats and the      *)
(* reaper are in module Dispatch; here a kill displaces a group.            *)
EXTENDS TaskStore

CONSTANTS
  GroupPlan,    \* the plan whose parallel group is dispatched
  Restricted,   \* steps that declare independence peers, providers or a pin
  FanSession,   \* the session row of a group's worker
  FanSlots,     \* capacity of dispatchSem
  Rotating,     \* groups whose binding may be a provider without a cap
  CapUSD,       \* the capped provider's cap in the project
  MaxTurnUSD,   \* bound on what one turn is billed
  MaxFaults     \* bound on failing store calls and panics

ASSUME FanAssumption ==
  /\ GroupPlan \in Plan
  /\ Restricted \subseteq Task
  /\ Rotating \subseteq Worker
  /\ FanSession \in [Worker -> Session]
  /\ \A v, w \in Worker : FanSession[v] = FanSession[w] => v = w
  /\ {CapUSD, MaxTurnUSD, FanSlots} \subseteq Nat \ {0}
  /\ MaxFaults \in Nat

VARIABLES
  fan, todo, mine,  \* per group: phase, tasks left in its loop, tasks claimed
  turnEnd,          \* per group: how its turn came out and what it cost
  lost,             \* per group: tasks whose verification gave no verdict
  fanSlots,         \* tokens in dispatchSem
  capInFlight,      \* reservations of the capped provider
  uncapped,         \* groups under a provider without a cap
  spent,            \* sum of the capped provider's spend rows
  faults

fanControl == <<fan, todo, mine, turnEnd, lost, fanSlots, capInFlight, uncapped,
                spent, faults>>
fanVars    == <<storeVars, fanControl>>

FanDispatching == {"slot", "reserved", "session", "claiming"}
FanRunning  == {"setup", "refusing", "turn", "record", "logging", "failing",
                "verifying", "clear", "recovering"}
FanPhases   == {"unused", "lapsed", "releasing", "aborted", "done"}
                 \cup FanDispatching \cup FanRunning

Reserving == FanRunning \cup (FanDispatching \ {"slot"})
FanBusy   == \E w \in Worker : fan[w] \in FanDispatching \cup {"releasing"}

\* How a turn comes out: the retries a failed one has (Failure.RetryBudget), and
\* what it is billed.
TurnOutcomes ==
  {e \in [ok : BOOLEAN, budget : {0, MaxRetries}, usd : 0..MaxTurnUSD] :
     e.ok => e.budget = 0}

NoTurn == [ok |-> FALSE, budget |-> 0, usd |-> 0]

FanOwns(w, t) == OwnsRunning(t, FanSession[w])

\* Another loop over the tasks in T begins.
Loop(w, phase, T) ==
  /\ fan' = [fan EXCEPT ![w] = phase]
  /\ todo' = [todo EXCEPT ![w] = T]

\* The end of a group: its local variables go with it.
LeaveGroup(w, phase) ==
  /\ Loop(w, phase, {})
  /\ mine' = [mine EXCEPT ![w] = {}]
  /\ turnEnd' = [turnEnd EXCEPT ![w] = NoTurn]

Continue(w, t) ==
  /\ todo' = [todo EXCEPT ![w] = @ \ {t}]
  /\ UNCHANGED fan

\* releaseFanoutSlot: the slot and the reservation, if there is one, go back
\* together, once.
ReleaseFanoutSlot(w) ==
  /\ fanSlots' = fanSlots - 1
  /\ capInFlight' = IF w \in uncapped THEN capInFlight ELSE capInFlight - 1
  /\ uncapped' = uncapped \ {w}

KeepSlot == UNCHANGED <<fanSlots, capInFlight, uncapped>>
NoFault  == UNCHANGED faults

\* Something fails.  A group without a cap under way counts against the bound, so
\* that a small bound separates faults from competing providers.
Fault ==
  /\ faults + Cardinality(uncapped) < MaxFaults
  /\ faults' = faults + 1

\* A call fails of itself, or because what it needs is gone.
FaultOr(cond) == Fault \/ (cond /\ NoFault)
-----------------------------------------------------------------------------
(* Under dispatchMu *)

\* coalescableSteps: the ready steps no restriction and no gate keeps out.
CoalescableSteps ==
  {t \in ReadyPartitions(GroupPlan) : t \notin Restricted /\ status[t] \in Claimable}

\* More than one ready step, a binding with NativeFanout and a free slot.
BeginGroup(w) ==
  /\ fan[w] = "unused" /\ ~FanBusy
  /\ planStatus[GroupPlan] = "active"
  /\ Cardinality(ReadyPartitions(GroupPlan)) > 1
  /\ CoalescableSteps # {}
  /\ fanSlots < FanSlots
  /\ fanSlots' = fanSlots + 1
  /\ Loop(w, "slot", CoalescableSteps)
  /\ UNCHANGED <<storeVars, mine, turnEnd, lost, capInFlight, uncapped, spent, faults>>

\* The binding has changed, or cannot honour the project's containment.
RefuseGroup(w) ==
  /\ fan[w] = "slot"
  /\ Loop(w, "unused", {})
  /\ fanSlots' = fanSlots - 1
  /\ UNCHANGED <<storeVars, mine, turnEnd, lost, capInFlight, uncapped, spent, faults>>

\* Mutant: a balance under the cap admits, whatever is in flight.
CapAdmitsAny == spent < CapUSD

\* checkSpendCap: nothing in flight and a recorded balance under the cap.
CapAdmits == capInFlight = 0 /\ spent < CapUSD

\* A provider without a cap is admitted and nothing is reserved.
CheckSpendCap(w) ==
  /\ fan[w] = "slot"
  /\ \/ /\ CapAdmits
        /\ fan' = [fan EXCEPT ![w] = "reserved"]
        /\ capInFlight' = capInFlight + 1
        /\ UNCHANGED <<todo, fanSlots, uncapped>>
     \/ /\ w \in Rotating
        /\ fan' = [fan EXCEPT ![w] = "reserved"]
        /\ uncapped' = uncapped \cup {w}
        /\ UNCHANGED <<todo, fanSlots, capInFlight>>
     \/ /\ ~CapAdmits
        /\ Loop(w, "unused", {})
        /\ fanSlots' = fanSlots - 1
        /\ UNCHANGED <<capInFlight, uncapped>>
  /\ UNCHANGED <<storeVars, mine, turnEnd, lost, spent, faults>>

SpawnFanSession(w) ==
  /\ fan[w] = "reserved"
  /\ CreateSession(FanSession[w])
  /\ fan' = [fan EXCEPT ![w] = "session"]
  /\ UNCHANGED <<todo, mine, turnEnd, lost, spent>> /\ KeepSlot /\ NoFault

SpawnFanWorker(w) ==
  /\ fan[w] = "session"
  /\ CreateWorker(w, FanSession[w])
  /\ fan' = [fan EXCEPT ![w] = "claiming"]
  /\ UNCHANGED <<todo, mine, turnEnd, lost, spent>> /\ KeepSlot /\ NoFault

SpawnFanFails(w) ==
  /\ fan[w] \in {"reserved", "session"}
  /\ Fault
  /\ LeaveGroup(w, "lapsed")
  /\ ReleaseFanoutSlot(w)
  /\ UNCHANGED <<storeVars, lost, spent>>

\* claimStepTask for the next step; a step somebody else has taken is skipped.
ClaimMember(w, t) ==
  /\ fan[w] = "claiming" /\ t \in todo[w]
  /\ \/ /\ ClaimTask(t, FanSession[w], w)
        /\ mine' = [mine EXCEPT ![w] = @ \cup {t}]
     \/ /\ ~CanClaim(t, FanSession[w], w)
        /\ status[t] # "absent"
        /\ UNCHANGED <<storeVars, mine>>
  /\ Continue(w, t)
  /\ UNCHANGED <<turnEnd, lost, spent>> /\ KeepSlot /\ NoFault

\* Mutant: the tasks claimed before the failing call are forgotten.
AbortClaimsForgetful(w) ==
  /\ fan[w] = "claiming"
  /\ \/ todo[w] # {} /\ FaultOr(\E t \in todo[w] : status[t] = "absent")
     \/ todo[w] = {} /\ mine[w] # {} /\ Fault
  /\ Loop(w, "releasing", {})
  /\ ReleaseFanoutSlot(w)
  /\ UNCHANGED <<storeVars, mine, turnEnd, lost, spent>>

\* A claim or SetWorkerTask fails: the slot goes back, then releaseClaimedTasks.
AbortClaims(w) ==
  /\ fan[w] = "claiming"
  /\ \/ todo[w] # {} /\ FaultOr(\E t \in todo[w] : status[t] = "absent")
     \/ todo[w] = {} /\ mine[w] # {} /\ Fault
  /\ Loop(w, "releasing", mine[w])
  /\ ReleaseFanoutSlot(w)
  /\ UNCHANGED <<storeVars, mine, turnEnd, lost, spent>>

\* ReleaseClaim for one of them, its error ignored; so after a panic.
ReleaseMember(w, t) ==
  /\ fan[w] \in {"releasing", "recovering"} /\ t \in todo[w]
  /\ \/ ReleaseClaim(t, FanSession[w]) /\ NoFault
     \/ ~FanOwns(w, t) /\ UNCHANGED storeVars /\ NoFault
     \/ FanOwns(w, t) /\ UNCHANGED storeVars /\ Fault
  /\ Continue(w, t)
  /\ UNCHANGED <<mine, turnEnd, lost, spent>> /\ KeepSlot

\* ClearWorkerTask with its error ignored.
ClearFanRow(w, st) ==
  \/ ClearWorkerTask(w, st) /\ NoFault
  \/ ~WorkerExists(w) /\ UNCHANGED storeVars /\ NoFault
  \/ UNCHANGED storeVars /\ Fault

EndRelease(w) ==
  /\ fan[w] = "releasing" /\ todo[w] = {}
  /\ ClearFanRow(w, "crashed")
  /\ LeaveGroup(w, "aborted")
  /\ UNCHANGED <<lost, spent>> /\ KeepSlot

\* Every step was lost: the worker row is released.
NothingClaimed(w) ==
  /\ fan[w] = "claiming" /\ todo[w] = {} /\ mine[w] = {}
  /\ ClearFanRow(w, "idle")
  /\ LeaveGroup(w, "done")
  /\ ReleaseFanoutSlot(w)
  /\ UNCHANGED <<lost, spent>>

LaunchGroup(w) ==
  /\ fan[w] = "claiming" /\ todo[w] = {} /\ mine[w] # {}
  /\ \E t \in mine[w] : SetWorkerTask(w, t)
  /\ Loop(w, "setup", {})
  /\ UNCHANGED <<mine, turnEnd, lost, spent>> /\ KeepSlot /\ NoFault
-----------------------------------------------------------------------------
(* The goroutine: runFanoutGroup *)

\* Mutant: an early return gives back the slot and not the reservation.
LapseReserving(w) ==
  /\ LeaveGroup(w, "lapsed")
  /\ fanSlots' = fanSlots - 1
  /\ UNCHANGED <<storeVars, lost, capInFlight, uncapped, spent>>

\* An early return: runner or limits unresolved, or a write refused.
Lapse(w) ==
  /\ LeaveGroup(w, "lapsed")
  /\ ReleaseFanoutSlot(w)
  /\ UNCHANGED <<storeVars, lost, spent>>

SetupGroup(w) ==
  /\ fan[w] = "setup"
  /\ \/ Loop(w, "turn", {}) /\ KeepSlot /\ NoFault
        /\ UNCHANGED <<storeVars, mine, turnEnd, lost, spent>>
     \/ Fault /\ Lapse(w)

\* The containment answer changed since admission: every claim is failed.
RefuseContainment(w) ==
  /\ fan[w] = "setup"
  /\ Loop(w, "refusing", mine[w])
  /\ \E budget \in {0, MaxRetries} :
       turnEnd' = [turnEnd EXCEPT ![w].budget = budget]
  /\ UNCHANGED <<storeVars, mine, lost, spent>> /\ KeepSlot /\ NoFault

\* runner.Run returns, having billed what it has billed; what a provider without
\* a cap bills is not followed.
EndGroupTurn(w, e) ==
  /\ fan[w] = "turn"
  /\ w \in uncapped => e.usd = 0
  /\ Loop(w, "record", {})
  /\ turnEnd' = [turnEnd EXCEPT ![w] = e]
  /\ UNCHANGED <<storeVars, mine, lost, spent>> /\ KeepSlot /\ NoFault

\* recordUsage, once for the group; the spend row references the worker row.
RecordUsage(w) ==
  /\ fan[w] = "record"
  /\ \/ /\ WorkerExists(w)
        /\ spent' = spent + turnEnd[w].usd
        /\ turnEnd' = [turnEnd EXCEPT ![w].usd = 0]
        /\ Loop(w, "logging", mine[w])
        /\ UNCHANGED <<storeVars, mine, lost>> /\ KeepSlot /\ NoFault
     \/ FaultOr(~WorkerExists(w)) /\ Lapse(w)

\* AppendMessage for every member.
LogMember(w, t) ==
  /\ fan[w] = "logging" /\ t \in todo[w]
  /\ \/ /\ WorkerExists(w) /\ status[t] # "absent"
        /\ Continue(w, t)
        /\ UNCHANGED <<storeVars, mine, turnEnd, lost, spent>> /\ KeepSlot /\ NoFault
     \/ FaultOr(~WorkerExists(w) \/ status[t] = "absent") /\ Lapse(w)

BeginReports(w) ==
  /\ fan[w] = "logging" /\ todo[w] = {}
  /\ Loop(w, IF turnEnd[w].ok THEN "verifying" ELSE "failing", mine[w])
  /\ UNCHANGED <<storeVars, mine, turnEnd, lost, spent>> /\ KeepSlot /\ NoFault

\* MarkFailedWithPayload for one member; that it is not ours any more is benign.
FailMember(w, t) ==
  /\ fan[w] \in {"failing", "refusing"} /\ t \in todo[w]
  /\ \/ /\ \/ MarkFailed(t, FanSession[w], turnEnd[w].budget)
           \/ ~FanOwns(w, t) /\ UNCHANGED storeVars
        /\ Continue(w, t)
        /\ UNCHANGED <<mine, turnEnd, lost, spent>> /\ KeepSlot /\ NoFault
     \/ Fault /\ Lapse(w)

\* Mutant: the first verification error ends the loop.
VerifyMemberStopping(w, t) ==
  /\ fan[w] = "verifying" /\ t \in todo[w]
  /\ \/ /\ \/ MarkDone(t, FanSession[w])
           \/ MarkFailed(t, FanSession[w], MaxRetries)
           \/ ~FanOwns(w, t) /\ UNCHANGED storeVars
        /\ Continue(w, t) /\ UNCHANGED lost /\ NoFault
     \/ /\ lost' = [lost EXCEPT ![w] = @ \cup {t}]
        /\ Loop(w, "verifying", {}) /\ UNCHANGED storeVars /\ NoFault
  /\ UNCHANGED <<mine, turnEnd, spent>> /\ KeepSlot

\* Mutant: the verdict goes to whoever owns the task by now.
VerifyMemberAsOwner(w, t) ==
  /\ fan[w] = "verifying" /\ t \in todo[w]
  /\ \/ MarkDone(t, claimSession[t]) /\ UNCHANGED lost
     \/ UNCHANGED storeVars /\ lost' = [lost EXCEPT ![w] = @ \cup {t}]
  /\ Continue(w, t) /\ NoFault
  /\ UNCHANGED <<mine, turnEnd, spent>> /\ KeepSlot

\* VerifyAndCompleteAs for one member, under the group's own session and a
\* budget of its own: a verdict, or none (the check erred or ran out of time).
VerifyMember(w, t) ==
  /\ fan[w] = "verifying" /\ t \in todo[w]
  /\ \/ /\ \/ MarkDone(t, FanSession[w])
           \/ MarkFailed(t, FanSession[w], MaxRetries)
           \/ ~FanOwns(w, t) /\ UNCHANGED storeVars
        /\ UNCHANGED lost /\ NoFault
     \/ /\ lost' = [lost EXCEPT ![w] = @ \cup {t}]
        /\ UNCHANGED storeVars /\ NoFault
  /\ Continue(w, t)
  /\ UNCHANGED <<mine, turnEnd, spent>> /\ KeepSlot

\* Every member has been reported: the row is released, and with the goroutine
\* the slot and the reservation.
EndGroup(w) ==
  /\ fan[w] \in {"failing", "verifying", "refusing", "recovering"} /\ todo[w] = {}
  /\ ClearFanRow(w, IF fan[w] \in {"failing", "recovering"} THEN "crashed" ELSE "idle")
  /\ LeaveGroup(w, "done")
  /\ ReleaseFanoutSlot(w)
  /\ UNCHANGED <<lost, spent>>

\* recoverDispatchPanic: every claim the group still holds is released.
PanicGroup(w) ==
  /\ fan[w] \in FanRunning \ {"recovering"}
  /\ Fault
  /\ Loop(w, "recovering", mine[w])
  /\ turnEnd' = [turnEnd EXCEPT ![w] = NoTurn]
  /\ UNCHANGED <<storeVars, mine, lost, spent>> /\ KeepSlot

GroupStep(w) ==
  \/ BeginGroup(w) \/ RefuseGroup(w) \/ CheckSpendCap(w)
  \/ SpawnFanSession(w) \/ SpawnFanWorker(w) \/ SpawnFanFails(w)
  \/ AbortClaims(w) \/ EndRelease(w) \/ NothingClaimed(w) \/ LaunchGroup(w)
  \/ SetupGroup(w) \/ RefuseContainment(w) \/ RecordUsage(w) \/ BeginReports(w)
  \/ EndGroup(w) \/ PanicGroup(w)
  \/ \E t \in Task : \/ ClaimMember(w, t) \/ ReleaseMember(w, t) \/ LogMember(w, t)
                     \/ FailMember(w, t) \/ VerifyMember(w, t)
  \/ \E e \in TurnOutcomes : EndGroupTurn(w, e)

\* HandleWorkerKill's ReclaimWorker takes every claim of the group at once.
DisplaceGroup(w) == ReclaimWorker(w) /\ UNCHANGED fanControl

FanInit ==
  /\ StoreInit
  /\ fan = [w \in Worker |-> "unused"]
  /\ todo = [w \in Worker |-> {}]
  /\ mine = [w \in Worker |-> {}]
  /\ turnEnd = [w \in Worker |-> NoTurn]
  /\ lost = [w \in Worker |-> {}]
  /\ fanSlots = 0
  /\ capInFlight = 0 /\ uncapped = {}
  /\ spent = 0
  /\ faults = 0

FanNext ==
  \/ CreatePlanGraph(GroupPlan) /\ UNCHANGED fanControl
  \/ DeletePlan(GroupPlan) /\ UNCHANGED fanControl
  \/ \E w \in Worker : GroupStep(w) \/ DisplaceGroup(w)

FanSpec == FanInit /\ [][FanNext]_fanVars
-----------------------------------------------------------------------------
\* Every way out of a group gives back its slot and its reservation, once:
\* the tokens out are the groups that are under way, and the reservations
\* those of them that are capped.
FanResourcesMatch ==
  /\ fanSlots = Cardinality({w \in Worker : fan[w] \in FanDispatching \cup FanRunning})
  /\ capInFlight = Cardinality({w \in Worker \ uncapped : fan[w] \in Reserving})

\* The cap of a provider is exceeded by less than one turn, although what a
\* turn costs is known only when it ends (checkSpendCap's comment).
OvershootIsOneTurn == spent < CapUSD + MaxTurnUSD

\* A group that has ended lets go of its tasks.  A claim phase that gave up keeps
\* none, unless a release itself failed; and one member's failed verification
\* costs the others nothing: of a group that ran, each task it still holds is
\* one whose own verification gave no verdict or whose release failed.
GroupsLetGo ==
  \A w \in Worker : faults <= 1 =>
    /\ fan[w] = "aborted" => \A t \in Task : ~FanOwns(w, t)
    /\ fan[w] = "done" => \A t \in Task : FanOwns(w, t) => t \in lost[w]

\* A displaced group's late reports settle nothing: a task leaves running by a
\* group's step only if that group still owned it.
GroupSettlesOwnTasks ==
  [][\A w \in Worker, t \in Task :
       /\ fan[w] = "verifying" /\ t \in todo[w] /\ t \notin todo'[w]
       /\ status'[t] # status[t]
       => FanOwns(w, t)]_fanVars
=============================================================================
