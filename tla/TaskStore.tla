----------------------------- MODULE TaskStore -----------------------------
(***************************************************************************)
(* The durable work queue of internal/store: plans, tasks, the session and *)
(* worker rows that claim them, and the in-store reaper.                   *)
(*                                                                         *)
(* Every method of the Go type Store that is modelled here is one          *)
(* BEGIN IMMEDIATE transaction of SQLite (or a single statement), so it is *)
(* one atomic action.  A method that finds its guard false rolls back and  *)
(* returns a sentinel error: that is a step that changes nothing and has   *)
(* no action of its own.                                                   *)
(*                                                                         *)
(* The callers are not modelled: any caller may call any method at any     *)
(* time with any arguments, which is more than the supervisor ever does    *)
(* (module Dispatch has the real callers).  What is shown here therefore   *)
(* holds whatever the dispatcher, the operators and the clock do.          *)
(*                                                                         *)
(* Timestamps are ages: a row's age is the number of clock units since its *)
(* last_heartbeat, and Tick makes every row older.                         *)
(***************************************************************************)
EXTENDS Integers, FiniteSets

CONSTANTS
  Plan,        \* plan ids
  Task,        \* task ids, over all plans
  Session,     \* session uuids: never reused
  Worker,      \* worker uuids: never reused
  PlanOf,      \* the plan a task belongs to
  ProjectOf,   \* the project a plan belongs to
  DependsOn,   \* task_deps: the tasks a task waits for, in its own plan
  Outputs,     \* task_output_reservations: canonical paths a task writes
  Gated,       \* tasks created with RequiresApproval
  MaxRetries,  \* the retry budget of a retryable failure (defaultTurnRetries)
  StaleAfter,  \* the reaper's lease, in clock units
  NoSession, NoWorker, NoTask   \* SQL NULLs

\* staleSessionMultiplier * staleAfter: the age at which a row is deleted.
DeleteAfter == 3 * StaleAfter

\* Ages above DeleteAfter are not told apart: every comparison the reaper
\* makes gives the same answer for all of them.
MaxAge == DeleteAfter + 1

ASSUME TimeAssumption ==
  /\ StaleAfter \in Nat \ {0}
  /\ MaxRetries \in Nat

ASSUME NullAssumption ==
  /\ NoSession \notin Session
  /\ NoWorker \notin Worker
  /\ NoTask \notin Task

ASSUME GraphAssumption ==
  /\ PlanOf \in [Task -> Plan]
  /\ DependsOn \in [Task -> SUBSET Task]
  /\ \A t \in Task : \A d \in DependsOn[t] : PlanOf[d] = PlanOf[t]
  /\ Gated \subseteq Task

VARIABLES
  planStatus,     \* plans.status; "absent" before CreatePlanGraph
  status,         \* tasks.status; "absent" while there is no row
  claimSession,   \* tasks.claimed_by_session
  claimWorker,    \* tasks.claimed_by_worker_id
  retryCount,     \* tasks.retry_count
  approved,       \* history: the tasks ApproveTask has promoted
  sessionRow,     \* "absent", "open", or "gone" once deleted
  sessionAge,     \* time since sessions.last_heartbeat
  workerRow,      \* workers.status; "absent" or "gone" without a row
  workerSession,  \* workers.session_id
  workerTask,     \* workers.current_task_id
  workerAge       \* time since workers.last_heartbeat

planVars    == <<planStatus>>
taskVars    == <<status, claimSession, claimWorker, retryCount, approved>>
sessionVars == <<sessionRow, sessionAge>>
workerVars  == <<workerRow, workerSession, workerTask, workerAge>>
storeVars   == <<planVars, taskVars, sessionVars, workerVars>>

-----------------------------------------------------------------------------
(* Vocabulary *)

\* "stopped" stands for paused and abandoned: dispatch asks only for active.
PlanStatuses == {"absent", "active", "stopped", "deleted"}

TaskStatuses == {"pending", "ready", "ready_pending_approval", "blocked",
                 "running", "done", "failed", "skipped", "decomposed",
                 "blocked_capability", "blocked_input"}

\* workers.status, and the two ways of not being a row.
WorkerStatuses == {"running", "idle", "crashed", "terminated"}

\* Mutant: the approval gate is not excluded from the claimable statuses.
ClaimableUnapproved == {"pending", "ready", "ready_pending_approval"}

\* The statuses a claim may take a task from.
Claimable == {"pending", "ready"}

\* The statuses in which a dependency no longer holds its dependents back.
Satisfied == {"done", "skipped", "decomposed"}

\* The fail-closed blocks a dispatch-time gate sets and clears.
GateBlocks == {"blocked_capability", "blocked_input"}

TasksOf(p) == {t \in Task : PlanOf[t] = p}

\* Mutant: a dependency that has left the queue counts as satisfied.
DepsStarted(t) == \A d \in DependsOn[t] : status[d] \notin Claimable

DepsSatisfied(t) == \A d \in DependsOn[t] : status[d] \in Satisfied

\* Two tasks whose declared outputs name one file of one checkout.
SameOutput(t, u) ==
  /\ t # u
  /\ ProjectOf[PlanOf[t]] = ProjectOf[PlanOf[u]]
  /\ Outputs[t] \cap Outputs[u] # {}

\* Mutant: reservations are compared within one plan only.
OutputReservedInPlan(t) ==
  \E u \in TasksOf(PlanOf[t]) : SameOutput(t, u) /\ status[u] = "running"

\* outputReservationConflict: a running task holds a path t declares.
OutputReserved(t) == \E u \in Task : SameOutput(t, u) /\ status[u] = "running"

\* Mutant: the wave leaves out the tasks a gate has blocked.
ReadyPartitionsUnblocked(p) ==
  {t \in TasksOf(p) : status[t] \in Claimable /\ DepsSatisfied(t)}

\* Ready / ReadyPartitions: what a dispatch pass is shown.
ReadyPartitions(p) ==
  {t \in TasksOf(p) : status[t] \in Claimable \cup GateBlocks /\ DepsSatisfied(t)}

WorkerExists(w) == workerRow[w] \in WorkerStatuses

OwnsRunning(t, s) == status[t] = "running" /\ claimSession[t] = s

-----------------------------------------------------------------------------
(* Plans *)

\* CreatePlanGraph with Activate: the plan, every task with its reservations
\* and edges, and the activation, in one transaction.
CreatePlanGraph(p) ==
  /\ planStatus[p] = "absent"
  /\ planStatus' = [planStatus EXCEPT ![p] = "active"]
  /\ status' = [t \in Task |->
                  IF PlanOf[t] # p THEN status[t]
                  ELSE IF t \in Gated THEN "ready_pending_approval"
                  ELSE "pending"]
  /\ UNCHANGED <<claimSession, claimWorker, retryCount, approved,
                 sessionVars, workerVars>>

\* SetPlanStatus, with the statuses the drive API lets through.
SetPlanStatus(p, st) ==
  /\ planStatus[p] \notin {"absent", "deleted"}
  /\ planStatus' = [planStatus EXCEPT ![p] = st]
  /\ UNCHANGED <<taskVars, sessionVars, workerVars>>

\* DeletePlan: the plan row, by cascade its task rows, and by SET NULL the
\* current task of the workers that were on them.
DeletePlan(p) ==
  /\ planStatus[p] \notin {"absent", "deleted"}
  /\ planStatus' = [planStatus EXCEPT ![p] = "deleted"]
  /\ status' = [t \in Task |-> IF PlanOf[t] = p THEN "absent" ELSE status[t]]
  /\ claimSession' = [t \in Task |->
                        IF PlanOf[t] = p THEN NoSession ELSE claimSession[t]]
  /\ claimWorker' = [t \in Task |->
                       IF PlanOf[t] = p THEN NoWorker ELSE claimWorker[t]]
  /\ workerTask' = [w \in Worker |->
                      IF workerTask[w] # NoTask /\ PlanOf[workerTask[w]] = p
                      THEN NoTask ELSE workerTask[w]]
  /\ UNCHANGED <<retryCount, approved, sessionVars,
                 workerRow, workerSession, workerAge>>

\* ApproveTask: the only way past the approval gate.
ApproveTask(t) ==
  /\ status[t] = "ready_pending_approval"
  /\ status' = [status EXCEPT ![t] = "ready"]
  /\ approved' = approved \cup {t}
  /\ UNCHANGED <<planVars, claimSession, claimWorker, retryCount,
                 sessionVars, workerVars>>

-----------------------------------------------------------------------------
(* Sessions and workers *)

CreateSession(s) ==
  /\ sessionRow[s] = "absent"
  /\ sessionRow' = [sessionRow EXCEPT ![s] = "open"]
  /\ sessionAge' = [sessionAge EXCEPT ![s] = 0]
  /\ UNCHANGED <<planVars, taskVars, workerVars>>

\* CreateWorker: the foreign key refuses a session that is not there.
CreateWorker(w, s) ==
  /\ workerRow[w] = "absent"
  /\ sessionRow[s] = "open"
  /\ workerRow' = [workerRow EXCEPT ![w] = "running"]
  /\ workerSession' = [workerSession EXCEPT ![w] = s]
  /\ workerAge' = [workerAge EXCEPT ![w] = 0]
  /\ UNCHANGED <<planVars, taskVars, sessionVars, workerTask>>

HeartbeatSession(s) ==
  /\ sessionRow[s] = "open"
  /\ sessionAge' = [sessionAge EXCEPT ![s] = 0]
  /\ UNCHANGED <<planVars, taskVars, sessionRow, workerVars>>

\* HeartbeatWorkerAndSession: both rows in one transaction.
HeartbeatWorkerAndSession(w) ==
  /\ WorkerExists(w)
  /\ workerAge' = [workerAge EXCEPT ![w] = 0]
  /\ sessionAge' = [sessionAge EXCEPT ![workerSession[w]] = 0]
  /\ UNCHANGED <<planVars, taskVars, sessionRow,
                 workerRow, workerSession, workerTask>>

\* SetWorkerTask: the task must exist (foreign key); only the worker's own
\* heartbeat is refreshed, not its session's.
SetWorkerTask(w, t) ==
  /\ WorkerExists(w)
  /\ status[t] # "absent"
  /\ workerRow' = [workerRow EXCEPT ![w] = "running"]
  /\ workerTask' = [workerTask EXCEPT ![w] = t]
  /\ workerAge' = [workerAge EXCEPT ![w] = 0]
  /\ UNCHANGED <<planVars, taskVars, sessionVars, workerSession>>

\* ClearWorkerTask(w, "idle" | "crashed"): clears the row's task, not a claim.
ClearWorkerTask(w, st) ==
  /\ WorkerExists(w)
  /\ workerRow' = [workerRow EXCEPT ![w] = st]
  /\ workerTask' = [workerTask EXCEPT ![w] = NoTask]
  /\ workerAge' = [workerAge EXCEPT ![w] = 0]
  /\ UNCHANGED <<planVars, taskVars, sessionVars, workerSession>>

\* What deleting the sessions in S and the workers in W does through the
\* foreign keys: a session's workers are deleted with it (CASCADE), and the
\* claims that name a deleted row are set to NULL.  The claims of the tasks in
\* released are cleared as well.
DeleteRows(S, W, released) ==
  LET goneWorkers == W \cup {w \in Worker : WorkerExists(w) /\ workerSession[w] \in S}
  IN  /\ sessionRow' = [s \in Session |-> IF s \in S THEN "gone" ELSE sessionRow[s]]
      /\ sessionAge' = [s \in Session |-> IF s \in S THEN 0 ELSE sessionAge[s]]
      /\ workerRow' = [w \in Worker |-> IF w \in goneWorkers THEN "gone" ELSE workerRow[w]]
      /\ workerSession' = [w \in Worker |->
                             IF w \in goneWorkers THEN NoSession ELSE workerSession[w]]
      /\ workerTask' = [w \in Worker |-> IF w \in goneWorkers THEN NoTask ELSE workerTask[w]]
      /\ workerAge' = [w \in Worker |-> IF w \in goneWorkers THEN 0 ELSE workerAge[w]]
      /\ claimSession' = [t \in Task |->
                            IF t \in released \/ claimSession[t] \in S
                            THEN NoSession ELSE claimSession[t]]
      /\ claimWorker' = [t \in Task |->
                           IF t \in released \/ claimWorker[t] \in goneWorkers
                           THEN NoWorker ELSE claimWorker[t]]

CloseSession(s) ==
  /\ sessionRow[s] = "open"
  /\ DeleteRows({s}, {}, {})
  /\ UNCHANGED <<planVars, status, retryCount, approved>>

\* ReclaimWorker: every running task whose claim names w is requeued, free of
\* charge, and the worker row is terminated.
ReclaimWorker(w) ==
  /\ WorkerExists(w)
  /\ LET held == {t \in Task : status[t] = "running" /\ claimWorker[t] = w}
     IN  /\ status' = [t \in Task |-> IF t \in held THEN "pending" ELSE status[t]]
         /\ claimSession' = [t \in Task |->
                               IF t \in held THEN NoSession ELSE claimSession[t]]
         /\ claimWorker' = [t \in Task |->
                              IF t \in held THEN NoWorker ELSE claimWorker[t]]
  /\ workerRow' = [workerRow EXCEPT ![w] = "terminated"]
  /\ workerTask' = [workerTask EXCEPT ![w] = NoTask]
  /\ workerAge' = [workerAge EXCEPT ![w] = 0]
  /\ UNCHANGED <<planVars, retryCount, approved, sessionVars, workerSession>>

-----------------------------------------------------------------------------
(* The life of a claim *)

\* The conditions of ClaimTask / claimTaskOnce: the named task, its dependencies
\* satisfied, no running peer on its outputs; the foreign keys want both rows.
\* The worker belongs to the session: spawnWorkerRows creates the pair.
CanClaim(t, s, w) ==
  /\ status[t] \in Claimable
  /\ DepsSatisfied(t)
  /\ ~OutputReserved(t)
  /\ sessionRow[s] = "open"
  /\ WorkerExists(w) /\ workerSession[w] = s

ClaimTask(t, s, w) ==
  /\ CanClaim(t, s, w)
  /\ status' = [status EXCEPT ![t] = "running"]
  /\ claimSession' = [claimSession EXCEPT ![t] = s]
  /\ claimWorker' = [claimWorker EXCEPT ![t] = w]
  /\ UNCHANGED <<planVars, retryCount, approved, sessionVars, workerVars>>

\* Mutant: claimed_by_worker_id is not cleared with the session.
EndClaimKeepsWorker(t, s, newStatus) ==
  /\ OwnsRunning(t, s)
  /\ status' = [status EXCEPT ![t] = newStatus]
  /\ claimSession' = [claimSession EXCEPT ![t] = NoSession]
  /\ UNCHANGED <<planVars, claimWorker, approved, sessionVars, workerVars>>

\* The owner-guarded exits of a claim set a status and clear both claims.
EndClaim(t, s, newStatus) ==
  /\ OwnsRunning(t, s)
  /\ status' = [status EXCEPT ![t] = newStatus]
  /\ claimSession' = [claimSession EXCEPT ![t] = NoSession]
  /\ claimWorker' = [claimWorker EXCEPT ![t] = NoWorker]
  /\ UNCHANGED <<planVars, approved, sessionVars, workerVars>>

MarkDone(t, s) ==
  /\ EndClaim(t, s, "done")
  /\ UNCHANGED retryCount

\* Mutant: the retry boundary is off by one.
MarkFailedOneMore(t, s, maxRetries) ==
  IF retryCount[t] <= maxRetries
  THEN /\ EndClaim(t, s, "pending")
       /\ retryCount' = [retryCount EXCEPT ![t] = @ + 1]
  ELSE /\ EndClaim(t, s, "failed")
       /\ UNCHANGED retryCount

\* MarkFailedWithPayload: another attempt while the budget lasts, else the
\* terminal failure.
MarkFailed(t, s, maxRetries) ==
  IF retryCount[t] + 1 <= maxRetries
  THEN /\ EndClaim(t, s, "pending")
       /\ retryCount' = [retryCount EXCEPT ![t] = @ + 1]
  ELSE /\ EndClaim(t, s, "failed")
       /\ UNCHANGED retryCount

ReleaseClaim(t, s) ==
  /\ EndClaim(t, s, "pending")
  /\ UNCHANGED retryCount

MarkBlocked(t, s) ==
  /\ EndClaim(t, s, "blocked")
  /\ UNCHANGED retryCount

\* MarkBlockedCapability / MarkBlockedInput, before dispatch.
MarkGateBlocked(t, block) ==
  /\ status[t] \in Claimable \cup GateBlocks
  /\ status' = [status EXCEPT ![t] = block]
  /\ UNCHANGED <<planVars, claimSession, claimWorker, retryCount, approved,
                 sessionVars, workerVars>>

\* ClearTaskBlock: only the named block is released.
ClearTaskBlock(t, block) ==
  /\ status[t] = block
  /\ status' = [status EXCEPT ![t] = "pending"]
  /\ UNCHANGED <<planVars, claimSession, claimWorker, retryCount, approved,
                 sessionVars, workerVars>>

\* Mutants: the reaper joins the worker rows, so that it misses a NULL worker;
\* it forgets to ask for running tasks; it wants the worker row running too.
StaleClaimsJoined ==
  {t \in Task : /\ status[t] = "running"
                /\ \E w \in Worker : /\ claimWorker[t] = w
                                     /\ WorkerExists(w)
                                     /\ workerAge[w] > StaleAfter}

StaleClaimsAnyStatus ==
  {t \in Task : /\ status[t] # "absent"
                /\ \/ claimWorker[t] = NoWorker
                   \/ \E w \in Worker : claimWorker[t] = w /\ workerAge[w] > StaleAfter}

StaleClaimsOfRunningRows ==
  {t \in Task : /\ status[t] = "running"
                /\ \E w \in Worker : /\ claimWorker[t] = w
                                     /\ workerRow[w] = "running"
                                     /\ workerAge[w] > StaleAfter}

\* ReclaimStale.  Step 1 requeues the running tasks whose worker's heartbeat is
\* older than StaleAfter and those whose worker is NULL; step 2 deletes the
\* workers, then the sessions, older than DeleteAfter, sparing a session that
\* still owns a worker with a fresh heartbeat.
StaleClaims ==
  {t \in Task : /\ status[t] = "running"
                /\ \/ claimWorker[t] = NoWorker
                   \/ \E w \in Worker : /\ claimWorker[t] = w
                                        /\ WorkerExists(w)
                                        /\ workerAge[w] > StaleAfter}

DeadWorkers == {w \in Worker : WorkerExists(w) /\ workerAge[w] > DeleteAfter}

\* Mutant: a session is deleted whatever its workers' heartbeats say.
DeadSessionsUnguarded ==
  {s \in Session : sessionRow[s] = "open" /\ sessionAge[s] > DeleteAfter}

DeadSessions ==
  {s \in Session :
     /\ sessionRow[s] = "open"
     /\ sessionAge[s] > DeleteAfter
     /\ ~ \E w \in Worker : /\ WorkerExists(w) /\ workerSession[w] = s
                            /\ workerAge[w] <= StaleAfter}

ReclaimStale ==
  /\ status' = [t \in Task |-> IF t \in StaleClaims THEN "pending" ELSE status[t]]
  /\ DeleteRows(DeadSessions, DeadWorkers, StaleClaims)
  /\ UNCHANGED <<planVars, retryCount, approved>>

\* Time passes: every row gets older.
Older(age) == IF age < MaxAge THEN age + 1 ELSE age

Tick ==
  /\ sessionAge' = [s \in Session |->
                      IF sessionRow[s] = "open" THEN Older(sessionAge[s]) ELSE sessionAge[s]]
  /\ workerAge' = [w \in Worker |->
                     IF WorkerExists(w) THEN Older(workerAge[w]) ELSE workerAge[w]]
  /\ UNCHANGED <<planVars, taskVars, sessionRow, workerRow, workerSession, workerTask>>

-----------------------------------------------------------------------------
StoreInit ==
  /\ planStatus = [p \in Plan |-> "absent"]
  /\ status = [t \in Task |-> "absent"]
  /\ claimSession = [t \in Task |-> NoSession]
  /\ claimWorker = [t \in Task |-> NoWorker]
  /\ retryCount = [t \in Task |-> 0]
  /\ approved = {}
  /\ sessionRow = [s \in Session |-> "absent"]
  /\ sessionAge = [s \in Session |-> 0]
  /\ workerRow = [w \in Worker |-> "absent"]
  /\ workerSession = [w \in Worker |-> NoSession]
  /\ workerTask = [w \in Worker |-> NoTask]
  /\ workerAge = [w \in Worker |-> 0]

PlanNext ==
  \E p \in Plan :
    \/ CreatePlanGraph(p)
    \/ \E st \in {"active", "stopped"} : SetPlanStatus(p, st)
    \/ DeletePlan(p)

RowNext ==
  \/ \E s \in Session : CreateSession(s) \/ HeartbeatSession(s) \/ CloseSession(s)
  \/ \E w \in Worker :
       \/ \E s \in Session : CreateWorker(w, s)
       \/ HeartbeatWorkerAndSession(w)
       \/ \E t \in Task : SetWorkerTask(w, t)
       \/ \E st \in {"idle", "crashed"} : ClearWorkerTask(w, st)
       \/ ReclaimWorker(w)

TaskNext ==
  \E t \in Task :
    \/ ApproveTask(t)
    \/ \E block \in GateBlocks : MarkGateBlocked(t, block) \/ ClearTaskBlock(t, block)
    \/ \E s \in Session :
         \/ \E w \in Worker : ClaimTask(t, s, w)
         \/ MarkDone(t, s)
         \/ \E budget \in {0, MaxRetries} : MarkFailed(t, s, budget)
         \/ ReleaseClaim(t, s)
         \/ MarkBlocked(t, s)

StoreNext == PlanNext \/ RowNext \/ TaskNext \/ ReclaimStale \/ Tick

StoreSpec == StoreInit /\ [][StoreNext]_storeVars
-----------------------------------------------------------------------------
(* Properties *)

\* Every column holds a value of its domain, and no task's retry_count ever
\* exceeds the budget MarkFailedWithPayload compares it with.
TypeOK ==
  /\ planStatus \in [Plan -> PlanStatuses]
  /\ status \in [Task -> TaskStatuses \cup {"absent"}]
  /\ claimSession \in [Task -> Session \cup {NoSession}]
  /\ claimWorker \in [Task -> Worker \cup {NoWorker}]
  /\ retryCount \in [Task -> 0..MaxRetries]
  /\ approved \subseteq Task
  /\ sessionRow \in [Session -> {"absent", "open", "gone"}]
  /\ sessionAge \in [Session -> 0..MaxAge]
  /\ workerRow \in [Worker -> WorkerStatuses \cup {"absent", "gone"}]
  /\ workerSession \in [Worker -> Session \cup {NoSession}]
  /\ workerTask \in [Worker -> Task \cup {NoTask}]
  /\ workerAge \in [Worker -> 0..MaxAge]

\* The claim columns never lie, through every report, kill, reclaim and
\* foreign-key cascade: only a running task carries a claim; a claim names rows
\* that exist; and the worker it names belongs to the session it names.  So a
\* task cannot be running for a worker whose session is gone, which is what
\* lets the reaper's two WHERE branches see every abandoned claim.
ClaimsNameLiveRows ==
  \A t \in Task :
    /\ status[t] # "running" => claimSession[t] = NoSession /\ claimWorker[t] = NoWorker
    /\ claimSession[t] # NoSession => sessionRow[claimSession[t]] = "open"
    /\ claimWorker[t] # NoWorker =>
         /\ WorkerExists(claimWorker[t])
         /\ workerSession[claimWorker[t]] = claimSession[t]

\* A worker row never outlives the session row that owns it (ON DELETE
\* CASCADE).
WorkersHaveSessions ==
  \A w \in Worker : WorkerExists(w) =>
    workerSession[w] \in Session /\ sessionRow[workerSession[w]] = "open"

\* A plan that is not (or no longer) stored has no task rows.
TasksHavePlans ==
  \A t \in Task : planStatus[PlanOf[t]] \in {"absent", "deleted"} => status[t] = "absent"

\* The exclusivity output reservations exist for: two running tasks of one
\* project never write the same file, even from two plans.
OutputExclusive ==
  \A t, u \in Task :
    SameOutput(t, u) => ~(status[t] = "running" /\ status[u] = "running")

\* No task has started before its dependencies were satisfied, and none of them
\* becomes unsatisfied afterwards.
DependenciesFirst ==
  \A t \in Task :
    status[t] \in {"running", "done", "failed", "blocked"} =>
      \A d \in DependsOn[t] : status[d] \in Satisfied

\* A step marked [approval] is never claimable, running or finished unless an
\* operator approved it, however often it is retried, blocked or reclaimed.
ApprovalGate ==
  \A t \in Gated :
    status[t] \notin {"absent", "ready_pending_approval"} => t \in approved

\* The SAFETY INVARIANT of ReclaimStale: a reaper pass never takes a running
\* task away from a worker whose heartbeat is fresh, neither by requeueing it
\* nor by deleting its session and cascading the claim to NULL.
ReaperSparesFreshClaims ==
  [][ReclaimStale =>
       \A t \in Task, w \in Worker :
         (status[t] = "running" /\ claimWorker[t] = w /\ workerAge[w] <= StaleAfter)
           => /\ status'[t] = "running"
              /\ claimWorker'[t] = w
              /\ claimSession'[t] = claimSession[t]]_storeVars

\* After a reaper pass no abandoned claim is left: whatever still runs is held
\* by a worker row with a fresh heartbeat, under an open session.
ReaperLeavesNoOrphan ==
  [][ReclaimStale =>
       \A t \in Task : status'[t] = "running" =>
         /\ claimWorker'[t] # NoWorker
         /\ workerRow'[claimWorker'[t]] \in WorkerStatuses
         /\ workerAge'[claimWorker'[t]] <= StaleAfter
         /\ sessionRow'[claimSession'[t]] = "open"]_storeVars

\* A verdict is final: a task that is done or terminally failed keeps that
\* status until its plan is deleted; no late report, kill or reaper pass
\* resurrects it, and its retry count is settled.
VerdictIsFinal ==
  [][\A t \in Task : status[t] \in {"done", "failed"} =>
       /\ status'[t] = status[t] \/ planStatus'[PlanOf[t]] = "deleted"
       /\ retryCount'[t] = retryCount[t]]_storeVars

\* The inductive invariant the theorems of TaskStoreProofs rest on.
StoreInv ==
  /\ TypeOK
  /\ ClaimsNameLiveRows
  /\ WorkersHaveSessions
  /\ TasksHavePlans
  /\ OutputExclusive
  /\ DependenciesFirst
  /\ ApprovalGate
=============================================================================
