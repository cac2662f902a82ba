------------------------------ MODULE Dispatch ------------------------------
(***************************************************************************)
(* The supervisor around the store: dispatch passes (internal/orch         *)
(* DispatchNext), the goroutine that runs each attempt at a task           *)
(* (dispatchWorker, VerifyAndCompleteAs, recoverDispatchPanic), the drive  *)
(* handlers an operator calls (internal/supervisor/drive.go), the periodic *)
(* tick with its reaper, shutdown, and crash with restart.                 *)
(*                                                                         *)
(* An attempt is named by its worker id w; spawnWorkerRows gives each      *)
(* attempt a session and a worker row of its own.  pc[w] is how far it is: *)
(*   in the dispatcher, under dispatchMu                                   *)
(*     admitted  a dispatch slot is taken                                  *)
(*     session   its session row exists                                    *)
(*     rows      its worker row exists too                                 *)
(*     claimed   ClaimTask succeeded                                       *)
(*   in its own goroutine                                                  *)
(*     setup     launched; runner, containment and limits being resolved   *)
(*     turn      registered in runningWorkers, provider process running    *)
(*     record    runner.Run returned; usage and evidence being written     *)
(*     report    MarkFailedWithPayload for a failed turn is next           *)
(*     verify    VerifyAndCompleteAs is about to read the task             *)
(*     checking  the acceptance command runs                               *)
(*     mark      the verdict is about to be written                        *)
(*     panicked  recoverDispatchPanic is about to release the claim        *)
(*     clear, clearCrashed   ClearWorkerTask is next                       *)
(*   ended     the goroutine is gone                                       *)
(*                                                                         *)
(* Every step is one store transaction, one in-memory step, or both where  *)
(* nothing can come between them.  The supervisor's own session row owns   *)
(* no worker and no claim and is left out.  A native fan-out group, which  *)
(* claims several tasks for one worker, is not modelled here.              *)
(***************************************************************************)
EXTENDS TaskStore

CONSTANTS
  SessionOf,      \* the session row spawnWorkerRows creates for an attempt
  MaxParallel,    \* capacity of dispatchSem
  Undispatchable, \* tasks whose declarations a gate may refuse at first
  SetupBudget,    \* time from the claim to runner.Run
  BeatEvery,      \* workerHeartbeatInterval
  PersistBudget,  \* persistBudget
  Punctual,       \* TRUE: every timer and budget above is met
  Faults, Pauses, Kills, Deletes, \* TRUE where a run has them
  MaxRestarts     \* bound on shutdowns and crashes

ASSUME DispatchAssumption ==
  /\ Task # {} /\ Worker # {}
  /\ SessionOf \in [Worker -> Session]
  /\ \A v, w \in Worker : SessionOf[v] = SessionOf[w] => v = w
  /\ MaxParallel \in Nat \ {0}
  /\ Undispatchable \subseteq Task
  /\ {SetupBudget, BeatEvery, PersistBudget, MaxRestarts} \subseteq Nat
  /\ {Punctual, Faults, Pauses, Kills, Deletes} \subseteq BOOLEAN

VARIABLES
  round,      \* plans a dispatch round has listed and not yet passed over
  pass,       \* tasks of the current pass's ready list not yet examined
  slots,      \* tokens in dispatchSem
  pc, job,    \* where an attempt is, and its task
  outcome,    \* how its turn, then its acceptance check, came out
  clock,      \* time since it entered its pc, or since its last heartbeat
  beatRow,    \* the worker row its verification keeps alive
  cancelled,  \* attempts whose run context KillWorker has cancelled
  stopping,   \* the run context is cancelled: shutdown is draining
  restarts,   \* shutdowns and crashes so far
  killing,    \* the worker a HandleWorkerKill has cancelled, not yet reclaimed
  deleting,   \* the plan a HandlePlanDelete is at work on, as a set
  doomed,     \* the workers it listed and has not yet cancelled
  escaping,   \* tasks whose declared paths leave the project
  unmet       \* tasks whose required capability the binding lacks

passVars     == <<round, pass, slots>>
attemptVars  == <<pc, job, outcome, clock, beatRow>>
operatorVars == <<killing, deleting, doomed>>
gateVars     == <<escaping, unmet>>
processVars  == <<stopping, restarts>>
controlVars  == <<passVars, attemptVars, cancelled, processVars, operatorVars, gateVars>>
vars         == <<storeVars, controlVars>>

-----------------------------------------------------------------------------
(* Vocabulary *)

InDispatcher == {"admitted", "session", "rows", "claimed"}
InGoroutine  == {"setup", "turn", "record", "report", "verify", "checking",
                 "mark", "panicked", "clear", "clearCrashed"}
Phases       == {"unused", "ended"} \cup InDispatcher \cup InGoroutine

\* From launch until the verdict is written: an attempt that believes the task
\* is its own.
Working == {"setup", "turn", "record", "report", "verify", "checking", "mark"}

\* How runner.Run can come back, and what the acceptance check can say.
TurnOutcomes == {"ok", "retryable", "terminal", "canceled"}
Outcomes     == TurnOutcomes \cup {"none", "pass", "reject"}

\* A store call can fail at any time in a run with Faults, and does when its
\* context is cancelled.
CallFails == Faults \/ stopping

Busy == \E w \in Worker : pc[w] \in InDispatcher

Owns(w) == OwnsRunning(job[w], SessionOf[w])

\* The provider process of w runs and nothing has told it to stop.
LiveTurn(w) == pc[w] = "turn" /\ w \notin cancelled /\ ~stopping

\* Failure.RetryBudget(defaultTurnRetries): none for a terminal failure, and
\* cancellation is one.
RetryBudget(out) == IF out = "retryable" THEN MaxRetries ELSE 0

Goto(w, to) ==
  /\ pc' = [pc EXCEPT ![w] = to]
  /\ clock' = [clock EXCEPT ![w] = 0]

\* The end of an attempt, in the dispatcher or in its goroutine, returns the
\* dispatch slot; its local variables go with it.
Finish(w) ==
  /\ Goto(w, "ended")
  /\ slots' = slots - 1
  /\ outcome' = [outcome EXCEPT ![w] = "none"]
  /\ beatRow' = [beatRow EXCEPT ![w] = NoWorker]
  /\ UNCHANGED job

\* ClearWorkerTask with its error ignored.
ReleaseRow(w, st) ==
  \/ ClearWorkerTask(w, st)
  \/ (~WorkerExists(w) \/ CallFails) /\ UNCHANGED storeVars

Step(w, to) ==
  /\ Goto(w, to)
  /\ beatRow' = [beatRow EXCEPT ![w] = NoWorker]
  /\ UNCHANGED <<slots, job, outcome>>

\* A goroutine touches nothing but the store, its own attempt and the slots.
TurnFrame == UNCHANGED <<round, pass, processVars, operatorVars, gateVars>>

GoroutineFrame == TurnFrame /\ UNCHANGED cancelled
-----------------------------------------------------------------------------
(* A dispatch pass *)

DispatchFrame == UNCHANGED <<cancelled, processVars, operatorVars, gateVars>>

\* dispatchActivePlans takes dispatchMu and lists the active plans, once.
BeginRound ==
  /\ round = {} /\ pass = {} /\ ~Busy /\ ~stopping
  /\ round' = {p \in Plan : planStatus[p] = "active"}
  /\ UNCHANGED <<storeVars, pass, slots, attemptVars>> /\ DispatchFrame

\* DispatchNext for one of them loads its ready wave, which is not refreshed
\* while the pass lasts.  A plan that has been deleted, or a store that cannot
\* be read, ends this pass before it begins; the round goes on.
BeginPass(p) ==
  /\ p \in round
  /\ pass = {} /\ ~Busy
  /\ round' = round \ {p}
  /\ \/ pass' = ReadyPartitions(p)
     \/ CallFails /\ pass' = {}
  /\ UNCHANGED <<storeVars, slots, attemptVars>> /\ DispatchFrame

\* stepGateBlocks refuses t: the path gate is asked first.  In a sequential
\* group the rest of the pass is dropped with it.
GateRefuses(t) ==
  /\ t \in pass /\ ~Busy
  /\ \/ t \in escaping /\ MarkGateBlocked(t, "blocked_input")
     \/ t \in unmet \ escaping /\ MarkGateBlocked(t, "blocked_capability")
  /\ pass' \in {pass \ {t}, {}}
  /\ UNCHANGED <<round, slots, attemptVars>> /\ DispatchFrame

\* The capability gate finds its requirement met and lifts its own block.
GateClears(t) ==
  /\ t \in pass \ (escaping \cup unmet) /\ ~Busy
  /\ ClearTaskBlock(t, "blocked_capability")
  /\ UNCHANGED <<passVars, attemptVars>> /\ DispatchFrame

\* acquireDispatchSlot: a try-acquire of dispatchSem.
SlotFree == slots < MaxParallel

\* The gates let t through and a slot is free.
Admit(w, t) ==
  /\ t \in pass \ (escaping \cup unmet) /\ ~Busy
  /\ status[t] \notin {"absent", "blocked_capability"}
  /\ pc[w] = "unused"
  /\ SlotFree
  /\ slots' = slots + 1
  /\ pass' = pass \ {t}
  /\ Goto(w, "admitted")
  /\ job' = [job EXCEPT ![w] = t]
  /\ UNCHANGED <<storeVars, round, outcome, beatRow>> /\ DispatchFrame

\* The next step to admit finds the pipeline full or its task row gone, or the
\* pass has used up its admissions, which takes at least MaxParallel attempts:
\* the pass stops here.  (So does it when the model's worker ids are used up.)
AbandonPass ==
  /\ pass # {} /\ ~Busy
  /\ \/ \E t \in pass \ (escaping \cup unmet) :
          ~SlotFree /\ status[t] # "blocked_capability"
     \/ CallFails \/ \E t \in pass : status[t] = "absent"
     \/ Cardinality({w \in Worker : pc[w] # "unused"}) >= MaxParallel
     \/ \A w \in Worker : pc[w] # "unused"
  /\ pass' = {}
  /\ UNCHANGED <<storeVars, round, slots, attemptVars>> /\ DispatchFrame

\* Binding, containment or spend cap refuse the step: the slot is returned and
\* nothing else has happened yet.  A binding that cannot be resolved at all ends
\* the pass.
RefuseAdmission(w) ==
  /\ pc[w] = "admitted"
  /\ Goto(w, "unused")
  /\ slots' = slots - 1
  /\ pass' \in {pass, {}}
  /\ UNCHANGED <<storeVars, round, job, outcome, beatRow>> /\ DispatchFrame

\* The two calls of spawnWorkerRows.
SpawnSession(w) ==
  /\ pc[w] = "admitted"
  /\ CreateSession(SessionOf[w])
  /\ pc' = [pc EXCEPT ![w] = "session"]
  /\ UNCHANGED <<passVars, job, outcome, clock, beatRow>> /\ DispatchFrame

SpawnWorker(w) ==
  /\ pc[w] = "session"
  /\ CreateWorker(w, SessionOf[w])
  /\ Step(w, "rows")
  /\ UNCHANGED <<round, pass>> /\ DispatchFrame

\* One of them fails; a session row already written is left to the reaper.
SpawnFails(w) ==
  /\ pc[w] \in {"admitted", "session"}
  /\ CallFails \/ (pc[w] = "session" /\ sessionRow[SessionOf[w]] # "open")
  /\ Finish(w)
  /\ pass' = {}
  /\ UNCHANGED <<storeVars, round>> /\ DispatchFrame

ClaimStep(w) ==
  /\ pc[w] = "rows"
  /\ ClaimTask(job[w], SessionOf[w], w)
  /\ pc' = [pc EXCEPT ![w] = "claimed"]
  /\ UNCHANGED <<passVars, job, outcome, clock, beatRow>> /\ DispatchFrame

\* The step is not claimable right now: its worker row is released and the pass
\* goes on.
LoseClaim(w) ==
  /\ pc[w] = "rows"
  /\ ~CanClaim(job[w], SessionOf[w], w)
  /\ status[job[w]] # "absent" /\ WorkerExists(w)
  /\ ReleaseRow(w, "idle")
  /\ Finish(w)
  /\ UNCHANGED <<round, pass>> /\ DispatchFrame

\* The claim fails, or its task or its rows are gone: the pass ends.
ClaimFails(w) ==
  /\ pc[w] = "rows"
  /\ CallFails \/ status[job[w]] = "absent" \/ ~WorkerExists(w)
  /\ ReleaseRow(w, "crashed")
  /\ Finish(w)
  /\ pass' = {}
  /\ UNCHANGED round /\ DispatchFrame

\* SetWorkerTask, then the goroutine.  An UPDATE of a row that is gone is no
\* error.
Launch(w) ==
  /\ pc[w] = "claimed"
  /\ \/ SetWorkerTask(w, job[w])
     \/ ~WorkerExists(w) /\ UNCHANGED storeVars
  /\ Step(w, "setup")
  /\ UNCHANGED <<round, pass>> /\ DispatchFrame

\* Mutant: the slot is not returned.
LaunchFailsLeaky(w) ==
  /\ pc[w] = "claimed"
  /\ CallFails \/ (WorkerExists(w) /\ status[job[w]] = "absent")
  /\ Step(w, "ended")
  /\ pass' = {}
  /\ UNCHANGED <<storeVars, round>> /\ DispatchFrame

\* SetWorkerTask fails (the task row is gone, or the write does): the slot is
\* returned, the claim and the worker row are left to the reaper, the pass ends.
LaunchFails(w) ==
  /\ pc[w] = "claimed"
  /\ CallFails \/ (WorkerExists(w) /\ status[job[w]] = "absent")
  /\ Finish(w)
  /\ pass' = {}
  /\ UNCHANGED <<storeVars, round>> /\ DispatchFrame

DispatcherStep(w) ==
  \/ RefuseAdmission(w) \/ SpawnSession(w) \/ SpawnWorker(w) \/ SpawnFails(w)
  \/ ClaimStep(w) \/ LoseClaim(w) \/ ClaimFails(w) \/ Launch(w) \/ LaunchFails(w)
-----------------------------------------------------------------------------
(* The goroutine of an attempt: dispatchWorker *)

\* registerWorker, then runner.Run: from here on KillWorker can find w.
StartTurn(w) ==
  /\ pc[w] = "setup"
  /\ Step(w, "turn")
  /\ UNCHANGED storeVars /\ GoroutineFrame

\* The runner, the containment root or the limits cannot be resolved (under a
\* cancelled run context the store read behind the second fails): the goroutine
\* returns and leaves the claim to the reaper.
SetupFails(w) ==
  /\ pc[w] = "setup"
  /\ CallFails
  /\ Finish(w)
  /\ UNCHANGED storeVars /\ GoroutineFrame

\* beatWhile, around the turn and around the acceptance check.  The turn's
\* heartbeat runs under the run context and ends with it; verification's does
\* not.  A failed beat is ignored.
Beat(w, row) ==
  /\ \/ row \in Worker /\ HeartbeatWorkerAndSession(row)
     \/ (row \in Worker => ~WorkerExists(row)) /\ UNCHANGED storeVars
  /\ clock' = [clock EXCEPT ![w] = 0]
  /\ UNCHANGED <<slots, pc, job, outcome, beatRow>> /\ GoroutineFrame

BeatTurn(w) == pc[w] = "turn" /\ ~stopping /\ Beat(w, w)

\* Mutant: nothing beats while the acceptance command runs.
BeatCheckSilent(w) == pc[w] = "checking" /\ Beat(w, NoWorker)

BeatCheck(w) == pc[w] = "checking" /\ Beat(w, beatRow[w])

\* runner.Run returns and the attempt is deregistered, with its context.  A
\* cancelled turn may still have finished, or failed in a way that is classified
\* before cancellation.
EndTurn(w, out) ==
  /\ pc[w] = "turn"
  /\ out = "canceled" => w \in cancelled \/ stopping
  /\ Goto(w, "record")
  /\ outcome' = [outcome EXCEPT ![w] = out]
  /\ cancelled' = cancelled \ {w}
  /\ UNCHANGED <<storeVars, slots, job, beatRow>> /\ TurnFrame

\* recordUsage and AppendMessage.  Their rows reference the worker and the task.
RecordTurn(w) ==
  /\ pc[w] = "record"
  /\ WorkerExists(w) /\ status[job[w]] # "absent"
  /\ pc' = [pc EXCEPT ![w] = IF outcome[w] = "ok" THEN "verify" ELSE "report"]
  /\ UNCHANGED <<storeVars, slots, job, outcome, clock, beatRow>> /\ GoroutineFrame

\* One of these writes fails, or the report of the failure does: the goroutine
\* returns, and leaves claim and worker row to the reaper.
RecordFails(w) ==
  /\ \/ /\ pc[w] = "record"
        /\ Faults \/ ~WorkerExists(w) \/ status[job[w]] = "absent"
     \/ pc[w] = "report" /\ Faults
  /\ Finish(w)
  /\ UNCHANGED storeVars /\ GoroutineFrame

\* MarkFailedWithPayload under the attempt's own session: a stale report
\* changes nothing.
ReportFailure(w) ==
  /\ pc[w] = "report"
  /\ \/ MarkFailed(job[w], SessionOf[w], RetryBudget(outcome[w]))
     \/ ~Owns(w) /\ UNCHANGED storeVars
  /\ Step(w, "clearCrashed")
  /\ GoroutineFrame

\* VerifyAndCompleteAs reads the task once; the row it will keep alive is that
\* of the claim's owner at this moment.
BeginCheck(w) ==
  /\ pc[w] = "verify"
  /\ status[job[w]] # "absent"
  /\ Goto(w, "checking")
  /\ beatRow' = [beatRow EXCEPT ![w] = claimWorker[job[w]]]
  /\ UNCHANGED <<storeVars, slots, job, outcome>> /\ GoroutineFrame

\* The acceptance command answers within verificationBudget.
EndCheck(w, verdict) ==
  /\ pc[w] = "checking"
  /\ Goto(w, "mark")
  /\ outcome' = [outcome EXCEPT ![w] = verdict]
  /\ beatRow' = [beatRow EXCEPT ![w] = NoWorker]
  /\ UNCHANGED <<storeVars, slots, job>> /\ GoroutineFrame

\* No verdict: the task cannot be read, the check errs or exceeds its budget,
\* or the verdict cannot be written.  The task stays as it is.
LoseVerdict(w) ==
  /\ \/ pc[w] = "verify" /\ (Faults \/ status[job[w]] = "absent")
     \/ pc[w] = "checking"
     \/ pc[w] = "mark" /\ Faults
  /\ Step(w, "clear")
  /\ UNCHANGED storeVars /\ GoroutineFrame

\* Mutant: the verdict is written under the task's current owner (issue #248).
MarkVerdictAsOwner(w) ==
  /\ pc[w] = "mark"
  /\ \/ /\ outcome[w] = "pass"
        /\ MarkDone(job[w], claimSession[job[w]])
     \/ /\ outcome[w] = "reject"
        /\ MarkFailed(job[w], claimSession[job[w]], MaxRetries)
     \/ ~Owns(w) /\ UNCHANGED storeVars
  /\ Step(w, "clear")
  /\ GoroutineFrame

\* MarkDone, or MarkFailedWithPayload with the retries of a rejection, under
\* the session that produced the evidence.
MarkVerdict(w) ==
  /\ pc[w] = "mark"
  /\ \/ /\ outcome[w] = "pass"
        /\ MarkDone(job[w], SessionOf[w])
     \/ /\ outcome[w] = "reject"
        /\ MarkFailed(job[w], SessionOf[w], MaxRetries)
     \/ ~Owns(w) /\ UNCHANGED storeVars
  /\ Step(w, "clear")
  /\ GoroutineFrame

\* A panic anywhere in the goroutine; recoverDispatchPanic releases the claim
\* free of charge.
Panic(w) ==
  /\ Faults
  /\ pc[w] \in Working
  /\ Step(w, "panicked")
  /\ cancelled' = cancelled \ {w}
  /\ UNCHANGED storeVars /\ TurnFrame

RecoverPanic(w) ==
  /\ pc[w] = "panicked"
  /\ \/ ReleaseClaim(job[w], SessionOf[w])
     \/ (~Owns(w) \/ Faults) /\ UNCHANGED storeVars
  /\ Step(w, "clearCrashed")
  /\ GoroutineFrame

\* ClearWorkerTask, then the deferred releases.  After a verification that took
\* longer than the turn's persistBudget its context has expired, and the row is
\* left as it is.
EndAttempt(w) ==
  /\ \/ pc[w] = "clear" /\ (ReleaseRow(w, "idle") \/ UNCHANGED storeVars)
     \/ pc[w] = "clearCrashed" /\ ReleaseRow(w, "crashed")
  /\ Finish(w)
  /\ GoroutineFrame

GoroutineStep(w) ==
  \/ StartTurn(w) \/ SetupFails(w)
  \/ \E out \in TurnOutcomes : EndTurn(w, out)
  \/ RecordTurn(w) \/ RecordFails(w) \/ ReportFailure(w)
  \/ BeginCheck(w) \/ (\E verdict \in {"pass", "reject"} : EndCheck(w, verdict))
  \/ LoseVerdict(w) \/ MarkVerdict(w) \/ RecoverPanic(w) \/ EndAttempt(w)
-----------------------------------------------------------------------------
(* The drive handlers *)

OperatorFrame == UNCHANGED <<passVars, attemptVars, processVars, gateVars>>

\* KillWorker: cancels the run context registered under w, if there is one.
KillWorker(w) ==
  cancelled' = IF pc[w] = "turn" THEN cancelled \cup {w} ELSE cancelled

\* HandleWorkerKill: first the process, then the store.  An operator picks w
\* from the running workers that the status reply lists.  One kill and one
\* deletion are under way at a time: a bound.
KillProcess(w) ==
  /\ Kills
  /\ killing = NoWorker
  /\ workerRow[w] = "running"
  /\ KillWorker(w)
  /\ killing' = w
  /\ UNCHANGED <<storeVars, deleting, doomed>> /\ OperatorFrame

KillRow ==
  /\ killing # NoWorker
  /\ \/ ReclaimWorker(killing)
     \/ (~WorkerExists(killing) \/ CallFails) /\ UNCHANGED storeVars
  /\ killing' = NoWorker
  /\ UNCHANGED <<cancelled, deleting, doomed>> /\ OperatorFrame

\* HandlePlanDelete: list the running workers of the plan, cancel each, delete.
ListPlanWorkers(p) ==
  /\ Deletes
  /\ deleting = {}
  /\ planStatus[p] \notin {"absent", "deleted"}
  /\ deleting' = {p}
  /\ doomed' = {w \in Worker : /\ workerRow[w] = "running"
                               /\ workerTask[w] # NoTask
                               /\ PlanOf[workerTask[w]] = p}
  /\ UNCHANGED <<storeVars, cancelled, killing>> /\ OperatorFrame

KillListed(w) ==
  /\ w \in doomed
  /\ KillWorker(w)
  /\ doomed' = doomed \ {w}
  /\ UNCHANGED <<storeVars, killing, deleting>> /\ OperatorFrame

DeleteListed(p) ==
  /\ p \in deleting /\ doomed = {}
  /\ \/ DeletePlan(p)
     \/ CallFails /\ UNCHANGED storeVars
  /\ deleting' = {}
  /\ UNCHANGED <<cancelled, killing, doomed>> /\ OperatorFrame

\* The handlers that are one store call each.
HandlePlanImport(p) == CreatePlanGraph(p) /\ UNCHANGED controlVars

HandlePlanSetStatus(p, st) == Pauses /\ SetPlanStatus(p, st) /\ UNCHANGED controlVars

HandleTaskApprove(t) == ApproveTask(t) /\ UNCHANGED controlVars

\* The operator mends a declaration or a binding.
FixDeclaration(t) ==
  /\ t \in escaping \cup unmet
  /\ escaping' = escaping \ {t}
  /\ unmet' = unmet \ {t}
  /\ UNCHANGED <<storeVars, passVars, attemptVars, cancelled, processVars, operatorVars>>

HandlerStep ==
  \/ KillRow
  \/ \E w \in Worker : KillListed(w)
  \/ \E p \in Plan : DeleteListed(p)
-----------------------------------------------------------------------------
(* The supervisor process, and time *)

\* The reaper half of tick: the loop has ended once shutdown begins.
Reap == ~stopping /\ ReclaimStale /\ UNCHANGED controlVars

\* Run leaves its loop and cancels the run context.
Shutdown ==
  /\ restarts < MaxRestarts /\ ~stopping
  /\ stopping' = TRUE
  /\ restarts' = restarts + 1
  /\ UNCHANGED <<storeVars, passVars, attemptVars, cancelled, operatorVars, gateVars>>

\* server.Stop has waited for the handlers and orch.Wait for the goroutines;
\* the next supervisor starts.
Restart ==
  /\ stopping
  /\ round = {} /\ pass = {} /\ killing = NoWorker /\ deleting = {}
  /\ \A w \in Worker : pc[w] \in {"unused", "ended"}
  /\ stopping' = FALSE
  /\ UNCHANGED <<storeVars, passVars, attemptVars, cancelled, restarts,
                 operatorVars, gateVars>>

\* The process dies at any point and is started again: only the store is left.
Crash ==
  /\ restarts < MaxRestarts
  /\ restarts' = restarts + 1
  /\ pc' = [w \in Worker |-> IF pc[w] = "unused" THEN "unused" ELSE "ended"]
  /\ clock' = [w \in Worker |-> 0]
  /\ outcome' = [w \in Worker |-> "none"]
  /\ beatRow' = [w \in Worker |-> NoWorker]
  /\ round' = {} /\ pass' = {} /\ slots' = 0
  /\ cancelled' = {} /\ stopping' = FALSE
  /\ killing' = NoWorker /\ deleting' = {} /\ doomed' = {}
  /\ UNCHANGED <<storeVars, job, gateVars>>

\* How long an attempt stays where it is, or goes without a heartbeat, if it is
\* punctual.  Verification's heartbeat and the turn's come every BeatEvery.
Deadline(w) ==
  CASE pc[w] \in {"rows", "claimed", "setup"} -> SetupBudget
    [] pc[w] \in {"turn", "checking"} -> BeatEvery
    [] OTHER -> PersistBudget

MaxClock == SetupBudget + BeatEvery + PersistBudget

Timed == {"rows", "claimed"} \cup Working

\* Ages and clocks advance together.  Record, report and verify share one
\* persistBudget, which RecordTurn does not restart.
PassTime ==
  /\ Punctual =>
       \A w \in Worker : pc[w] \in Timed /\ ~stopping => clock[w] < Deadline(w)
  /\ Tick
  /\ clock' = [w \in Worker |->
                 IF Punctual /\ pc[w] \in Timed /\ clock[w] < MaxClock
                 THEN clock[w] + 1 ELSE clock[w]]
  /\ UNCHANGED <<passVars, pc, job, outcome, beatRow, cancelled, processVars,
                 operatorVars, gateVars>>
-----------------------------------------------------------------------------
Init ==
  /\ StoreInit
  /\ round = {} /\ pass = {} /\ slots = 0
  /\ pc = [w \in Worker |-> "unused"]
  /\ job = [w \in Worker |-> CHOOSE t \in Task : TRUE]
  /\ outcome = [w \in Worker |-> "none"]
  /\ clock = [w \in Worker |-> 0]
  /\ beatRow = [w \in Worker |-> NoWorker]
  /\ cancelled = {} /\ stopping = FALSE /\ restarts = 0
  /\ killing = NoWorker /\ deleting = {} /\ doomed = {}
  /\ escaping \in SUBSET Undispatchable
  /\ unmet \in SUBSET Undispatchable

PassNext ==
  \/ BeginRound
  \/ \E p \in Plan : BeginPass(p)
  \/ \E t \in Task : GateRefuses(t) \/ GateClears(t) \/ \E w \in Worker : Admit(w, t)
  \/ AbandonPass
  \/ \E w \in Worker : DispatcherStep(w)

OperatorNext ==
  \/ \E p \in Plan :
       \/ HandlePlanImport(p)
       \/ \E st \in {"active", "stopped"} : HandlePlanSetStatus(p, st)
  \/ \E t \in Task : HandleTaskApprove(t)
  \/ \E w \in Worker : KillProcess(w)
  \/ \E p \in Plan : ListPlanWorkers(p)
  \/ \E t \in Task : FixDeclaration(t)
  \/ HandlerStep

Next ==
  \/ PassNext
  \/ \E w \in Worker : GoroutineStep(w) \/ BeatTurn(w) \/ BeatCheck(w) \/ Panic(w)
  \/ OperatorNext
  \/ Reap \/ PassTime
  \/ Shutdown \/ Restart \/ Crash

Spec == Init /\ [][Next]_vars

\* The supervisor's loop keeps passing and reaping, a started handler and a
\* goroutine run to their end (turns have a deadline, checks a budget), a
\* drained supervisor is restarted, and time goes on.  Operators owe nothing.
Fairness ==
  /\ WF_vars(PassNext)
  /\ WF_vars(Reap)
  /\ \A w \in Worker : WF_vars(GoroutineStep(w))
  /\ WF_vars(HandlerStep)
  /\ WF_vars(Restart)
  /\ WF_vars(PassTime)

FairSpec == Spec /\ Fairness
-----------------------------------------------------------------------------
(* Properties *)

\* Every variable of the supervisor holds a value of its domain.
DispatchTypeOK ==
  /\ round \subseteq Plan
  /\ pass \subseteq Task
  /\ slots \in 0..MaxParallel
  /\ pc \in [Worker -> Phases]
  /\ job \in [Worker -> Task]
  /\ outcome \in [Worker -> Outcomes]
  /\ clock \in [Worker -> 0..MaxClock]
  /\ beatRow \in [Worker -> Worker \cup {NoWorker}]
  /\ cancelled \subseteq Worker
  /\ stopping \in BOOLEAN
  /\ restarts \in 0..MaxRestarts
  /\ killing \in Worker \cup {NoWorker}
  /\ deleting \subseteq Plan
  /\ doomed \subseteq Worker
  /\ escaping \subseteq Undispatchable
  /\ unmet \subseteq Undispatchable

\* No dispatch slot leaks and none is returned twice, on any early exit, error,
\* panic or shutdown: the semaphore holds one token per attempt under way.
SlotsMatchAttempts ==
  slots = Cardinality({w \in Worker : pc[w] \in InDispatcher \cup InGoroutine})

\* What the heartbeats are for: while an attempt works, turn and verification
\* included, the task is claimed by it and the reaper does not hand it to
\* another.  Hence no two attempts ever work on one task.
WorkersKeepTheirClaims ==
  \A w \in Worker : pc[w] \in Working => Owns(w) /\ claimWorker[job[w]] = w

\* The attempts' part of the type invariant.
ControlTypeOK ==
  /\ pc \in [Worker -> Phases]
  /\ job \in [Worker -> Task]
  /\ clock \in [Worker -> Nat]
  /\ beatRow \in [Worker -> Worker \cup {NoWorker}]
  /\ killing \in Worker \cup {NoWorker}

\* An attempt's worker row belongs to its own session, and a running task always
\* names its worker: the supervisor never closes an attempt's session, and the
\* reaper requeues a task in the pass that deletes its worker.
OwnerInv ==
  /\ \A w \in Worker : WorkerExists(w) => workerSession[w] = SessionOf[w]
  /\ \A t \in Task : status[t] = "running" => claimWorker[t] \in Worker

\* The inductive invariant behind WorkersKeepTheirClaims, for a supervisor whose
\* timers are punctual and whose operators neither kill nor delete: a heartbeat
\* is never older than what the phases since it may have taken.
Margin(w) ==
  CASE pc[w] \in {"rows", "claimed", "setup"} -> 0
    [] pc[w] = "turn" -> SetupBudget
    [] pc[w] \in {"record", "report", "verify"} -> SetupBudget + BeatEvery
    [] pc[w] = "checking" -> SetupBudget + BeatEvery + PersistBudget
    [] OTHER -> SetupBudget + 2 * BeatEvery + PersistBudget

\* The assumption: one lease covers what those phases may take together.
BudgetsFit ==
  /\ Punctual /\ ~Kills /\ ~Deletes
  /\ SetupBudget + 2 * BeatEvery + 2 * PersistBudget <= StaleAfter

\* What holds of each attempt.
Leased(w) ==
  /\ pc[w] \in {"claimed"} \cup Working => Owns(w) /\ claimWorker[job[w]] = w
  /\ pc[w] = "checking" => beatRow[w] = w
  /\ pc[w] \in Timed /\ ~stopping =>
       /\ clock[w] <= Deadline(w)
       /\ WorkerExists(w) => workerAge[w] <= Margin(w) + clock[w]

LeaseInv ==
  /\ killing = NoWorker /\ deleting = {} /\ doomed = {}
  /\ \A w \in Worker : Leased(w)

\* A task is settled, or charged a retry, only by the attempt that holds its
\* claim at that moment, and becomes done only on that attempt's own passing
\* check: a worker that was killed, reaped or replaced cannot speak for its
\* replacement.
OnlyOwnerSettles ==
  [][\A t \in Task :
       \/ status[t] = "running" /\ status'[t] \in {"done", "failed"}
       \/ retryCount'[t] # retryCount[t]
       => \E w \in Worker :
            /\ claimWorker[t] = w /\ job[w] = t
            /\ pc[w] \in {"report", "mark"} /\ pc'[w] # pc[w]
            /\ status'[t] = "done" => outcome[w] = "pass"]_vars

\* No claim lasts for ever: whatever fails, panics, crashes or is killed, a
\* running task is settled or requeued.
ClaimsEnd == \A t \in Task : status[t] = "running" ~> status[t] # "running"

\* A capability block does not outlive its remedy: once the requirement is met
\* and the plan stays active, the gate lifts it.
CapabilityBlockLifts ==
  \A t \in Task :
    <>[](planStatus[PlanOf[t]] = "active" /\ t \notin escaping \cup unmet)
      => []<>(status[t] # "blocked_capability")

\* The same for a path block, which the comment on ReadyPartitions says
\* pathGateBlocks clears "when the operator has fixed ... the declaration".
InputBlockLifts ==
  \A t \in Task :
    <>[](planStatus[PlanOf[t]] = "active" /\ t \notin escaping \cup unmet)
      => []<>(status[t] # "blocked_input")

\* HandleWorkerKill: "the subprocess tears down at once"; a terminated worker
\* has no provider process that was not told to stop.
KilledWorkersStop ==
  \A w \in Worker : workerRow[w] = "terminated" => ~LiveTurn(w)
=============================================================================
