------------------------------ MODULE HookStop ------------------------------
(* The stop hook of a managed agent session: the provider's CLI calls         *)
(* `radioactive_ralph hook event` after every tool use and before it lets the *)
(* agent stop; the supervisor's HandleHookEvent (internal/supervisor/hooks.go)*)
(* answers from the verdicts in hook_verifications and has them computed by   *)
(* VerifyStopAsync while the agent goes on working.                           *)
(*                                                                            *)
(* The working tree is a version number; what the acceptance check would say  *)
(* of a version is fixed by GoodTrees.  Events of one session are serialised  *)
(* by its hookEventLock, so an event is one action.                           *)
EXTENDS Integers, FiniteSets

CONSTANTS
  HookTask,      \* the tasks the session was given
  GoodTrees,     \* versions of the tree that pass the acceptance check
  MaxTree,       \* bound on the edits of the agent
  MaxHookFaults  \* bound on lost hook calls, failed writes and crashes

ASSUME HookAssumption == MaxTree \in Nat /\ MaxHookFaults \in Nat

VARIABLES
  agent,      \* "working", "reporting" a tool use, "stopped"
  tree,       \* version of the working tree
  reported,   \* version at the last PostToolUse the supervisor handled
  held,       \* tasks still running under the session (RunningHookTasks)
  row,        \* hook_verifications
  judged,     \* the version a verdict in row was computed from
  run,        \* hookRuns, and where each verification is
  hookFaults

hookVars == <<agent, tree, reported, held, row, judged, run, hookFaults>>

NoRun == [at |-> "none", tree |-> 0]

InRuns(t) == run[t].at # "none"
-----------------------------------------------------------------------------
(* The agent *)

ToolUse ==
  /\ agent = "working" /\ tree < MaxTree
  /\ tree' = tree + 1
  /\ agent' = "reporting"
  /\ UNCHANGED <<reported, held, row, judged, run, hookFaults>>

\* Mutant: a tool use is a heartbeat and no more.
InvalidateNothing == UNCHANGED <<row, judged>>

\* InvalidateHookVerifications: every row of the session, finished or pending.
InvalidateHookVerifications ==
  /\ row' = [t \in HookTask |-> "none"]
  /\ UNCHANGED judged

\* PostToolUse; the reply does not matter to an agent that goes on working.
PostToolUse ==
  /\ agent = "reporting"
  /\ agent' = "working"
  /\ IF held # {}
     THEN InvalidateHookVerifications /\ reported' = tree
     ELSE UNCHANGED <<row, judged, reported>>
  /\ UNCHANGED <<tree, held, run, hookFaults>>

\* RunHook gives up after two seconds, or the deletion fails: blocked, but the
\* tool has been used.
PostToolUseLost ==
  /\ agent = "reporting" /\ hookFaults < MaxHookFaults
  /\ agent' = "working"
  /\ hookFaults' = hookFaults + 1
  /\ UNCHANGED <<tree, reported, held, row, judged, run>>
-----------------------------------------------------------------------------
(* HandleHookEvent for Stop *)

\* Mutant: a row that is pending is left to the run that is computing it.
NeedsRunUnlessPending(t) == row[t] = "none" /\ ~InRuns(t)

\* Neither passed nor failed, and claimHookRun succeeds: a pending row without a
\* run is from an earlier supervisor.
NeedsRun(t) == row[t] \notin {"passed", "failed"} /\ ~InRuns(t)

\* The tasks whose verification the event starts.  SetHookVerificationPending
\* may fail at one of them: those before it are started.
StartRuns(started) ==
  /\ row' = [t \in HookTask |-> IF t \in started THEN "pending" ELSE row[t]]
  /\ run' = [t \in HookTask |-> IF t \in started
                                THEN [at |-> "started", tree |-> 0] ELSE run[t]]

AllPassed == held # {} /\ \A t \in held : row[t] = "passed"

StopAllowed ==
  /\ agent = "working" /\ AllPassed
  /\ agent' = "stopped"
  /\ UNCHANGED <<tree, reported, held, row, judged, run, hookFaults>>

StopRefused ==
  /\ agent = "working" /\ ~AllPassed
  /\ StartRuns({t \in held : NeedsRun(t)})
  /\ UNCHANGED <<agent, tree, reported, held, judged, hookFaults>>

StopFails ==
  /\ agent = "working" /\ ~AllPassed /\ hookFaults < MaxHookFaults
  /\ \E some \in SUBSET {t \in held : NeedsRun(t)} : StartRuns(some)
  /\ hookFaults' = hookFaults + 1
  /\ UNCHANGED <<agent, tree, reported, held, judged>>
-----------------------------------------------------------------------------
(* VerifyStopAsync *)

\* CanStopAs looks at the tree (and at the lease) at some moment of its budget.
Examine(t) ==
  /\ run[t].at = "started"
  /\ run' = [run EXCEPT ![t] = [at |-> IF t \in held /\ tree \in GoodTrees
                                       THEN "passed" ELSE "failed",
                                tree |-> tree]]
  /\ UNCHANGED <<agent, tree, reported, held, row, judged, hookFaults>>

\* The check fails to run, exceeds its budget or panics.
ExamineFails(t) ==
  /\ run[t].at = "started" /\ hookFaults < MaxHookFaults
  /\ run' = [run EXCEPT ![t].at = "error"]
  /\ hookFaults' = hookFaults + 1
  /\ UNCHANGED <<agent, tree, reported, held, row, judged>>

\* Mutant: the verdict is inserted if its row is gone.
SetResultUpsert(t) ==
  /\ row' = [row EXCEPT ![t] = run[t].at]
  /\ judged' = [judged EXCEPT ![t] = run[t].tree]

\* SetHookVerificationResult updates a row that is still there, for a task the
\* session still holds.
SetHookVerificationResult(t) ==
  IF row[t] # "none" /\ t \in held
  THEN /\ row' = [row EXCEPT ![t] = run[t].at]
       /\ judged' = [judged EXCEPT ![t] = run[t].tree]
  ELSE UNCHANGED <<row, judged>>

\* The callback: the verdict, or ClearHookVerification after an error; the write
\* may fail and only be logged.
Persist(t) ==
  /\ run[t].at \in {"passed", "failed", "error"}
  /\ \/ /\ IF run[t].at = "error"
           THEN row' = [row EXCEPT ![t] = "none"] /\ UNCHANGED judged
           ELSE SetHookVerificationResult(t)
        /\ UNCHANGED hookFaults
     \/ /\ hookFaults < MaxHookFaults
        /\ hookFaults' = hookFaults + 1
        /\ UNCHANGED <<row, judged>>
  /\ run' = [run EXCEPT ![t].at = "persisted"]
  /\ UNCHANGED <<agent, tree, reported, held>>

\* The deferred releaseHookRun.
ReleaseHookRun(t) ==
  /\ run[t].at = "persisted"
  /\ run' = [run EXCEPT ![t] = NoRun]
  /\ UNCHANGED <<agent, tree, reported, held, row, judged, hookFaults>>
-----------------------------------------------------------------------------
\* The reaper, an operator or the end of the turn takes the task from the session.
LoseTask(t) ==
  /\ t \in held
  /\ held' = held \ {t}
  /\ UNCHANGED <<agent, tree, reported, row, judged, run, hookFaults>>

\* The supervisor is restarted under the agent: the rows stay, the runs do not.
SupervisorRestart ==
  /\ hookFaults < MaxHookFaults
  /\ run' = [t \in HookTask |-> NoRun]
  /\ hookFaults' = hookFaults + 1
  /\ UNCHANGED <<agent, tree, reported, held, row, judged>>

HookInit ==
  /\ agent = "working" /\ tree = 0 /\ reported = 0
  /\ held = HookTask
  /\ row = [t \in HookTask |-> "none"]
  /\ judged = [t \in HookTask |-> 0]
  /\ run = [t \in HookTask |-> NoRun]
  /\ hookFaults = 0

Verification(t) == Examine(t) \/ Persist(t) \/ ReleaseHookRun(t)

HookNext ==
  \/ ToolUse \/ PostToolUse \/ PostToolUseLost
  \/ StopAllowed \/ StopRefused \/ StopFails \/ SupervisorRestart
  \/ \E t \in HookTask : Verification(t) \/ ExamineFails(t) \/ LoseTask(t)

\* A verification has a budget, so it ends; an agent that is blocked asks again.
HookFairness ==
  /\ \A t \in HookTask : WF_hookVars(Verification(t))
  /\ WF_hookVars(PostToolUse) /\ WF_hookVars(StopRefused)
  /\ WF_hookVars(StopAllowed)

HookSpec == HookInit /\ [][HookNext]_hookVars /\ HookFairness
-----------------------------------------------------------------------------
\* A verdict that allows the agent to stop was computed from the tree as it was
\* at the last tool use the supervisor knows of, or from a later one, and passed:
\* a verification that was under way when a tool was used leaves no verdict.
VerdictsAreCurrent ==
  \A t \in HookTask : row[t] = "passed" =>
    judged[t] >= reported /\ judged[t] \in GoodTrees

\* A Stop never waits for a verification that nobody computes: across failed
\* writes, errors and a restart of the supervisor, a pending row is settled, or
\* its task is no longer the session's.
PendingIsSettled ==
  \A t \in HookTask : row[t] = "pending" /\ t \in held
    ~> row[t] # "pending" \/ t \notin held \/ agent = "stopped"
=============================================================================
