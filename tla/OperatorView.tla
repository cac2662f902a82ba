---------------------------- MODULE OperatorView ----------------------------
(* The read model that the terminal UI, the desktop GUI and the query        *)
(* commands are shown (internal/store/operator_snapshot.go, projected by     *)
(* internal/observe): one read-only transaction over the rows of TaskStore,  *)
(* hence one state of it.  Modelled is what the snapshot derives rather than *)
(* copies: which tasks a failure has put out of reach and which failure is   *)
(* named for it, whether a plan has come to a dead end, and its progress.    *)
EXTENDS TaskStore

\* The tasks can be run one after another: what ImportIsExact (module PlanGraph) says
\* of every graph that an import commits.
ASSUME OrderAssumption ==
  \A left \in (SUBSET Task) \ {{}} : \E t \in left : DependsOn[t] \cap left = {}

\* The recursive CTE of blocked tasks, from one failure: a set that holds the
\* dependents of f and of its own members, and the least such set.
ClosedFrom(f, C) ==
  \A t \in Task : DependsOn[t] \cap (C \cup {f}) # {} => t \in C

Downstream ==
  [f \in Task |-> {t \in Task : \A C \in SUBSET Task : ClosedFrom(f, C) => t \in C}]

Failed == {t \in Task : status[t] = "failed"}

\* Mutant: only the tasks next to a failure.
BlockedTasksOnce == {t \in Task : DependsOn[t] \cap Failed # {}}

BlockedTasks == UNION {Downstream[f] : f \in Failed}

\* blocked_by: a failure the task is downstream of.
BlockedBy(t) == {f \in Failed : t \in Downstream[f]}

\* The counters of readOperatorPlans.
TaskDone(p)  == {t \in TasksOf(p) : status[t] \in Satisfied}
TaskTotal(p) == {t \in TasksOf(p) : status[t] # "absent"}

\* Nothing is runnable and something is stuck: failed, or blocked by a failure.
NoRunnableWork(p) ==
  /\ TaskTotal(p) \cap (Failed \cup BlockedTasks) # {}
  /\ TaskTotal(p) \subseteq TaskDone(p) \cup Failed \cup BlockedTasks
-----------------------------------------------------------------------------
\* What a task needs to go on now: to be claimed, approved, unblocked or reported.
CanMove(t) ==
  status[t] \notin Satisfied \cup {"failed", "absent"} /\ DepsSatisfied(t)

\* The operator is told the truth about a plan that is stuck.  "No runnable work"
\* is shown exactly when the plan has failed and none of its tasks can move any
\* more; it is then so for good, whatever is reported, approved, reclaimed or
\* retried; and the failure named for a task that cannot run is one that died,
\* never a task that is itself waiting for another failure.
DeadEndsAreReal ==
  /\ [](\A p \in Plan :
          NoRunnableWork(p) <=> /\ \E t \in TasksOf(p) : status[t] = "failed"
                                /\ \A t \in TasksOf(p) : ~CanMove(t))
  /\ [](\A t \in Task : \A f \in BlockedBy(t) : BlockedBy(f) = {})
  /\ [][\A p \in {PlanOf[t] : t \in Failed} : NoRunnableWork(p) =>
          \/ NoRunnableWork(p)' /\ TaskDone(p)' = TaskDone(p)
          \/ planStatus'[p] = "deleted"]_storeVars
=============================================================================
