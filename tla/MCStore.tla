------------------------------ MODULE MCStore ------------------------------
(* TaskStore with the operator's view of it, on one of three workloads.     *)
(* The plans of the others have been deleted before the behaviour starts,   *)
(* and in the first two so has the second session: the store has been in   *)
(* use.                                                                     *)
(*                                                                          *)
(* Outputs: one worker (which may hold several tasks, as a fan-out worker   *)
(* does) and two plans of one project, each with a task that writes the     *)
(* same file.                                                               *)
(*                                                                          *)
(* Chain: t5 waits for t4, which waits for t3 and needs approval, so that a *)
(* failure is behind a task that never failed.                              *)
(*                                                                          *)
(* Leases: one task and two sessions, one of which is not the worker's own,  *)
(* so that claims, heartbeats, cascades and the reaper interleave.          *)
EXTENDS OperatorView, TLC

CONSTANTS p1, p2, p3, p4, t1, t2, t3, t4, t5, t6, s1, s2, w1

MCPlanOf    == t1 :> p1 @@ t2 :> p2
               @@ t3 :> p3 @@ t4 :> p3 @@ t5 :> p3 @@ t6 :> p4
MCDependsOn == t1 :> {} @@ t2 :> {}
               @@ t3 :> {} @@ t4 :> {t3} @@ t5 :> {t4} @@ t6 :> {}
MCOutputs   == t1 :> {"out"} @@ t2 :> {"out"}
               @@ t3 :> {} @@ t4 :> {} @@ t5 :> {} @@ t6 :> {"out"}
MCProjectOf == [p \in Plan |-> "project"]

Workloads == { [plans |-> {p1, p2}, sessions |-> {s1}, workers |-> {w1}],
               [plans |-> {p3}, sessions |-> {s1}, workers |-> {w1}],
               [plans |-> {p4}, sessions |-> {s1, s2}, workers |-> {w1}] }

MCStoreInit ==
  \E W \in Workloads :
    /\ planStatus = [p \in Plan |-> IF p \in W.plans THEN "absent" ELSE "deleted"]
    /\ status = [t \in Task |-> "absent"]
    /\ claimSession = [t \in Task |-> NoSession]
    /\ claimWorker = [t \in Task |-> NoWorker]
    /\ retryCount = [t \in Task |-> 0]
    /\ approved = {}
    /\ sessionRow = [s \in Session |-> IF s \in W.sessions THEN "absent" ELSE "gone"]
    /\ sessionAge = [s \in Session |-> 0]
    /\ workerRow = [w \in Worker |-> IF w \in W.workers THEN "absent" ELSE "gone"]
    /\ workerSession = [w \in Worker |-> NoSession]
    /\ workerTask = [w \in Worker |-> NoTask]
    /\ workerAge = [w \in Worker |-> 0]

MCStoreSpec == MCStoreInit /\ [][StoreNext]_storeVars

\* Sessions are interchangeable.
StoreSymmetry == Permutations({s1, s2})
=============================================================================
