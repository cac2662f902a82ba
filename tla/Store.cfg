SPECIFICATION MCStoreSpec
CONSTANTS
  p1 = p1
  p2 = p2
  p3 = p3
  p4 = p4
  t1 = t1
  t2 = t2
  t3 = t3
  t4 = t4
  t5 = t5
  t6 = t6
  s1 = s1
  s2 = s2
  w1 = w1
  Plan = {p1, p2, p3, p4}
  Task = {t1, t2, t3, t4, t5, t6}
  Session = {s1, s2}
  Worker = {w1}
  PlanOf <- MCPlanOf
  ProjectOf <- MCProjectOf
  DependsOn <- MCDependsOn
  Outputs <- MCOutputs
  Gated = {t4}
  MaxRetries = 1
  StaleAfter = 1
  NoSession = NoSession
  NoWorker = NoWorker
  NoTask = NoTask
SYMMETRY StoreSymmetry
INVARIANTS
  TypeOK
  ClaimsNameLiveRows
  OutputExclusive
  DependenciesFirst
  ApprovalGate
PROPERTIES
  VerdictIsFinal
  ReaperSparesFreshClaims
  ReaperLeavesNoOrphan
  DeadEndsAreReal
