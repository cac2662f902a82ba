SPECIFICATION Spec
CONSTANTS
  p1 = p1
  t1 = t1
  t2 = t2
  a1 = a1
  a2 = a2
  a3 = a3
  Plan = {p1}
  Task = {t1}
  Session = {a1, a2}
  Worker = {a1, a2}
  PlanOf <- OnePlan
  ProjectOf <- OneProject
  DependsOn <- NoDeps
  Outputs <- OwnOutput
  SessionOf <- SameId
  Gated = {t1}
  MaxRetries = 1
  StaleAfter = 4
  NoSession = NoSession
  NoWorker = NoWorker
  NoTask = NoTask
  MaxParallel = 1
  Undispatchable = {}
  SetupBudget = 0
  BeatEvery = 1
  PersistBudget = 1
  Punctual = TRUE
  Faults = TRUE
  Pauses = FALSE
  Kills = FALSE
  Deletes = FALSE
  MaxRestarts = 0
SYMMETRY AttemptSymmetry
INVARIANTS
  WorkersKeepTheirClaims
