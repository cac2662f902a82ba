SPECIFICATION PartsSpec
CONSTANTS
  p1 = p1
  t1 = t1
  t2 = t2
  s1 = s1
  s2 = s2
  w1 = w1
  w2 = w2
  \* FanOut
  Plan = {p1}
  Task = {t1, t2}
  Session = {s1, s2}
  Worker = {w1, w2}
  PlanOf <- FanPlanOf
  ProjectOf <- FanProject
  DependsOn <- FanNoDeps
  Outputs <- FanOutputs
  FanSession <- FanOwner
  Gated = {}
  MaxRetries = 0
  StaleAfter = 1
  NoSession = NoSession
  NoWorker = NoWorker
  NoTask = NoTask
  GroupPlan = p1
  Restricted = {}
  Rotating = {w2}
  FanSlots = 2
  CapUSD = 1
  MaxTurnUSD = 1
  MaxFaults = 1
  \* Admission
  Alias = {"a", "b", "c"}
  TypeOf <- AdmTypes
  DomainOf <- AdmDomains
  Pool <- AdmPool
  Step = {"first", "second"}
  AllowedFor <- AdmAllowed
  PinFor <- AdmPins
  PeersOf <- AdmPeers
  Confined = TRUE
  Confinable = {"a", "b", "c"}
  Backoff <- AdmBackoff
  MaxRotations = 2
  CursorPeriod = 6
  NoAlias = NoAlias
  NoPin = NoPin
  Unknown = Unknown
  NotRun = NotRun
  NoStep = NoStep
  \* SupervisorLock
  Proc = {q1, q2, q3}
  Inode = {1, 2, 3}
  NoProc = NoProc
  NoInode = NoInode
  \* PlanGraph
  Documents <- MCDocuments
  MaxImportFaults = 1
  \* DeclarativeTurn
  StallTicks = 2
  Attempts = 2
  OutputLimit = 2
  MaxTicks = 6
  \* DispatchCursor
  CursorPlan = {1, 2, 3, 4}
  DispatchLimit = 2
  MaxPasses = 4
  \* GuiView
  View = {"plans", "A", "B"}
  Overview = "plans"
  Refresher = {1, 2}
  Driver = {1, 2}
  MaxRefreshes = 3
  MaxDrills = 2
  \* SnapshotPages
  MaxRowId = 4
  DefaultLimit = 1
  MaxLimit = 2
  AskedLimits = {0, 2, 3}
  MaxActive = 1
  MaxWrites = 2
  \* IpcServer
  c1 = c1
  c2 = c2
  Conn = {c1, c2}
  RequestsOf <- MCRequests
  Speaks = {3, 5}
  MaxEvents = 2
  AttachBatch = 1
  NoReq = NoReq
  NoConn = NoConn
  \* AgentTurn
  Turns <- MCTurns
  MaxTurnFaults = 1
  \* TuiLive
  UiTask = {"a1", "b1"}
  UiPlanOf <- MCUiPlanOf
  MaxFeed = 2
  MaxSubs = 2
  MaxPollFaults = 0
  FrameBuf = 1
  \* HookStop
  HookTask = {h1, h2}
  GoodTrees = {1, 2}
  MaxTree = 3
  MaxHookFaults = 1
CHECK_DEADLOCK FALSE
INVARIANTS
  FanResourcesMatch
  OvershootIsOneTurn
  GroupsLetGo
  AdvertisedIsRecorded
  
  DocumentOrderIsDecompose
  EveryPlanGetsItsTurn
  PagesAreExact
  ClientsAreServed
  VerdictsAreCurrent
  TurnLeavesNoProcess
  NoStraySignal
  FeedIsSeamless
PROPERTIES
  GroupSettlesOwnTasks
  
  RefusalIsExhaustive
  ImplementsSingleInstance
  
  StallIsReal
  ScreenKeepsUp
  TurnIsFaithful
