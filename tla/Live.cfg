SPECIFICATION LiveSpec
CONSTANTS
  \* IpcServer
  c1 = c1
  c2 = c2
  Conn = {c1, c2}
  RequestsOf <- LiveRequests
  Speaks = {5}
  MaxEvents = 1
  AttachBatch = 1
  NoReq = NoReq
  NoConn = NoConn
  \* HookStop
  HookTask = {h1, h2}
  GoodTrees = {1}
  MaxTree = 2
  MaxHookFaults = 1
  \* AgentTurn
  Turns <- LiveTurns
  MaxTurnFaults = 1
  \* GuiShutdown
  Routine = {1, 2}
  PumpQueue = 1
  MaxGathers = 1
  MaxOpens = 1
  \* TuiLive
  UiTask = {"a1"}
  UiPlanOf <- LivePlanOf
  MaxFeed = 2
  MaxSubs = 2
  MaxPollFaults = 1
  FrameBuf = 1
CHECK_DEADLOCK FALSE
PROPERTIES
  ServerComesToRest
  PendingIsSettled
  TurnEnds
  QuitIsCarriedOut
  
