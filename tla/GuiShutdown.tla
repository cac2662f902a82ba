---------------------------- MODULE GuiShutdown -----------------------------
(* How the desktop GUI ends (internal/gui/app.go Run).  Goroutines gather    *)
(* snapshots and hand their paints to the UI loop through a bounded queue,   *)
(* the paintPump, which only a tick of the loop empties.  Quit comes from    *)
(* the tray menu or from the parent context, and the loop may also end       *)
(* without either (a closed window, a driver that quits).  Run then joins    *)
(* every goroutine, and each of them may be anywhere on its way to the pump. *)
EXTENDS Integers, Sequences, FiniteSets

CONSTANTS
  Routine,        \* goroutines of the lifecycleGroup
  PumpQueue,      \* capacity of the pump's queue
  MaxGathers,     \* bound on refreshes per goroutine
  MaxOpens        \* bound on clicks on "Open"

VARIABLES
  requests,       \* uiRequests: a set of "open", "quit", "started", "returned"
  groupClosed, running,    \* lifecycleGroup
  pumpStopped, pumpQueue, acked,
  uiCancelled, parentCancelled,
  shutting,       \* steps beginShutdown's sync.Once has taken, 0..4
  uiLoop,         \* "running", "gone" (ShowAndRun returned), "returned"
  route,          \* where each goroutine is
  gathers, opens,
  visible, quitSeen

pumpVars == <<pumpStopped, pumpQueue, acked>>
groupVars == <<groupClosed, running>>
routineVars == <<route, gathers>>
guiVars == <<requests, groupVars, pumpVars, uiCancelled, parentCancelled, shutting,
             uiLoop, routineVars, opens, visible, quitSeen>>

Terminal == {"started", "returned"}
-----------------------------------------------------------------------------
(* uiRequests: publish, claim and retire, each one compare-and-swap *)

Publishable(r) ==
  /\ requests \cap Terminal = {} /\ r \notin requests
  /\ r = "open" => "quit" \notin requests

PublishOpen ==
  /\ uiLoop = "running" /\ opens < MaxOpens
  /\ opens' = opens + 1
  /\ requests' = IF Publishable("open") THEN requests \cup {"open"} ELSE requests
  /\ UNCHANGED <<groupVars, pumpVars, uiCancelled, parentCancelled, shutting, uiLoop,
                 routineVars, visible, quitSeen>>

\* publishQuit also closes admission to the group.
PublishQuit ==
  /\ Publishable("quit")
  /\ requests' = requests \cup {"quit"} /\ quitSeen' = TRUE
  /\ groupClosed' = TRUE

\* The tray menu's Quit.
TrayQuit ==
  /\ uiLoop = "running" /\ PublishQuit
  /\ UNCHANGED <<running, pumpVars, uiCancelled, parentCancelled, shutting, uiLoop,
                 routineVars, opens, visible>>

CancelParent ==
  /\ ~parentCancelled
  /\ parentCancelled' = TRUE
  /\ UNCHANGED <<requests, groupVars, pumpVars, uiCancelled, shutting, uiLoop,
                 routineVars, opens, visible, quitSeen>>

\* waitForShowExitOrCancellation
WatchParent ==
  /\ parentCancelled /\ uiLoop = "running" /\ PublishQuit
  /\ UNCHANGED <<running, pumpVars, uiCancelled, parentCancelled, shutting, uiLoop,
                 routineVars, opens, visible>>
-----------------------------------------------------------------------------
(* beginShutdown, in its order: close admission, stop and drain the pump, cancel *)

Shutdown1 == shutting = 0 /\ groupClosed' = TRUE /\ UNCHANGED <<pumpVars, uiCancelled>>

Shutdown2 == shutting = 1 /\ pumpStopped' = TRUE
             /\ UNCHANGED <<groupClosed, pumpQueue, acked, uiCancelled>>

\* Every request in the queue is answered with FALSE.
Drained == [g \in Routine |->
              IF \E i \in DOMAIN pumpQueue : pumpQueue[i] = g THEN "unpainted" ELSE acked[g]]

Shutdown3 == shutting = 2 /\ pumpQueue' = <<>> /\ acked' = Drained
             /\ UNCHANGED <<groupClosed, pumpStopped, uiCancelled>>

\* Mutant: the goroutines' context is left to the caller's.
Shutdown4Uncancelled == shutting = 3 /\ UNCHANGED <<groupClosed, pumpVars, uiCancelled>>

Shutdown4 == shutting = 3 /\ uiCancelled' = TRUE /\ UNCHANGED <<groupClosed, pumpVars>>

\* Whoever enters the Once takes its steps; the others wait for it to be over.
ShutdownStep ==
  /\ Shutdown1 \/ Shutdown2 \/ Shutdown3 \/ Shutdown4
  /\ shutting' = shutting + 1
  /\ UNCHANGED <<requests, running, parentCancelled, uiLoop, routineVars, opens,
                 visible, quitSeen>>

ShuttingDown == shutting \in 1..3
-----------------------------------------------------------------------------
(* The UI loop *)

\* consumeRequest claims a quit before anything else; what follows is beginShutdown
\* and the driver's Quit.
ClaimQuit ==
  /\ uiLoop = "running" /\ "quit" \in requests /\ requests \cap Terminal = {}
  /\ requests' = (requests \ {"open", "quit"}) \cup {"started"}
  /\ UNCHANGED <<groupVars, pumpVars, uiCancelled, parentCancelled, shutting, uiLoop,
                 routineVars, opens, visible, quitSeen>>

\* Mutant: requests are taken in the order of their bits.
MayOpenEagerly == "open" \in requests /\ requests \cap Terminal = {}

MayOpen == "open" \in requests /\ requests \cap (Terminal \cup {"quit"}) = {}

ClaimOpen ==
  /\ uiLoop = "running" /\ MayOpen
  /\ requests' = requests \ {"open"} /\ visible' = TRUE
  /\ UNCHANGED <<groupVars, pumpVars, uiCancelled, parentCancelled, shutting, uiLoop,
                 routineVars, opens, quitSeen>>

\* The close button hides the window.
Hide ==
  /\ uiLoop = "running" /\ visible /\ visible' = FALSE
  /\ UNCHANGED <<requests, groupVars, pumpVars, uiCancelled, parentCancelled,
                 shutting, uiLoop, routineVars, opens, quitSeen>>

\* paintPump.Tick, one request; a stopped pump answers without painting.
Tick ==
  /\ uiLoop = "running" /\ pumpQueue # <<>> /\ "started" \notin requests
  /\ acked' = [acked EXCEPT ![Head(pumpQueue)] =
                 IF pumpStopped THEN "unpainted" ELSE "painted"]
  /\ pumpQueue' = Tail(pumpQueue)
  /\ UNCHANGED <<requests, groupVars, pumpStopped, uiCancelled, parentCancelled,
                 shutting, uiLoop, routineVars, opens, visible, quitSeen>>

\* SetOnClosed, or OnStopped on the driver's own thread: the Once begins while the
\* loop still runs.
DriverStops ==
  /\ uiLoop = "running" /\ shutting = 0
  /\ ShutdownStep

\* After a claimed quit: beginShutdown step by step, then quitApp ends the loop.
QuitShutsDown ==
  /\ uiLoop = "running" /\ "started" \in requests
  /\ ShutdownStep

FinishOnce ==
  /\ uiLoop = "running" /\ ShuttingDown
  /\ ShutdownStep

\* ShowAndRun returns: after quitApp, or because the driver quits by itself.
LoopEnds ==
  /\ uiLoop = "running"
  /\ "started" \in requests => shutting = 4
  /\ uiLoop' = "gone" /\ visible' = FALSE
  /\ requests' = IF requests \cap Terminal = {} THEN {"returned"} ELSE requests
  /\ UNCHANGED <<groupVars, pumpVars, uiCancelled, parentCancelled, shutting,
                 routineVars, opens, quitSeen>>

\* Run's own beginShutdown and its deferred background.Wait.
ReturnShutsDown == uiLoop = "gone" /\ ShutdownStep

RunReturns ==
  /\ uiLoop = "gone" /\ shutting = 4 /\ running = {}
  /\ uiLoop' = "returned"
  /\ UNCHANGED <<requests, groupVars, pumpVars, uiCancelled, parentCancelled,
                 shutting, routineVars, opens, visible, quitSeen>>
-----------------------------------------------------------------------------
(* The goroutines: refreshNow through Dispatch *)

\* lifecycleGroup.Go; a goroutine that ended may be started again.
Go(g) ==
  /\ ~groupClosed /\ g \notin running /\ gathers[g] < MaxGathers
  /\ running' = running \cup {g} /\ route' = [route EXCEPT ![g] = "gather"]
  /\ gathers' = [gathers EXCEPT ![g] = @ + 1]
  /\ UNCHANGED <<requests, groupClosed, pumpVars, uiCancelled, parentCancelled,
                 shutting, uiLoop, opens, visible, quitSeen>>

Move(g, place) ==
  /\ route' = [route EXCEPT ![g] = place]
  /\ UNCHANGED <<requests, groupVars, uiCancelled, parentCancelled, shutting, uiLoop,
                 gathers, opens, visible, quitSeen>>

\* gather: the query answers, fails, or is ended by the context.
Gathered(g) ==
  /\ route[g] = "gather"
  /\ Move(g, IF uiCancelled THEN "end" ELSE "dispatch")
  /\ UNCHANGED pumpVars

\* Dispatch looks at stopped only on its way in.
DispatchPaint(g) ==
  /\ route[g] = "dispatch"
  /\ Move(g, IF pumpStopped THEN "end" ELSE "queue")
  /\ acked' = [acked EXCEPT ![g] = "none"]
  /\ UNCHANGED <<pumpStopped, pumpQueue>>

Enqueue(g) ==
  /\ route[g] = "queue" /\ Len(pumpQueue) < PumpQueue
  /\ pumpQueue' = Append(pumpQueue, g)
  /\ Move(g, "wait")
  /\ UNCHANGED <<pumpStopped, acked>>

\* The request is answered.
Answered(g) ==
  /\ route[g] = "wait" /\ acked[g] # "none"
  /\ Move(g, "end")
  /\ UNCHANGED pumpVars

\* The context ends either wait of Dispatch.
DispatchCancelled(g) ==
  /\ route[g] \in {"queue", "wait"} /\ uiCancelled
  /\ Move(g, "end")
  /\ UNCHANGED pumpVars

Ends(g) ==
  /\ route[g] = "end"
  /\ route' = [route EXCEPT ![g] = "idle"] /\ running' = running \ {g}
  /\ UNCHANGED <<requests, groupClosed, pumpVars, uiCancelled, parentCancelled,
                 shutting, uiLoop, gathers, opens, visible, quitSeen>>
-----------------------------------------------------------------------------
GuiInit ==
  /\ requests = {} /\ groupClosed = FALSE /\ running = {}
  /\ pumpStopped = FALSE /\ pumpQueue = <<>> /\ acked = [g \in Routine |-> "none"]
  /\ uiCancelled = FALSE /\ parentCancelled = FALSE /\ shutting = 0
  /\ uiLoop = "running"
  /\ route = [g \in Routine |-> "idle"] /\ gathers = [g \in Routine |-> 0]
  /\ opens = 0 /\ visible = TRUE /\ quitSeen = FALSE

RoutineStep(g) ==
  Gathered(g) \/ DispatchPaint(g) \/ Enqueue(g) \/ Answered(g)
    \/ DispatchCancelled(g) \/ Ends(g)

ClosingStep ==
  \/ WatchParent \/ ClaimQuit \/ QuitShutsDown \/ FinishOnce
  \/ ("started" \in requests /\ LoopEnds) \/ ReturnShutsDown \/ RunReturns

GuiNext ==
  \/ PublishOpen \/ TrayQuit \/ CancelParent \/ ClaimOpen \/ Hide \/ Tick
  \/ DriverStops \/ LoopEnds \/ ClosingStep
  \/ \E g \in Routine : Go(g) \/ RoutineStep(g)

\* The loop ticks as long as it runs and every goroutine that can go on does; a
\* query need not be answered, only ended by its context.
GuiFairness ==
  /\ WF_guiVars(ClosingStep) /\ WF_guiVars(Tick)
  /\ \A g \in Routine :
       WF_guiVars(RoutineStep(g) /\ (route[g] = "gather" => uiCancelled))

GuiSpec == GuiInit /\ [][GuiNext]_guiVars /\ GuiFairness
-----------------------------------------------------------------------------
\* A quit is carried out: a GUI that is told to quit, or whose loop is gone, returns
\* from Run, with no goroutine left waiting for a paint that no loop will do; and
\* from the moment the quit is published no request opens the window again.
QuitIsCarriedOut ==
  /\ (quitSeen \/ parentCancelled \/ uiLoop = "gone") ~> uiLoop = "returned"
  /\ [][quitSeen => ~(visible' /\ ~visible)]_guiVars
=============================================================================
