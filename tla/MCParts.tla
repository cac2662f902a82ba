------------------------------ MODULE MCParts ------------------------------
(* Small instances of the components whose safety properties are checked    *)
(* apart from the store and the dispatcher.  They share no state, so one    *)
(* run checks them all: the initial state says which of them moves, and the *)
(* others stay where they start.                                            *)
EXTENDS FanOut, Admission, SupervisorLock, MCPlanGraph, DeclarativeTurn,
        DispatchCursor, GuiView, SnapshotPages, IpcServer, AgentTurn, TuiLive,
        HookStop, TLC

VARIABLE part

CONSTANTS p1, t1, t2, s1, s2, w1, w2, c1, c2

(* FanOut: a group of two tasks and two workers, each with its session.     *)
FanPlanOf  == [t \in Task |-> p1]
FanProject == [p \in Plan |-> "project"]
FanNoDeps  == [t \in Task |-> {}]
FanOutputs == [t \in Task |-> {t}]
FanOwner   == w1 :> s1 @@ w2 :> s2

(* Admission: two aliases of one provider type, one of them uncalibrated,   *)
(* one of another; a step that names the type X twice over and must not run *)
(* where its peer ran.                                                      *)
AdmTypes   == [a |-> "X", b |-> "Y", c |-> "X"]
AdmDomains == [a |-> "D1", b |-> "D2", c |-> Unknown]
AdmPool    == <<"a", "b", "c">>
AdmAllowed == [first |-> {}, second |-> {"X"}]
AdmPins    == [first |-> NoPin, second |-> "X"]
AdmPeers   == [first |-> {}, second |-> {"first"}]
AdmBackoff == <<1>>

(* IpcServer: a client that streams or stops, one that resolves or stops.   *)
Asks(k)    == [cmd |-> k, bad |-> FALSE]
MCRequests == c1 :> {Asks("stop"), Asks("attach")}
              @@ c2 :> {Asks("stop"), Asks("resolve")}

(* AgentTurn: a clean turn, an oversized line for a runner that discards it *)
(* and for one that fails on it, a prompt.                                  *)
MCTurns ==
  {[runner |-> "claude",   script |-> <<"good">>],
   [runner |-> "codex",    script |-> <<"big">>],
   [runner |-> "opencode", script |-> <<"big">>],
   [runner |-> "copilot",  script |-> <<"prompt">>]}

(* TuiLive: one task in each of two plans.                                  *)
MCUiPlanOf == [t \in UiTask |-> IF t = "b1" THEN "B" ELSE "A"]
-----------------------------------------------------------------------------
PartsInit ==
  /\ part \in {"fan", "admission", "lock", "graph", "declarative", "cursor",
               "gui", "pages", "ipc", "turn", "tui", "hook"}
  /\ GraphInit /\ (part # "graph" => doc = EmptyDocument)
  /\ PagesInit /\ (part # "pages" => list = "plans" /\ asked = 0 /\ top = 0)
  /\ IpcInit /\ (part # "ipc" => speaks = HookProtoVersion)
  /\ TurnInit /\ (part # "turn" => runner = "claude")
  /\ FanInit /\ AdmInit /\ LockInit /\ DeclInit /\ CursorInit /\ GuiViewInit
  /\ TuiInit /\ HookInit

PartsNext ==
  \/ /\ part = "fan" /\ FanNext
     /\ UNCHANGED <<part, admVars, lockVars, graphVars, declVars, cursorVars,
                    guiViewVars, pageVars, ipcVars, turnVars, tuiVars,
                    hookVars>>
  \/ /\ part = "admission" /\ AdmNext
     /\ UNCHANGED <<part, fanVars, lockVars, graphVars, declVars, cursorVars,
                    guiViewVars, pageVars, ipcVars, turnVars, tuiVars,
                    hookVars>>
  \/ /\ part = "lock" /\ LockNext
     /\ UNCHANGED <<part, fanVars, admVars, graphVars, declVars, cursorVars,
                    guiViewVars, pageVars, ipcVars, turnVars, tuiVars,
                    hookVars>>
  \/ /\ part = "graph" /\ GraphNext
     /\ UNCHANGED <<part, fanVars, admVars, lockVars, declVars, cursorVars,
                    guiViewVars, pageVars, ipcVars, turnVars, tuiVars,
                    hookVars>>
  \/ /\ part = "declarative" /\ DeclNext
     /\ UNCHANGED <<part, fanVars, admVars, lockVars, graphVars, cursorVars,
                    guiViewVars, pageVars, ipcVars, turnVars, tuiVars,
                    hookVars>>
  \/ /\ part = "cursor" /\ CursorNext
     /\ UNCHANGED <<part, fanVars, admVars, lockVars, graphVars, declVars,
                    guiViewVars, pageVars, ipcVars, turnVars, tuiVars,
                    hookVars>>
  \/ /\ part = "gui" /\ GuiViewNext
     /\ UNCHANGED <<part, fanVars, admVars, lockVars, graphVars, declVars,
                    cursorVars, pageVars, ipcVars, turnVars, tuiVars,
                    hookVars>>
  \/ /\ part = "pages" /\ PagesNext
     /\ UNCHANGED <<part, fanVars, admVars, lockVars, graphVars, declVars,
                    cursorVars, guiViewVars, ipcVars, turnVars, tuiVars,
                    hookVars>>
  \/ /\ part = "ipc" /\ IpcNext
     /\ UNCHANGED <<part, fanVars, admVars, lockVars, graphVars, declVars,
                    cursorVars, guiViewVars, pageVars, turnVars, tuiVars,
                    hookVars>>
  \/ /\ part = "turn" /\ TurnNext
     /\ UNCHANGED <<part, fanVars, admVars, lockVars, graphVars, declVars,
                    cursorVars, guiViewVars, pageVars, ipcVars, tuiVars,
                    hookVars>>
  \/ /\ part = "tui" /\ TuiNext
     /\ UNCHANGED <<part, fanVars, admVars, lockVars, graphVars, declVars,
                    cursorVars, guiViewVars, pageVars, ipcVars, turnVars,
                    hookVars>>
  \/ /\ part = "hook" /\ HookNext
     /\ UNCHANGED <<part, fanVars, admVars, lockVars, graphVars, declVars,
                    cursorVars, guiViewVars, pageVars, ipcVars, turnVars,
                    tuiVars>>

PartsSpec ==
  PartsInit /\ [][PartsNext]_<<part, fanVars, admVars, lockVars, graphVars,
                               declVars, cursorVars, guiViewVars, pageVars,
                               ipcVars, turnVars, tuiVars, hookVars>>
=============================================================================
