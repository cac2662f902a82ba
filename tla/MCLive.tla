------------------------------- MODULE MCLive -------------------------------
(* Small instances of the components that must come to an end: the IPC       *)
(* server's shutdown, the stop hook's verifications, an agent turn, the      *)
(* desktop GUI's shutdown and the terminal UI's feed.  They share no state;  *)
(* as in MCParts the initial state says which of them moves, and the others  *)
(* stay where they start.  Fairness is that of the component that moves.     *)
EXTENDS IpcServer, HookStop, AgentTurn, GuiShutdown, TuiLive, TLC

VARIABLE part

CONSTANTS c1, c2

(* IpcServer: a client that streams or stops, one that only resolves.       *)
Asks(k)      == [cmd |-> k, bad |-> FALSE]
LiveRequests == c1 :> {Asks("stop"), Asks("attach")} @@ c2 :> {Asks("resolve")}

(* AgentTurn: a CLI that reports a failure.                                 *)
LiveTurns == {[runner |-> "copilot", script |-> <<"bad">>]}

(* TuiLive: one task.                                                       *)
LivePlanOf == [t \in UiTask |-> "A"]
-----------------------------------------------------------------------------
LiveInit ==
  /\ part \in {"ipc", "hook", "turn", "gui", "tui"}
  /\ IpcInit /\ HookInit /\ TurnInit /\ GuiInit /\ TuiInit

LiveNext ==
  \/ /\ part = "ipc" /\ IpcNext
     /\ UNCHANGED <<part, hookVars, turnVars, guiVars, tuiVars>>
  \/ /\ part = "hook" /\ HookNext
     /\ UNCHANGED <<part, ipcVars, turnVars, guiVars, tuiVars>>
  \/ /\ part = "turn" /\ TurnNext
     /\ UNCHANGED <<part, ipcVars, hookVars, guiVars, tuiVars>>
  \/ /\ part = "gui" /\ GuiNext
     /\ UNCHANGED <<part, ipcVars, hookVars, turnVars, tuiVars>>
  \/ /\ part = "tui" /\ TuiNext
     /\ UNCHANGED <<part, ipcVars, hookVars, turnVars, guiVars>>

If(p, A) == part = p /\ A

LiveFairness ==
  /\ WF_ipcVars(If("ipc", AcceptLoop)) /\ WF_ipcVars(If("ipc", StopBeat))
  /\ WF_ipcVars(If("ipc", StopSteps)) /\ WF_ipcVars(If("ipc", CloseListenerAsync))
  /\ WF_ipcVars(If("ipc", BeginStop /\ cause # NoConn))
  /\ \A c \in Conn : WF_ipcVars(If("ipc", Serve(c)))
  /\ \A t \in HookTask : WF_hookVars(If("hook", Verification(t)))
  /\ WF_hookVars(If("hook", PostToolUse)) /\ WF_hookVars(If("hook", StopRefused))
  /\ WF_hookVars(If("hook", StopAllowed))
  /\ WF_turnVars(If("turn", Exit("signal"))) /\ WF_turnVars(If("turn", Deadline))
  /\ WF_turnVars(If("turn", Observe)) /\ WF_turnVars(If("turn", CancelOnContext))
  /\ \A a \in Actors : WF_turnVars(If("turn", Terminate(a)))
  /\ WF_turnVars(If("turn", Reader)) /\ WF_turnVars(If("turn", Supervise))
  /\ WF_guiVars(If("gui", ClosingStep)) /\ WF_guiVars(If("gui", Tick))
  /\ \A g \in Routine :
       WF_guiVars(If("gui", RoutineStep(g) /\ (route[g] = "gather" => uiCancelled)))
  /\ WF_tuiVars(If("tui", Refresh)) /\ WF_tuiVars(If("tui", ReadSnapshot))
  /\ WF_tuiVars(If("tui", Fetched)) /\ WF_tuiVars(If("tui", Streaming))

LiveSpec ==
  LiveInit /\ [][LiveNext]_<<part, ipcVars, hookVars, turnVars, guiVars, tuiVars>>
           /\ LiveFairness
=============================================================================
