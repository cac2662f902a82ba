------------------------------ MODULE GuiView -------------------------------
(* What the desktop GUI shows (internal/gui/app.go refreshNow, views.go).    *)
(* Many refreshes may be under way at once, one for every tick, event, drill *)
(* and finished action: each takes the selection and a number under the      *)
(* mutex, asks the supervisor without it, and paints later in any order.  An *)
(* action takes the token of the view it was issued from.                    *)
EXTENDS Integers, FiniteSets

CONSTANTS
  View,           \* what can be selected, one of them the overview
  Overview,
  Refresher,      \* goroutines that refresh
  Driver,         \* goroutines that carry out an action
  MaxRefreshes, MaxDrills   \* bounds

VARIABLES
  selected, viewToken, refreshSeq, lastPaintedSeq, importing, actionErr,  \* under mu
  screen,         \* the view the window shows, or "form"
  refresh,        \* each refresh: "idle", or [view, seq] it was started with
  action,         \* each action: "idle", or the token it was issued under
  drillSeq        \* refreshSeq at the last drill

sharedVars == <<selected, viewToken, refreshSeq, importing, actionErr>>
guiViewVars == <<sharedVars, lastPaintedSeq, screen, refresh, action, drillSeq>>

NotRefreshing == [seq |-> 0]
NoError == [token |-> 0]
-----------------------------------------------------------------------------
\* refreshNow up to the query.
StartRefresh(r) ==
  /\ refresh[r] = NotRefreshing /\ refreshSeq < MaxRefreshes
  /\ refreshSeq' = refreshSeq + 1
  /\ refresh' = [refresh EXCEPT ![r] = [seq |-> refreshSeq + 1, view |-> selected]]
  /\ UNCHANGED <<selected, viewToken, importing, actionErr, lastPaintedSeq, screen,
                 action, drillSeq>>

\* Mutant: whatever arrives is painted.
MayPaintAny(r) == TRUE

\* Nothing older than what was painted last.
MayPaint(r) == refresh[r].seq >= lastPaintedSeq

\* The paint, on the UI thread; the import form is not drawn over.
Paint(r) ==
  /\ refresh[r] # NotRefreshing
  /\ refresh' = [refresh EXCEPT ![r] = NotRefreshing]
  /\ IF MayPaint(r)
     THEN /\ lastPaintedSeq' = refresh[r].seq
          /\ screen' = IF importing THEN screen ELSE refresh[r].view
     ELSE UNCHANGED <<lastPaintedSeq, screen>>
  /\ UNCHANGED <<sharedVars, action, drillSeq>>

\* drillTo and drillBack; the refresh they start is StartRefresh.
DrillTo(v) ==
  /\ viewToken <= MaxDrills
  /\ selected' = v /\ viewToken' = viewToken + 1
  /\ actionErr' = NoError /\ importing' = FALSE
  /\ drillSeq' = refreshSeq
  /\ UNCHANGED <<refreshSeq, lastPaintedSeq, screen, refresh, action>>

\* importButton, a button of the overview, which may still be on the screen after
\* another view was selected.
OpenImport ==
  /\ screen = Overview
  /\ importing' = TRUE /\ screen' = "form"
  /\ UNCHANGED <<selected, viewToken, refreshSeq, actionErr, lastPaintedSeq, refresh,
                 action, drillSeq>>

\* drive: the token is the one of the selected view.
Drive(d) ==
  /\ action[d] = NoError
  /\ action' = [action EXCEPT ![d] = [token |-> viewToken]]
  /\ UNCHANGED <<sharedVars, lastPaintedSeq, screen, refresh, drillSeq>>

StaleAction(d) == action[d].token # viewToken

\* The action returns; its refresh is StartRefresh.
DriveDone(d) ==
  /\ action[d] # NoError
  /\ \E failed \in BOOLEAN :
       IF StaleAction(d) THEN UNCHANGED <<actionErr, importing>>
       ELSE /\ actionErr' = IF failed THEN action[d] ELSE NoError
            /\ importing' = FALSE
  /\ action' = [action EXCEPT ![d] = NoError]
  /\ UNCHANGED <<selected, viewToken, refreshSeq, lastPaintedSeq, screen, refresh,
                 drillSeq>>

GuiViewInit ==
  /\ selected = Overview /\ viewToken = 1 /\ refreshSeq = 0 /\ lastPaintedSeq = 0
  /\ importing = FALSE /\ actionErr = NoError /\ screen = Overview
  /\ refresh = [r \in Refresher |-> NotRefreshing] /\ action = [d \in Driver |-> NoError]
  /\ drillSeq = 0

GuiViewNext ==
  \/ \E r \in Refresher : StartRefresh(r) \/ Paint(r)
  \/ \E v \in View : DrillTo(v)
  \/ OpenImport
  \/ \E d \in Driver : Drive(d) \/ DriveDone(d)

GuiViewSpec == GuiViewInit /\ [][GuiViewNext]_guiViewVars
-----------------------------------------------------------------------------
\* The screen does not go back: once a refresh started since the last drill has
\* been painted, no older answer is painted over it, and the import form stays.
ScreenKeepsUp ==
  [][/\ lastPaintedSeq > drillSeq /\ viewToken' = viewToken
          => screen' \in {selected, "form"}
     /\ importing' => screen' = "form"]_guiViewVars

\* A failure does not follow the operator: it is shown only as long as the view
\* selected when the action was issued, though the action may end much later.
ErrorsStayBehind == actionErr # NoError => actionErr.token = viewToken
=============================================================================
