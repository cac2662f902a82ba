--------------------------- MODULE ClientProofs ----------------------------
(***************************************************************************)
(* What the clients of the supervisor can rely on.                         *)
(*                                                                         *)
(* GuiView: what the desktop window shows, for any number of refreshes and *)
(* actions under way at once and any order in which they finish.           *)
(*                                                                         *)
(* IpcServer: what the server promises a connection, for any number of them, *)
(* any mix of requests and versions and any order of arrivals, departures and *)
(* of Stop.  ClientsAreServed is not inductive.  IpcInv adds what a        *)
(* connection's goroutine relies on without looking: that it is tracked while *)
(* it works, that nobody closes it before closeConns, that the connection  *)
(* marked for its stop response has passed the read, and that an attach    *)
(* cursor is the length of what has been emitted.                          *)
(*                                                                         *)
(* TuiLive: one feed without gaps over all reconnects.  The invariant follows *)
(* an event from the stream's position through the channel and the command *)
(* that reads it to the cursor a new subscription goes on from.            *)
(*                                                                         *)
(* SnapshotPages: a walk through the pages, for every number of rows and   *)
(* every page size.  That rows can be sorted at all is shown by leaving out *)
(* the last of the smallest set that could not be (SortedExists).  The     *)
(* invariant says what a cursor stands for: everything that was in the list *)
(* throughout is either past it or on the screen.                          *)
(***************************************************************************)
EXTENDS GuiView, IpcServer, TuiLive, SnapshotPages, FiniteSetTheorems,
        WellFoundedInduction, TLAPS

(* GuiView                                                                 *)

Query == [seq : Nat, view : View \cup {Overview}]

GuiTypeOK ==
  /\ refreshSeq \in Nat /\ lastPaintedSeq \in Nat /\ drillSeq \in Nat
  /\ viewToken \in Nat
  /\ selected \in View \cup {Overview}
  /\ refresh \in [Refresher -> Query \cup {NotRefreshing}]
  /\ action \in [Driver -> [token : Nat]]

\* An answer that is under way and was asked for since the last drill is one
\* about the selected view, and what is on the screen is no older than the last
\* answer painted.
GuiInv ==
  /\ GuiTypeOK
  /\ drillSeq <= refreshSeq
  /\ \A r \in Refresher :
       refresh[r] # NotRefreshing =>
         /\ refresh[r] \in Query
         /\ refresh[r].seq <= refreshSeq
         /\ refresh[r].seq > drillSeq => refresh[r].view = selected
  /\ lastPaintedSeq <= refreshSeq
  /\ lastPaintedSeq > drillSeq => screen \in {selected, "form"}
  /\ importing => screen = "form"
  /\ ErrorsStayBehind

\* One step of the window, a refresh or an action keeps it.
LEMMA GuiStep == GuiInv /\ [GuiViewNext]_guiViewVars => GuiInv'
<1> SUFFICES ASSUME GuiInv, [GuiViewNext]_guiViewVars
             PROVE  GuiInv'
  OBVIOUS
<1> USE DEF GuiInv, GuiTypeOK, Query, ErrorsStayBehind, sharedVars
<1>1. ASSUME NEW r \in Refresher, StartRefresh(r)
      PROVE  GuiInv'
  BY <1>1 DEF StartRefresh
<1>2. ASSUME NEW r \in Refresher, Paint(r)
      PROVE  GuiInv'
  BY <1>2 DEF Paint, MayPaint
<1>3. ASSUME NEW v \in View, DrillTo(v)
      PROVE  GuiInv'
  <2>1. ~importing'
    BY <1>3 DEF DrillTo
  <2>2. \A r \in Refresher :
          refresh'[r] # NotRefreshing =>
            refresh'[r] \in Query /\ refresh'[r].seq <= drillSeq'
    BY <1>3 DEF DrillTo
  <2> QED
    BY <1>3, <2>1, <2>2 DEF DrillTo
<1>4. CASE OpenImport
  BY <1>4 DEF OpenImport
<1>5. ASSUME NEW d \in Driver, Drive(d)
      PROVE  GuiInv'
  BY <1>5 DEF Drive
<1>6. ASSUME NEW d \in Driver, DriveDone(d)
      PROVE  GuiInv'
  <2>1. CASE StaleAction(d)
    BY <1>6, <2>1 DEF DriveDone, NoError
  <2>2. CASE ~StaleAction(d)
    <3>1. ~importing' /\ actionErr' \in {action[d], NoError}
      BY <1>6, <2>2 DEF DriveDone
    <3> QED
      BY <1>6, <2>2, <3>1 DEF DriveDone, StaleAction, NoError
  <2> QED
    BY <2>1, <2>2
<1>7. CASE UNCHANGED guiViewVars
  BY <1>7 DEF guiViewVars
<1> QED
  BY <1>1, <1>2, <1>3, <1>4, <1>5, <1>6, <1>7 DEF GuiViewNext

\* So it holds in every reachable state.
LEMMA GuiInvariant == GuiViewSpec => []GuiInv
<1>1. GuiViewInit => GuiInv
  <2> SUFFICES ASSUME GuiViewInit
               PROVE  GuiInv
    OBVIOUS
  <2>1. ~importing
    BY DEF GuiViewInit
  <2>2. GuiTypeOK
    BY DEF GuiViewInit, GuiTypeOK, NoError
  <2>3. ErrorsStayBehind
    BY DEF GuiViewInit, ErrorsStayBehind
  <2> QED
    BY <2>1, <2>2, <2>3 DEF GuiViewInit, GuiInv
<1> QED
  BY <1>1, GuiStep, PTL DEF GuiViewSpec

\* However many refreshes are under way, none that was asked for earlier is
\* painted over the view that was asked for since the last drill.
THEOREM ScreenIsMonotone == GuiViewSpec => ScreenKeepsUp
<1> DEFINE A == /\ lastPaintedSeq > drillSeq /\ viewToken' = viewToken
                     => screen' \in {selected, "form"}
                /\ importing' => screen' = "form"
<1>1. GuiInv /\ GuiInv' /\ [GuiViewNext]_guiViewVars => [A]_guiViewVars
  <2> SUFFICES ASSUME GuiInv, GuiInv', [GuiViewNext]_guiViewVars
               PROVE  A
    OBVIOUS
  <2>1. importing' => screen' = "form"
    BY DEF GuiInv
  <2>2. ASSUME lastPaintedSeq > drillSeq, viewToken' = viewToken
        PROVE  screen' \in {selected, "form"}
    <3>1. selected' = selected /\ drillSeq' = drillSeq
      BY <2>2 DEF GuiInv, GuiTypeOK, GuiViewNext, StartRefresh, Paint, DrillTo,
                  OpenImport, Drive, DriveDone, sharedVars, guiViewVars
    <3>2. lastPaintedSeq' >= lastPaintedSeq
      BY DEF GuiInv, GuiTypeOK, Query, GuiViewNext, StartRefresh, Paint, MayPaint,
             DrillTo, OpenImport, Drive, DriveDone, sharedVars, guiViewVars
    <3> QED
      BY <2>2, <3>1, <3>2 DEF GuiInv, GuiTypeOK
  <2> QED
    BY <2>1, <2>2
<1> QED
  BY <1>1, GuiInvariant, PTL DEF GuiViewSpec, ScreenKeepsUp

\* A failure is only ever shown on the view its action was issued from.
THEOREM FailuresDoNotFollow == GuiViewSpec => []ErrorsStayBehind
<1>1. GuiInv => ErrorsStayBehind
  BY DEF GuiInv
<1> QED
  BY <1>1, GuiInvariant, PTL

-----------------------------------------------------------------------------
(* IpcServer                                                               *)

ConnStates == {"absent", "queued", "spawned", "reading", "marking", "stopping",
               "streaming", "serving", "replying", "done"}

\* The states in which handleConn has tracked its connection.
Served == {"reading", "marking", "stopping", "streaming", "serving", "replying"}

IpcTypeOK ==
  /\ speaks \in Nat
  /\ at \in [Conn -> ConnStates]
  /\ tracked \subseteq Conn /\ shut \subseteq Conn /\ left \subseteq Conn
  /\ answered \subseteq Conn /\ touched \subseteq Conn
  /\ req = [c \in Conn |-> req[c]]
  /\ accept \in Conn \cup {"accept", "backoff", "done"}
  /\ listener \in {"open", "closed"} /\ beat \in BOOLEAN
  /\ stop \in {"run", "dialled", "closing", "async", "waiting", "stopped"}
  /\ stopConn \in Conn \cup {NoConn} /\ cause \in Conn \cup {NoConn}
  /\ log \in Nat
  /\ sent \in [Conn -> Seq(Nat)]

\* The accept loop owns the connection it holds; closing and tracking.
ConnInv ==
  /\ accept \in Conn => at[accept] = "queued"
  /\ \A c \in Conn : at[c] \in Served => c \in tracked
  /\ \A c \in shut : at[c] = "done" \/ stop \in {"waiting", "stopped"}

\* The connection of the stop request that ended the run loop.
StopInv ==
  /\ \A c \in Conn : stopConn = c => at[c] \in {"stopping", "replying", "done"}
  /\ \A c \in Conn : at[c] = "stopping" => stopConn # NoConn
  /\ \A c \in Conn : cause = c => at[c] \in {"replying", "done"} /\ stopConn # NoConn
  /\ \A c \in Conn : cause = c /\ stopConn = c /\ at[c] = "replying" => c \notin shut

\* A request is served only by a build that knows what it asks.
VersionInv ==
  /\ \A c \in Conn : at[c] = "serving" /\ req[c].cmd = "resolve" =>
                       speaks >= ResolveOnlyProtoVersion
  /\ \A c \in touched : at[c] # "absent"

\* A stream has emitted a prefix of the log.
StreamInv == \A c \in Conn : Len(sent[c]) <= log

IpcInv == IpcTypeOK /\ ConnInv /\ StopInv /\ VersionInv /\ StreamInv /\ ClientsAreServed
\* Where a request can be sent, and what a served resolve-only request says of the
\* build that serves it.
LEMMA Routes ==
  ASSUME NEW r, speaks \in Nat
  PROVE  /\ Route(r) \in {"replying", "marking", "streaming", "serving"}
         /\ Route(r) = "serving" /\ r.cmd = "resolve" => speaks >= ResolveOnlyProtoVersion
<1>1. Route(r) \in {"replying", "marking", "streaming", "serving"}
  BY DEF Route
<1>2. ASSUME Route(r) = "serving", r.cmd = "resolve"
      PROVE  speaks >= ResolveOnlyProtoVersion
  <2>1. ClientVersion("resolve") = ResolveOnlyProtoVersion
    BY DEF ClientVersion
  <2>2. ~(ClientVersion(r.cmd) > speaks)
    BY <1>2 DEF Route
  <2> QED
    BY <1>2, <2>1, <2>2 DEF ResolveOnlyProtoVersion
<1> QED
  BY <1>1, <1>2

\* One round of EventsAfter: the events behind the cursor, none past the log.
LEMMA Batch ==
  ASSUME log \in Nat, NEW cursor \in Nat, cursor <= log
  PROVE  \E n \in Nat : /\ EventsAfter(cursor) = [i \in 1..n |-> cursor + i]
                        /\ EventsAfter(cursor) \in Seq(Nat)
                        /\ cursor + n <= log
<1> DEFINE n == IF log - cursor < AttachBatch THEN log - cursor ELSE AttachBatch
<1>1. n \in Nat /\ cursor + n <= log
  BY IpcAssumption
<1>2. EventsAfter(cursor) = [i \in 1..n |-> cursor + i]
  BY DEF EventsAfter
<1> HIDE DEF n
<1>3. [i \in 1..n |-> cursor + i] \in Seq(Nat)
  BY <1>1
<1> QED
  BY <1>1, <1>2, <1>3

\* Every step keeps every variable in its domain.
LEMMA IpcTypeStep ==
  ASSUME IpcTypeOK, [IpcNext]_ipcVars
  PROVE  IpcTypeOK'
<1> USE IpcAssumption
    DEF IpcTypeOK, ConnStates, connVars, clientVars, loopVars, stopVars, effectVars, ipcVars
<1>1. ASSUME NEW c \in Conn, Dial(c)
      PROVE  IpcTypeOK'
  BY <1>1 DEF Dial
<1>2. ASSUME NEW c \in Conn, Leave(c)
      PROVE  IpcTypeOK'
  BY <1>2 DEF Leave
<1>3. ASSUME NEW c \in Conn, Begin(c)
      PROVE  IpcTypeOK'
  BY <1>3 DEF Begin, TrackConn
<1>4. ASSUME NEW c \in Conn, ReadRequest(c)
      PROVE  IpcTypeOK'
  BY <1>4, Routes DEF ReadRequest, Finish
<1>5. ASSUME NEW c \in Conn, Mark(c)
      PROVE  IpcTypeOK'
  BY <1>5 DEF Mark, MarkStopConn
<1>6. ASSUME NEW c \in Conn, HandleStop(c)
      PROVE  IpcTypeOK'
  BY <1>6 DEF HandleStop
<1>7. ASSUME NEW c \in Conn, Handle(c)
      PROVE  IpcTypeOK'
  BY <1>7 DEF Handle
<1>8. ASSUME NEW c \in Conn, Emit(c)
      PROVE  IpcTypeOK'
  <2>1. CASE c \in Broken
    BY <1>8, <2>1 DEF Emit
  <2>2. CASE c \notin Broken
    <3>1. AttachCursor(c) \in Nat /\ AttachCursor(c) < log
      BY <1>8 DEF Emit, AttachCursor
    <3>2. EventsAfter(AttachCursor(c)) \in Seq(Nat)
      BY <3>1, Batch
    <3>3. sent' = [sent EXCEPT ![c] = sent[c] \o EventsAfter(AttachCursor(c))]
      BY <1>8, <2>2 DEF Emit, NextBatch
    <3>4. sent[c] \o EventsAfter(AttachCursor(c)) \in Seq(Nat)
      BY <3>2
    <3> QED
      BY <1>8, <2>2, <3>3, <3>4 DEF Emit
  <2> QED
    BY <2>1, <2>2
<1>9. ASSUME NEW c \in Conn, EndAttach(c)
      PROVE  IpcTypeOK'
  BY <1>9 DEF EndAttach
<1>10. ASSUME NEW c \in Conn, WriteResponse(c)
      PROVE  IpcTypeOK'
  BY <1>10 DEF WriteResponse, Finish
<1>11. CASE AcceptConn
  BY <1>11 DEF AcceptConn
<1>12. CASE Spawn
  BY <1>12 DEF Spawn
<1>13. CASE AcceptFails
  BY <1>13 DEF AcceptFails
<1>14. CASE AcceptResumes
  BY <1>14 DEF AcceptResumes
<1>15. CASE AppendEvent
  BY <1>15 DEF AppendEvent
<1>16. CASE StopBeat
  BY <1>16 DEF StopBeat
<1>17. CASE BeginStop
  BY <1>17 DEF BeginStop
<1>18. CASE Awaken
  BY <1>18 DEF Awaken
<1>19. CASE Retire
  BY <1>19 DEF Retire, RetireAcceptLoop
<1>20. CASE CloseConns
  BY <1>20 DEF CloseConns
<1>21. CASE StopReturned
  BY <1>21 DEF StopReturned
<1>22. CASE CloseListenerAsync
  BY <1>22 DEF CloseListenerAsync
<1>23. CASE UNCHANGED ipcVars
  BY <1>23
<1> QED
  BY <1>1, <1>2, <1>3, <1>4, <1>5, <1>6, <1>7, <1>8, <1>9, <1>10, <1>11, <1>12,
     <1>13, <1>14, <1>15, <1>16, <1>17, <1>18, <1>19, <1>20, <1>21, <1>22, <1>23
     DEF IpcNext, Serve, AcceptLoop, StopSteps

\* The accept loop, trackConn and the deferred calls keep the books on the
\* connections.
LEMMA ConnStep ==
  ASSUME IpcTypeOK, ConnInv, [IpcNext]_ipcVars
  PROVE  ConnInv'
<1> USE IpcAssumption
    DEF IpcTypeOK, ConnStates, Served, Stopping, ConnInv, connVars, clientVars, loopVars, stopVars, effectVars, ipcVars
<1>1. ASSUME NEW c \in Conn, Dial(c)
      PROVE  ConnInv'
  BY <1>1 DEF Dial
<1>2. ASSUME NEW c \in Conn, Leave(c)
      PROVE  ConnInv'
  BY <1>2 DEF Leave
<1>3. ASSUME NEW c \in Conn, Begin(c)
      PROVE  ConnInv'
  BY <1>3 DEF Begin, TrackConn
<1>4. ASSUME NEW c \in Conn, ReadRequest(c)
      PROVE  ConnInv'
  <2>1. Route(req[c]) \in {"replying", "marking", "streaming", "serving"}
    BY Routes
  <2>2. CASE at' = [at EXCEPT ![c] = Route(req[c])] /\ UNCHANGED <<tracked, shut>>
    BY <1>4, <2>1, <2>2 DEF ReadRequest
  <2>3. CASE Finish(c)
    BY <1>4, <2>3 DEF ReadRequest, Finish
  <2> QED
    BY <1>4, <2>2, <2>3 DEF ReadRequest
<1>5. ASSUME NEW c \in Conn, Mark(c)
      PROVE  ConnInv'
  BY <1>5 DEF Mark, MarkStopConn
<1>6. ASSUME NEW c \in Conn, HandleStop(c)
      PROVE  ConnInv'
  BY <1>6 DEF HandleStop
<1>7. ASSUME NEW c \in Conn, Handle(c)
      PROVE  ConnInv'
  BY <1>7 DEF Handle
<1>8. ASSUME NEW c \in Conn, Emit(c)
      PROVE  ConnInv'
  BY <1>8 DEF Emit
<1>9. ASSUME NEW c \in Conn, EndAttach(c)
      PROVE  ConnInv'
  BY <1>9 DEF EndAttach
<1>10. ASSUME NEW c \in Conn, WriteResponse(c)
      PROVE  ConnInv'
  BY <1>10 DEF WriteResponse, Finish
<1>11. CASE AcceptConn
  BY <1>11 DEF AcceptConn
<1>12. CASE Spawn
  BY <1>12 DEF Spawn
<1>13. CASE AcceptFails
  BY <1>13 DEF AcceptFails
<1>14. CASE AcceptResumes
  BY <1>14 DEF AcceptResumes
<1>15. CASE AppendEvent
  BY <1>15 DEF AppendEvent
<1>16. CASE StopBeat
  BY <1>16 DEF StopBeat
<1>17. CASE BeginStop
  BY <1>17 DEF BeginStop
<1>18. CASE Awaken
  BY <1>18 DEF Awaken
<1>19. CASE Retire
  BY <1>19 DEF Retire, RetireAcceptLoop
<1>20. CASE CloseConns
  BY <1>20 DEF CloseConns
<1>21. CASE StopReturned
  BY <1>21 DEF StopReturned
<1>22. CASE CloseListenerAsync
  BY <1>22 DEF CloseListenerAsync
<1>23. CASE UNCHANGED ipcVars
  BY <1>23
<1> QED
  BY <1>1, <1>2, <1>3, <1>4, <1>5, <1>6, <1>7, <1>8, <1>9, <1>10, <1>11, <1>12,
     <1>13, <1>14, <1>15, <1>16, <1>17, <1>18, <1>19, <1>20, <1>21, <1>22, <1>23
     DEF IpcNext, Serve, AcceptLoop, StopSteps

\* Nothing closes the connection of the effective stop request before its answer.
LEMMA StopStep ==
  ASSUME IpcTypeOK, ConnInv, StopInv, [IpcNext]_ipcVars
  PROVE  StopInv'
<1> USE IpcAssumption
    DEF IpcTypeOK, ConnStates, Served, Stopping, ConnInv, StopInv,
        connVars, clientVars, loopVars, stopVars, effectVars, ipcVars
<1>1. ASSUME NEW c \in Conn, Dial(c)
      PROVE  StopInv'
  BY <1>1 DEF Dial
<1>2. ASSUME NEW c \in Conn, Leave(c)
      PROVE  StopInv'
  BY <1>2 DEF Leave
<1>3. ASSUME NEW c \in Conn, Begin(c)
      PROVE  StopInv'
  BY <1>3 DEF Begin, TrackConn
<1>4. ASSUME NEW c \in Conn, ReadRequest(c)
      PROVE  StopInv'
  BY <1>4, Routes DEF ReadRequest, Finish
<1>5. ASSUME NEW c \in Conn, Mark(c)
      PROVE  StopInv'
  BY <1>5 DEF Mark, MarkStopConn
<1>6. ASSUME NEW c \in Conn, HandleStop(c)
      PROVE  StopInv'
  BY <1>6 DEF HandleStop
<1>7. ASSUME NEW c \in Conn, Handle(c)
      PROVE  StopInv'
  BY <1>7 DEF Handle
<1>8. ASSUME NEW c \in Conn, Emit(c)
      PROVE  StopInv'
  BY <1>8 DEF Emit
<1>9. ASSUME NEW c \in Conn, EndAttach(c)
      PROVE  StopInv'
  BY <1>9 DEF EndAttach
<1>10. ASSUME NEW c \in Conn, WriteResponse(c)
      PROVE  StopInv'
  BY <1>10 DEF WriteResponse, Finish
<1>11. CASE AcceptConn
  BY <1>11 DEF AcceptConn
<1>12. CASE Spawn
  BY <1>12 DEF Spawn
<1>13. CASE AcceptFails
  BY <1>13 DEF AcceptFails
<1>14. CASE AcceptResumes
  BY <1>14 DEF AcceptResumes
<1>15. CASE AppendEvent
  BY <1>15 DEF AppendEvent
<1>16. CASE StopBeat
  BY <1>16 DEF StopBeat
<1>17. CASE BeginStop
  BY <1>17 DEF BeginStop
<1>18. CASE Awaken
  BY <1>18 DEF Awaken
<1>19. CASE Retire
  BY <1>19 DEF Retire, RetireAcceptLoop
<1>20. CASE CloseConns
  BY <1>20 DEF CloseConns
<1>21. CASE StopReturned
  BY <1>21 DEF StopReturned
<1>22. CASE CloseListenerAsync
  BY <1>22 DEF CloseListenerAsync
<1>23. CASE UNCHANGED ipcVars
  BY <1>23
<1> QED
  BY <1>1, <1>2, <1>3, <1>4, <1>5, <1>6, <1>7, <1>8, <1>9, <1>10, <1>11, <1>12,
     <1>13, <1>14, <1>15, <1>16, <1>17, <1>18, <1>19, <1>20, <1>21, <1>22, <1>23
     DEF IpcNext, Serve, AcceptLoop, StopSteps

\* A request keeps its connection, and the version check stands before the handler.
LEMMA VersionStep ==
  ASSUME IpcTypeOK, ConnInv, VersionInv, ResolveNeverTouches, [IpcNext]_ipcVars
  PROVE  VersionInv' /\ ResolveNeverTouches'
<1> USE IpcAssumption
    DEF IpcTypeOK, ConnStates, ConnInv, VersionInv, ResolveNeverTouches, ResolveOnlyProtoVersion,
        connVars, clientVars, loopVars, stopVars, effectVars, ipcVars
<1>1. ASSUME NEW c \in Conn, Dial(c)
      PROVE  VersionInv' /\ ResolveNeverTouches'
  BY <1>1 DEF Dial
<1>2. ASSUME NEW c \in Conn, Leave(c)
      PROVE  VersionInv' /\ ResolveNeverTouches'
  BY <1>2 DEF Leave
<1>3. ASSUME NEW c \in Conn, Begin(c)
      PROVE  VersionInv' /\ ResolveNeverTouches'
  BY <1>3 DEF Begin, TrackConn
<1>4. ASSUME NEW c \in Conn, ReadRequest(c)
      PROVE  VersionInv' /\ ResolveNeverTouches'
  BY <1>4, Routes DEF ReadRequest, Finish
<1>5. ASSUME NEW c \in Conn, Mark(c)
      PROVE  VersionInv' /\ ResolveNeverTouches'
  BY <1>5 DEF Mark, MarkStopConn
<1>6. ASSUME NEW c \in Conn, HandleStop(c)
      PROVE  VersionInv' /\ ResolveNeverTouches'
  BY <1>6 DEF HandleStop
<1>7. ASSUME NEW c \in Conn, Handle(c)
      PROVE  VersionInv' /\ ResolveNeverTouches'
  <2>1. touched' = touched \/ (touched' = touched \cup {c} /\ req[c].cmd # "resolve")
    BY <1>7 DEF Handle
  <2>2. at' = [at EXCEPT ![c] = "replying"] /\ req' = req /\ speaks' = speaks
    BY <1>7 DEF Handle
  <2> QED
    BY <2>1, <2>2
<1>8. ASSUME NEW c \in Conn, Emit(c)
      PROVE  VersionInv' /\ ResolveNeverTouches'
  BY <1>8 DEF Emit
<1>9. ASSUME NEW c \in Conn, EndAttach(c)
      PROVE  VersionInv' /\ ResolveNeverTouches'
  BY <1>9 DEF EndAttach
<1>10. ASSUME NEW c \in Conn, WriteResponse(c)
      PROVE  VersionInv' /\ ResolveNeverTouches'
  BY <1>10 DEF WriteResponse, Finish
<1>11. CASE AcceptConn
  BY <1>11 DEF AcceptConn
<1>12. CASE Spawn
  BY <1>12 DEF Spawn
<1>13. CASE AcceptFails
  BY <1>13 DEF AcceptFails
<1>14. CASE AcceptResumes
  BY <1>14 DEF AcceptResumes
<1>15. CASE AppendEvent
  BY <1>15 DEF AppendEvent
<1>16. CASE StopBeat
  BY <1>16 DEF StopBeat
<1>17. CASE BeginStop
  BY <1>17 DEF BeginStop
<1>18. CASE Awaken
  BY <1>18 DEF Awaken
<1>19. CASE Retire
  BY <1>19 DEF Retire, RetireAcceptLoop
<1>20. CASE CloseConns
  BY <1>20 DEF CloseConns
<1>21. CASE StopReturned
  BY <1>21 DEF StopReturned
<1>22. CASE CloseListenerAsync
  BY <1>22 DEF CloseListenerAsync
<1>23. CASE UNCHANGED ipcVars
  BY <1>23
<1> QED
  BY <1>1, <1>2, <1>3, <1>4, <1>5, <1>6, <1>7, <1>8, <1>9, <1>10, <1>11, <1>12,
     <1>13, <1>14, <1>15, <1>16, <1>17, <1>18, <1>19, <1>20, <1>21, <1>22, <1>23
     DEF IpcNext, Serve, AcceptLoop, StopSteps

\* closeConns and trackConn leave no reader behind, and no answer is lost to them.
LEMMA AnswerStep ==
  ASSUME IpcTypeOK, ConnInv, StopInv, DrainsPromptly, StopIsAnswered, [IpcNext]_ipcVars
  PROVE  DrainsPromptly' /\ StopIsAnswered'
<1> USE IpcAssumption
    DEF IpcTypeOK, ConnStates, Served, Stopping, ConnInv, StopInv, Broken, DrainsPromptly,
        StopIsAnswered, connVars, clientVars, loopVars, stopVars, effectVars, ipcVars
<1>1. ASSUME NEW c \in Conn, Dial(c)
      PROVE  DrainsPromptly' /\ StopIsAnswered'
  BY <1>1 DEF Dial
<1>2. ASSUME NEW c \in Conn, Leave(c)
      PROVE  DrainsPromptly' /\ StopIsAnswered'
  BY <1>2 DEF Leave
<1>3. ASSUME NEW c \in Conn, Begin(c)
      PROVE  DrainsPromptly' /\ StopIsAnswered'
  BY <1>3 DEF Begin, TrackConn
<1>4. ASSUME NEW c \in Conn, ReadRequest(c)
      PROVE  DrainsPromptly' /\ StopIsAnswered'
  BY <1>4, Routes DEF ReadRequest, Finish
<1>5. ASSUME NEW c \in Conn, Mark(c)
      PROVE  DrainsPromptly' /\ StopIsAnswered'
  BY <1>5 DEF Mark, MarkStopConn
<1>6. ASSUME NEW c \in Conn, HandleStop(c)
      PROVE  DrainsPromptly' /\ StopIsAnswered'
  BY <1>6 DEF HandleStop
<1>7. ASSUME NEW c \in Conn, Handle(c)
      PROVE  DrainsPromptly' /\ StopIsAnswered'
  BY <1>7 DEF Handle
<1>8. ASSUME NEW c \in Conn, Emit(c)
      PROVE  DrainsPromptly' /\ StopIsAnswered'
  BY <1>8 DEF Emit
<1>9. ASSUME NEW c \in Conn, EndAttach(c)
      PROVE  DrainsPromptly' /\ StopIsAnswered'
  BY <1>9 DEF EndAttach
<1>10. ASSUME NEW c \in Conn, WriteResponse(c)
      PROVE  DrainsPromptly' /\ StopIsAnswered'
  BY <1>10 DEF WriteResponse, Finish
<1>11. CASE AcceptConn
  BY <1>11 DEF AcceptConn
<1>12. CASE Spawn
  BY <1>12 DEF Spawn
<1>13. CASE AcceptFails
  BY <1>13 DEF AcceptFails
<1>14. CASE AcceptResumes
  BY <1>14 DEF AcceptResumes
<1>15. CASE AppendEvent
  BY <1>15 DEF AppendEvent
<1>16. CASE StopBeat
  BY <1>16 DEF StopBeat
<1>17. CASE BeginStop
  BY <1>17 DEF BeginStop
<1>18. CASE Awaken
  BY <1>18 DEF Awaken
<1>19. CASE Retire
  BY <1>19 DEF Retire, RetireAcceptLoop
<1>20. CASE CloseConns
  BY <1>20 DEF CloseConns
<1>21. CASE StopReturned
  BY <1>21 DEF StopReturned
<1>22. CASE CloseListenerAsync
  BY <1>22 DEF CloseListenerAsync
<1>23. CASE UNCHANGED ipcVars
  BY <1>23
<1> QED
  BY <1>1, <1>2, <1>3, <1>4, <1>5, <1>6, <1>7, <1>8, <1>9, <1>10, <1>11, <1>12,
     <1>13, <1>14, <1>15, <1>16, <1>17, <1>18, <1>19, <1>20, <1>21, <1>22, <1>23
     DEF IpcNext, Serve, AcceptLoop, StopSteps

\* A round of the tail continues the stream where it ended.
LEMMA StreamStep ==
  ASSUME IpcTypeOK, StreamInv, StreamsHaveNoGaps, [IpcNext]_ipcVars
  PROVE  StreamInv' /\ StreamsHaveNoGaps'
<1> USE DEF IpcTypeOK, connVars, clientVars, loopVars, stopVars, effectVars, ipcVars
<1>1. ASSUME sent' = sent, log' \in Nat, log' >= log
      PROVE  StreamInv' /\ StreamsHaveNoGaps'
  BY <1>1 DEF StreamInv, StreamsHaveNoGaps
<1>2. ASSUME NEW c \in Conn, Emit(c), sent' # sent
      PROVE  StreamInv' /\ StreamsHaveNoGaps'
  <2> DEFINE old == sent[c]
             cursor == Len(old)
             new == old \o EventsAfter(cursor)
  <2>1. old \in Seq(Nat) /\ cursor \in Nat /\ cursor <= log
    BY DEF StreamInv
  <2>2. old = [i \in 1..cursor |-> i]
    BY DEF StreamsHaveNoGaps
  <2>3. AttachCursor(c) = cursor
    <3>1. CASE old = <<>>
      BY <3>1 DEF AttachCursor
    <3>2. CASE old # <<>>
      <4>1. cursor \in 1..cursor
        BY <2>1, <3>2
      <4>2. old[cursor] = cursor
        BY <2>2, <4>1
      <4> QED
        BY <3>2, <4>2 DEF AttachCursor
    <3> QED
      BY <3>1, <3>2
  <2>4. sent' = [sent EXCEPT ![c] = new] /\ log' = log
    BY <1>2, <2>3 DEF Emit, NextBatch
  <2>5. PICK n \in Nat : /\ EventsAfter(cursor) = [i \in 1..n |-> cursor + i]
                         /\ EventsAfter(cursor) \in Seq(Nat)
                         /\ cursor + n <= log
    BY <2>1, Batch
  <2>6. new \in Seq(Nat) /\ Len(new) = cursor + n
    BY <2>1, <2>5
  <2>7. ASSUME NEW i \in 1..(cursor + n)
        PROVE  new[i] = i
    <3>1. CASE i \in 1..cursor
      <4>1. new[i] = old[i]
        BY <2>1, <2>5, <3>1
      <4> QED
        BY <2>2, <3>1, <4>1
    <3>2. CASE i \notin 1..cursor
      <4>1. i - cursor \in 1..n
        BY <2>1, <3>2
      <4>2. new[i] = EventsAfter(cursor)[i - cursor]
        BY <2>1, <2>5, <3>2
      <4> QED
        BY <2>1, <2>5, <4>1, <4>2
    <3> QED
      BY <3>1, <3>2
  <2> HIDE DEF new, cursor, old
  <2>8. new = [i \in 1..Len(new) |-> i]
    <3>1. new \in [1..Len(new) -> Nat]
      BY <2>6
    <3> QED
      BY <2>6, <2>7, <3>1
  <2>9. sent'[c] = new /\ \A d \in Conn \ {c} : sent'[d] = sent[d]
    BY <2>4
  <2> QED
    BY <2>1, <2>4, <2>5, <2>6, <2>8, <2>9 DEF StreamInv, StreamsHaveNoGaps
<1>3. ASSUME NEW c \in Conn, Dial(c) \/ Leave(c) \/ Serve(c), sent' = sent
      PROVE  log' = log
  BY <1>3 DEF Dial, Leave, Serve, Begin, ReadRequest, Mark, HandleStop, Handle, Emit, EndAttach,
              WriteResponse
<1>4. ASSUME NEW c \in Conn, Dial(c) \/ Leave(c) \/ Serve(c), sent' # sent
      PROVE  Emit(c)
  BY <1>4 DEF Dial, Leave, Serve, Begin, ReadRequest, Mark, HandleStop, Handle, EndAttach,
              WriteResponse
<1>5. ASSUME ~ \E c \in Conn : Dial(c) \/ Leave(c) \/ Serve(c)
      PROVE  sent' = sent /\ log' \in Nat /\ log' >= log
  BY <1>5 DEF IpcNext, AcceptLoop, StopSteps, AcceptConn, Spawn, AcceptFails, AcceptResumes,
              AppendEvent, StopBeat, BeginStop, Awaken, Retire, CloseConns, StopReturned,
              CloseListenerAsync
<1> QED
  BY <1>1, <1>2, <1>3, <1>4, <1>5

\* Before the first connection there is nothing to promise.
LEMMA IpcInitial == IpcInit => IpcInv
BY IpcAssumption
   DEF IpcInit, IpcInv, IpcTypeOK, ConnStates, ConnInv, Served, StopInv, VersionInv, StreamInv,
       ClientsAreServed, DrainsPromptly, StopIsAnswered, StreamsHaveNoGaps, ResolveNeverTouches

LEMMA IpcInductive == IpcInv /\ [IpcNext]_ipcVars => IpcInv'
BY IpcTypeStep, ConnStep, StopStep, VersionStep, AnswerStep, StreamStep
   DEF IpcInv, ClientsAreServed

\* Whatever clients, versions and streams there are and whenever Stop comes: no
\* handler is left waiting for a client once the connections are closed, the stop
\* request that took the server down is answered, a stream misses and repeats no
\* event, and a resolve-only request never touches the project.
THEOREM ServedClients == IpcSpec => []ClientsAreServed
<1>1. IpcInv => ClientsAreServed
  BY DEF IpcInv
<1> QED
  BY <1>1, IpcInitial, IpcInductive, PTL DEF IpcSpec

-----------------------------------------------------------------------------
(* TuiLive                                                                 *)

\* A subscription as the terminal UI keeps it.
Subscription == [pos : Nat, buf : Seq(Nat), open : BOOLEAN,
                 reader : {"none", "armed", "frame", "end"}, frame : Nat]

TuiTypeOK ==
  /\ feed \in Seq([task : UiTask, kind : {"worker.completed", "worker.verified_done"}])
  /\ poll.at = "read" => poll.cursor \in Nat
  /\ attached \in BOOLEAN /\ attachSeeded \in BOOLEAN
  /\ subs \in Seq(Subscription)
  /\ lastEventID \in Nat /\ handled \in Seq(Nat)

\* Only the newest subscription is open or read, and only while it is attached;
\* before the first there is nothing to go on from.
OneStream ==
  /\ attached => Len(subs) > 0
  /\ \A e \in 1..Len(subs) :
       subs[e].open \/ subs[e].reader # "none" => e = Len(subs) /\ attached
  /\ \A e \in 1..Len(subs) : subs[e].reader = "end" => ~subs[e].open
  /\ subs # <<>> => attachSeeded
  /\ ~attachSeeded => handled = <<>>

\* A channel b holds consecutive ids, from the one after t up to p.
Holds(b, t, p) == p = t + Len(b) /\ \A i \in 1..Len(b) : b[i] = t + i

\* The last event out of a channel: handled, or in the hands of the command that
\* read it.
Taken(last, reader) == last + (IF reader = "frame" THEN 1 ELSE 0)

\* What subscription s has under way continues the last event handled, without a
\* gap: the frame that was read, then the channel, up to the stream's position.
Continues(s, last) ==
  /\ s.reader = "frame" => s.frame = last + 1
  /\ Holds(s.buf, Taken(last, s.reader), s.pos)

UnderWay == attached => Continues(subs[Len(subs)], lastEventID)

\* The frames handled are consecutive and end at the cursor a new stream goes on from.
Consecutive ==
  /\ \A i \in 1..(Len(handled) - 1) : handled[i + 1] = handled[i] + 1
  /\ handled # <<>> => handled[Len(handled)] = lastEventID

TuiInv == TuiTypeOK /\ OneStream /\ UnderWay /\ Consecutive

\* Sending the next event into a channel and taking the first out of it keep the ids
\* consecutive.
LEMMA SendingHolds ==
  ASSUME NEW b \in Seq(Nat), NEW t \in Nat, NEW p \in Nat, Holds(b, t, p)
  PROVE  Holds(Append(b, p + 1), t, p + 1)
BY DEF Holds

LEMMA TakingHolds ==
  ASSUME NEW b \in Seq(Nat), NEW t \in Nat, NEW p \in Nat, Holds(b, t, p), b # <<>>
  PROVE  Head(b) = t + 1 /\ Tail(b) \in Seq(Nat) /\ Holds(Tail(b), t + 1, p)
BY DEF Holds

\* Replacing one subscription leaves the others alone.
LEMMA OneSubscription ==
  ASSUME TuiTypeOK, NEW e \in 1..Len(subs), NEW n \in Subscription,
         subs' = [subs EXCEPT ![e] = n]
  PROVE  /\ subs' \in Seq(Subscription) /\ Len(subs') = Len(subs) /\ subs'[e] = n
         /\ \A f \in 1..Len(subs) : f # e => subs'[f] = subs[f]
<1> HIDE DEF Subscription
<1> QED
  BY DEF TuiTypeOK

\* Whoever is open or read is the newest, and it is attached.
LEMMA ItIsTheNewest ==
  ASSUME TuiInv, NEW e \in DOMAIN subs, subs[e].open \/ subs[e].reader # "none"
  PROVE  /\ e \in 1..Len(subs) /\ e = Len(subs) /\ attached
         /\ subs[e] \in Subscription /\ Continues(subs[e], lastEventID)
         /\ Taken(lastEventID, subs[e].reader) \in Nat
         /\ subs[e].reader = "end" => ~subs[e].open
<1> HIDE DEF Subscription
<1>1. e \in 1..Len(subs) /\ subs[e] \in Subscription
  BY DEF TuiInv, TuiTypeOK
<1> QED
  BY <1>1 DEF TuiInv, TuiTypeOK, OneStream, UnderWay, Taken

\* A step of the newest subscription e, which becomes n.
LEMMA NewestStep ==
  ASSUME TuiInv, NEW e \in DOMAIN subs, subs[e].open \/ subs[e].reader # "none",
         NEW n \in Subscription, subs' = [subs EXCEPT ![e] = n],
         UNCHANGED <<feed, poll, attachSeeded>>,
         attached' \in BOOLEAN, lastEventID' \in Nat, handled' \in Seq(Nat),
         n.open \/ n.reader # "none" => attached',
         n.reader = "end" => ~n.open,
         attached' => Continues(n, lastEventID'),
         Consecutive'
  PROVE  TuiInv'
<1>1. /\ e \in 1..Len(subs) /\ e = Len(subs) /\ attached /\ subs[e] \in Subscription
  BY ItIsTheNewest
<1>2. /\ subs' \in Seq(Subscription) /\ Len(subs') = Len(subs) /\ subs'[e] = n
      /\ \A f \in 1..Len(subs) : f # e => subs'[f] = subs[f]
  BY <1>1, OneSubscription DEF TuiInv
<1>3. TuiTypeOK'
  BY <1>2 DEF TuiInv, TuiTypeOK
<1>4. OneStream'
  <2>1. subs # <<>> /\ attachSeeded
    BY <1>1 DEF TuiInv, TuiTypeOK, OneStream
  <2> QED
    BY <1>1, <1>2, <2>1 DEF TuiInv, OneStream
<1>5. UnderWay'
  BY <1>1, <1>2 DEF UnderWay
<1> QED
  BY <1>3, <1>4, <1>5 DEF TuiInv

\* The stream sends the next event of the log.
LEMMA SendStep ==
  ASSUME TuiInv, NEW e \in DOMAIN subs, Send(e)
  PROVE  TuiInv'
<1> DEFINE n == [subs[e] EXCEPT !.pos = @ + 1, !.buf = Append(@, subs[e].pos + 1)]
<1>1. subs' = [subs EXCEPT ![e] = n]
  BY DEF Send, TuiInv, TuiTypeOK, Subscription
<1>2. subs[e].open
  BY DEF Send
<1>3. /\ e \in 1..Len(subs) /\ e = Len(subs) /\ attached /\ subs[e] \in Subscription
      /\ Continues(subs[e], lastEventID) /\ Taken(lastEventID, subs[e].reader) \in Nat
      /\ subs[e].reader = "end" => ~subs[e].open
  BY <1>2, ItIsTheNewest
<1>4. /\ n \in Subscription
      /\ n.reader = subs[e].reader /\ n.frame = subs[e].frame /\ n.open = subs[e].open
      /\ n.pos = subs[e].pos + 1 /\ n.buf = Append(subs[e].buf, subs[e].pos + 1)
  <2>1. n.pos = subs[e].pos + 1 /\ n.buf = Append(subs[e].buf, subs[e].pos + 1)
    BY <1>3 DEF Subscription
  <2>2. n.reader = subs[e].reader /\ n.frame = subs[e].frame /\ n.open = subs[e].open
    BY <1>3 DEF Subscription
  <2>3. Append(subs[e].buf, subs[e].pos + 1) \in Seq(Nat) /\ subs[e].pos + 1 \in Nat
    BY <1>3 DEF Subscription
  <2>4. n \in Subscription
    BY <1>3, <2>3 DEF Subscription
  <2> QED
    BY <2>1, <2>2, <2>4
<1>6. UNCHANGED <<feed, poll, attached, attachSeeded, lastEventID, handled>>
  BY DEF Send, serverVars, pollVars
<1> HIDE DEF n
<1>7. /\ Continues(n, lastEventID') /\ (n.reader = "end" => ~n.open) /\ attached'
  <2>1. subs[e].buf \in Seq(Nat) /\ subs[e].pos \in Nat
    BY <1>3 DEF Subscription
  <2>2. Holds(n.buf, Taken(lastEventID, subs[e].reader), n.pos)
    BY <1>3, <1>4, <2>1, SendingHolds DEF Continues
  <2> QED
    BY <1>3, <1>4, <1>6, <2>2 DEF Continues
<1>9. Consecutive' /\ attached' \in BOOLEAN /\ lastEventID' \in Nat /\ handled' \in Seq(Nat)
  BY <1>6 DEF TuiInv, Consecutive, TuiTypeOK
<1> QED
  BY <1>1, <1>2, <1>3, <1>4, <1>6, <1>7, <1>9, NewestStep

\* The stream ends.
LEMMA BreakStep ==
  ASSUME TuiInv, NEW e \in DOMAIN subs, Break(e)
  PROVE  TuiInv'
<1> DEFINE n == [subs[e] EXCEPT !.open = FALSE]
<1>1. subs' = [subs EXCEPT ![e] = n]
  BY DEF Break, TuiInv, TuiTypeOK, Subscription
<1>2. subs[e].open
  BY DEF Break
<1>3. /\ e \in 1..Len(subs) /\ e = Len(subs) /\ attached /\ subs[e] \in Subscription
      /\ Continues(subs[e], lastEventID) /\ Taken(lastEventID, subs[e].reader) \in Nat
      /\ subs[e].reader = "end" => ~subs[e].open
  BY <1>2, ItIsTheNewest
<1>4. /\ n \in Subscription /\ n.pos = subs[e].pos /\ n.buf = subs[e].buf
      /\ n.reader = subs[e].reader /\ n.frame = subs[e].frame /\ ~n.open
  BY <1>3 DEF Subscription
<1>6. UNCHANGED <<feed, poll, attached, attachSeeded, lastEventID, handled>>
  BY DEF Break, serverVars, pollVars
<1> HIDE DEF n
<1>7. /\ Continues(n, lastEventID') /\ (n.reader = "end" => ~n.open) /\ attached'
  BY <1>3, <1>4, <1>6 DEF Continues
<1>9. Consecutive' /\ attached' \in BOOLEAN /\ lastEventID' \in Nat /\ handled' \in Seq(Nat)
  BY <1>6 DEF TuiInv, Consecutive, TuiTypeOK
<1> QED
  BY <1>1, <1>2, <1>3, <1>4, <1>6, <1>7, <1>9, NewestStep

\* The command reads a frame, or the end.
LEMMA ReadFrameStep ==
  ASSUME TuiInv, NEW e \in DOMAIN subs, Read(e)
  PROVE  TuiInv'
<1>2. subs[e].reader = "armed"
  BY DEF Read
<1>3. /\ e \in 1..Len(subs) /\ e = Len(subs) /\ attached /\ subs[e] \in Subscription
      /\ Continues(subs[e], lastEventID) /\ Taken(lastEventID, subs[e].reader) \in Nat
      /\ subs[e].reader = "end" => ~subs[e].open
  BY <1>2, ItIsTheNewest
<1>5. subs[e].buf \in Seq(Nat) /\ subs[e].pos \in Nat
  BY <1>3 DEF Subscription
<1>6. UNCHANGED <<feed, poll, attached, attachSeeded, lastEventID, handled>>
  BY DEF Read, serverVars, pollVars
<1>9. Consecutive' /\ attached' \in BOOLEAN /\ lastEventID' \in Nat /\ handled' \in Seq(Nat)
  BY <1>6 DEF TuiInv, Consecutive, TuiTypeOK
<1>a. CASE subs[e].buf # <<>>
  <2> DEFINE n == [subs[e] EXCEPT !.reader = "frame", !.frame = Head(subs[e].buf),
                                  !.buf = Tail(@)]
  <2>1. subs' = [subs EXCEPT ![e] = n]
    BY <1>a DEF Read, TuiInv, TuiTypeOK, Subscription
  <2>2. /\ Head(subs[e].buf) = lastEventID + 1 /\ Tail(subs[e].buf) \in Seq(Nat)
        /\ Holds(Tail(subs[e].buf), lastEventID + 1, subs[e].pos)
    <3>1. Holds(subs[e].buf, lastEventID, subs[e].pos) /\ lastEventID \in Nat
      BY <1>2, <1>3 DEF Continues, Taken, TuiInv, TuiTypeOK
    <3> QED
      BY <1>5, <1>a, <3>1, TakingHolds
  <2>3. lastEventID + 1 \in Nat
    BY DEF TuiInv, TuiTypeOK
  <2>4. /\ n.reader = "frame" /\ n.frame = Head(subs[e].buf) /\ n.buf = Tail(subs[e].buf)
        /\ n.pos = subs[e].pos
    BY <1>3 DEF Subscription
  <2>5. n \in Subscription
    BY <1>3, <2>2, <2>3 DEF Subscription
  <2> HIDE DEF n
  <2>6. Continues(n, lastEventID') /\ (n.reader = "end" => ~n.open) /\ attached'
    BY <1>3, <1>6, <2>2, <2>4 DEF Continues, Taken
  <2> QED
    BY <1>2, <1>6, <1>9, <2>1, <2>5, <2>6, NewestStep
<1>b. CASE subs[e].buf = <<>>
  <2> DEFINE n == [subs[e] EXCEPT !.reader = "end"]
  <2>1. subs' = [subs EXCEPT ![e] = n] /\ ~subs[e].open
    BY <1>b DEF Read, TuiInv, TuiTypeOK, Subscription
  <2>2. /\ n \in Subscription /\ n.pos = subs[e].pos /\ n.buf = subs[e].buf
        /\ n.reader = "end" /\ n.open = subs[e].open
    BY <1>3 DEF Subscription
  <2> HIDE DEF n
  <2>3. Continues(n, lastEventID') /\ ~n.open /\ attached'
    BY <1>2, <1>3, <1>6, <2>1, <2>2 DEF Continues, Taken
  <2> QED
    BY <1>2, <1>6, <1>9, <2>1, <2>2, <2>3, NewestStep
<1> QED
  BY <1>a, <1>b

\* A frame is handled, and the command armed again.
LEMMA LiveFrameStep ==
  ASSUME TuiInv, NEW e \in DOMAIN subs, LiveFrame(e)
  PROVE  TuiInv'
<1> DEFINE n == [subs[e] EXCEPT !.reader = "armed"]
<1>2. subs[e].reader = "frame"
  BY DEF LiveFrame
<1>3. /\ e \in 1..Len(subs) /\ e = Len(subs) /\ attached /\ subs[e] \in Subscription
      /\ Continues(subs[e], lastEventID) /\ Taken(lastEventID, subs[e].reader) \in Nat
      /\ subs[e].reader = "end" => ~subs[e].open
  BY <1>2, ItIsTheNewest
<1>1. subs' = [subs EXCEPT ![e] = n]
  BY <1>3 DEF LiveFrame, TuiInv, TuiTypeOK, Subscription
<1>4. /\ n \in Subscription /\ n.pos = subs[e].pos /\ n.buf = subs[e].buf
      /\ n.reader = "armed" /\ n.open = subs[e].open
  BY <1>3 DEF Subscription
<1>5. subs[e].frame = lastEventID + 1 /\ lastEventID \in Nat /\ handled \in Seq(Nat)
  BY <1>2, <1>3 DEF Continues, TuiInv, TuiTypeOK
<1>6. /\ UNCHANGED <<feed, poll, attached, attachSeeded>>
      /\ lastEventID' = lastEventID + 1 /\ handled' = Append(handled, lastEventID + 1)
  BY <1>3, <1>5 DEF LiveFrame, serverVars, pollVars
<1> HIDE DEF n
<1>7. Continues(n, lastEventID') /\ (n.reader = "end" => ~n.open) /\ attached'
  BY <1>2, <1>3, <1>4, <1>5, <1>6 DEF Continues, Taken
<1>8. Consecutive'
  <2>1. /\ Len(handled') = Len(handled) + 1 /\ handled'[Len(handled) + 1] = lastEventID + 1
        /\ \A i \in 1..Len(handled) : handled'[i] = handled[i]
    BY <1>5, <1>6
  <2>2. /\ \A i \in 1..(Len(handled) - 1) : handled[i + 1] = handled[i] + 1
        /\ Len(handled) > 0 => handled[Len(handled)] = lastEventID
        /\ Len(handled) \in Nat
    BY <1>5 DEF TuiInv, Consecutive
  <2>3. \A i \in 1..Len(handled) : handled'[i + 1] = handled'[i] + 1
    BY <2>1, <2>2
  <2> QED
    BY <1>6, <2>1, <2>2, <2>3 DEF Consecutive
<1>9. attached' \in BOOLEAN /\ lastEventID' \in Nat /\ handled' \in Seq(Nat)
  BY <1>5, <1>6 DEF TuiInv, TuiTypeOK
<1> QED
  BY <1>1, <1>2, <1>3, <1>4, <1>6, <1>7, <1>8, <1>9, NewestStep

\* The end of the newest stream is noticed: nothing is attached any more.
LEMMA AttachEndedStep ==
  ASSUME TuiInv, NEW e \in DOMAIN subs, AttachEnded(e)
  PROVE  TuiInv'
<1> DEFINE n == [subs[e] EXCEPT !.reader = "none"]
<1>1. subs' = [subs EXCEPT ![e] = n]
  BY DEF AttachEnded, TuiInv, TuiTypeOK, Subscription
<1>2. subs[e].reader = "end"
  BY DEF AttachEnded
<1>3. /\ e \in 1..Len(subs) /\ e = Len(subs) /\ attached /\ subs[e] \in Subscription
      /\ Continues(subs[e], lastEventID) /\ Taken(lastEventID, subs[e].reader) \in Nat
      /\ subs[e].reader = "end" => ~subs[e].open
  BY <1>2, ItIsTheNewest
<1>4. n \in Subscription /\ n.reader = "none" /\ n.open = subs[e].open
  BY <1>3 DEF Subscription
<1>6. UNCHANGED <<feed, poll, attachSeeded, lastEventID, handled>> /\ attached' = FALSE
  BY <1>3 DEF AttachEnded, serverVars, pollVars
<1> HIDE DEF n
<1>7. (n.reader = "end" => ~n.open) /\ ~n.open
  BY <1>2, <1>3, <1>4
<1>9. Consecutive' /\ attached' \in BOOLEAN /\ lastEventID' \in Nat /\ handled' \in Seq(Nat)
  BY <1>6 DEF TuiInv, Consecutive, TuiTypeOK
<1> QED
  BY <1>1, <1>2, <1>3, <1>4, <1>6, <1>7, <1>9, NewestStep

\* A poll's answer starts the first subscription at its cursor, and a later one
\* where the last frame handled left off.
LEMMA FetchedStep ==
  ASSUME TuiInv, Fetched
  PROVE  TuiInv'
<1>1. UNCHANGED <<feed, handled>> /\ poll' = NoPoll /\ poll.at = "read"
  BY DEF Fetched, serverVars
<1>2. (poll.at = "read" => poll.cursor \in Nat)'
  BY <1>1 DEF NoPoll
<1>3. CASE attached
  <2>1. UNCHANGED <<attached, subs, lastEventID, attachSeeded>>
    BY <1>3 DEF Fetched, EnsureAttach
  <2> QED
    BY <1>1, <1>2, <2>1 DEF TuiInv, TuiTypeOK, OneStream, UnderWay, Consecutive
<1>4. CASE ~attached
  <2> DEFINE from == IF attachSeeded THEN lastEventID ELSE poll.cursor
             n == [pos |-> from, buf |-> <<>>, open |-> TRUE, reader |-> "armed",
                   frame |-> 0]
  <2>1. /\ attached' = TRUE /\ subs' = Append(subs, n) /\ lastEventID' = from
        /\ attachSeeded' = TRUE
    BY <1>4 DEF Fetched, EnsureAttach, Subscribe
  <2>2. from \in Nat
    BY <1>1 DEF TuiInv, TuiTypeOK
  <2>3. handled # <<>> => from = lastEventID
    BY DEF TuiInv, OneStream
  <2> HIDE DEF from
  <2>4. n \in Subscription /\ Continues(n, from) /\ n.reader = "armed"
    BY <2>2 DEF Subscription, Continues, Holds, Taken
  <2> HIDE DEF n
  <2>5. /\ subs' \in Seq(Subscription) /\ Len(subs') = Len(subs) + 1
        /\ subs'[Len(subs) + 1] = n /\ \A f \in 1..Len(subs) : subs'[f] = subs[f]
        /\ Len(subs) \in Nat
    BY <2>1, <2>4 DEF TuiInv, TuiTypeOK
  <2>6. TuiTypeOK'
    BY <1>1, <1>2, <2>1, <2>2, <2>5 DEF TuiInv, TuiTypeOK
  <2>7. OneStream'
    BY <1>1, <1>4, <2>1, <2>4, <2>5 DEF TuiInv, OneStream
  <2>8. UnderWay'
    BY <2>1, <2>4, <2>5 DEF UnderWay
  <2>9. Consecutive'
    BY <1>1, <2>1, <2>3 DEF TuiInv, Consecutive
  <2> QED
    BY <2>6, <2>7, <2>8, <2>9 DEF TuiInv
<1> QED
  BY <1>3, <1>4 DEF TuiInv, TuiTypeOK

\* Quitting closes every subscription.
LEMMA QuitStep ==
  ASSUME TuiInv, Quit
  PROVE  TuiInv'
<1>1. UNCHANGED <<feed, poll, attached, attachSeeded, lastEventID, handled>>
  BY DEF Quit, serverVars, pollVars
<1>2. \A e \in 1..Len(subs) : subs[e] \in Subscription
  BY DEF TuiInv, TuiTypeOK
<1>3. \A e \in 1..Len(subs) :
        LET n == [subs[e] EXCEPT !.open = FALSE] IN
        /\ n \in Subscription /\ ~n.open /\ n.reader = subs[e].reader
        /\ n.frame = subs[e].frame /\ n.buf = subs[e].buf /\ n.pos = subs[e].pos
  BY <1>2 DEF Subscription
<1>4. /\ DOMAIN subs = 1..Len(subs) /\ Len(subs) \in Nat
      /\ subs' = [e \in 1..Len(subs) |-> [subs[e] EXCEPT !.open = FALSE]]
  BY DEF Quit, TuiInv, TuiTypeOK
<1> DEFINE Closed(e) == [subs[e] EXCEPT !.open = FALSE]
<1>5. \A e \in 1..Len(subs) :
        /\ Closed(e) \in Subscription /\ ~Closed(e).open /\ Closed(e).reader = subs[e].reader
        /\ Closed(e).frame = subs[e].frame /\ Closed(e).buf = subs[e].buf
        /\ Closed(e).pos = subs[e].pos
  BY <1>3
<1>6. subs' = [e \in 1..Len(subs) |-> Closed(e)]
  BY <1>4
<1> HIDE DEF Closed
<1>7. /\ subs' \in Seq(Subscription) /\ Len(subs') = Len(subs)
      /\ \A e \in 1..Len(subs) : subs'[e] = Closed(e)
  <2>1. \A e \in 1..Len(subs) : subs'[e] = Closed(e)
    BY <1>6
  <2>2. subs' \in [1..Len(subs) -> Subscription]
    BY <1>5, <1>6
  <2>3. subs' \in Seq(Subscription) /\ Len(subs') = Len(subs)
    BY <1>4, <2>2
  <2> QED
    BY <2>1, <2>3
<1>8. TuiTypeOK'
  BY <1>1, <1>7 DEF TuiInv, TuiTypeOK
<1>9. OneStream'
  <2>1. subs = <<>> => subs' = <<>>
    BY <1>4, <1>7, <1>8 DEF TuiTypeOK
  <2>2. /\ (attached => Len(subs) > 0)'
        /\ (subs # <<>> => attachSeeded)' /\ (~attachSeeded => handled = <<>>)'
    BY <1>1, <1>7, <2>1 DEF TuiInv, OneStream
  <2>3. \A e \in 1..Len(subs') :
          /\ subs'[e].open \/ subs'[e].reader # "none" => e = Len(subs') /\ attached'
          /\ subs'[e].reader = "end" => ~subs'[e].open
    BY <1>1, <1>5, <1>7 DEF TuiInv, OneStream
  <2> QED
    BY <2>2, <2>3 DEF OneStream
<1>10. UnderWay'
  <2> SUFFICES ASSUME attached
               PROVE  Continues(subs'[Len(subs)], lastEventID)
    BY <1>1, <1>7 DEF UnderWay
  <2>1. Len(subs) \in 1..Len(subs) /\ Continues(subs[Len(subs)], lastEventID)
    BY <1>4 DEF TuiInv, OneStream, UnderWay
  <2> QED
    BY <1>5, <1>7, <2>1 DEF Continues
<1>11. Consecutive'
  BY <1>1 DEF TuiInv, Consecutive
<1> QED
  BY <1>8, <1>9, <1>10, <1>11 DEF TuiInv

\* Everything else leaves the stream alone: the log grows and the poll moves on.
LEMMA AsideStep ==
  ASSUME TuiInv, UNCHANGED streamVars,
         feed' \in Seq([task : UiTask, kind : {"worker.completed", "worker.verified_done"}]),
         (poll.at = "read" => poll.cursor \in Nat)'
  PROVE  TuiInv'
BY DEF TuiInv, TuiTypeOK, OneStream, UnderWay, Consecutive, streamVars

LEMMA TuiStep == TuiInv /\ [TuiNext]_tuiVars => TuiInv'
<1> SUFFICES ASSUME TuiInv, [TuiNext]_tuiVars
             PROVE  TuiInv'
  OBVIOUS
<1> DEFINE Event == [task : UiTask, kind : {"worker.completed", "worker.verified_done"}]
<1>0. feed \in Seq(Event) /\ (poll.at = "read" => poll.cursor \in Nat) /\ Len(feed) \in Nat
  BY DEF TuiInv, TuiTypeOK
<1>1. ASSUME NEW t \in UiTask, Complete(t) PROVE TuiInv'
  <2>1. feed' \in Seq(Event) /\ UNCHANGED <<poll, streamVars>>
    BY <1>0, <1>1 DEF Complete, pollVars
  <2> QED
    BY <1>0, <2>1, AsideStep
<1>2. ASSUME NEW t \in UiTask, Verified(t) PROVE TuiInv'
  <2>1. feed' \in Seq(Event) /\ UNCHANGED <<poll, streamVars>>
    BY <1>0, <1>2 DEF Verified, pollVars
  <2> QED
    BY <1>0, <2>1, AsideStep
<1>3. CASE Refresh
  BY <1>0, <1>3, AsideStep DEF Refresh, StartFetch, serverVars
<1>4. CASE ReadSnapshot
  BY <1>0, <1>4, AsideStep DEF ReadSnapshot, serverVars
<1>5. CASE Fetched
  BY <1>5, FetchedStep
<1>6. CASE FetchFails
  BY <1>0, <1>6, AsideStep DEF FetchFails, NoPoll, serverVars
<1>7. ASSUME NEW e \in DOMAIN subs,
             Send(e) \/ Read(e) \/ LiveFrame(e) \/ AttachEnded(e) \/ Break(e)
      PROVE  TuiInv'
  BY <1>7, SendStep, ReadFrameStep, LiveFrameStep, AttachEndedStep, BreakStep
<1>8. CASE DrillIn \/ DrillOut
  <2>1. PICK l, p, t : Drill(l, p, t)
    BY <1>8 DEF DrillIn, DrillOut
  <2> QED
    BY <1>0, <2>1, AsideStep DEF Drill, DrillFetch, StartFetch, serverVars, pollVars
<1>9. CASE Quit
  BY <1>9, QuitStep
<1>10. CASE UNCHANGED tuiVars
  BY <1>0, <1>10, AsideStep DEF tuiVars, serverVars, pollVars
<1> QED
  BY <1>1, <1>2, <1>3, <1>4, <1>5, <1>6, <1>7, <1>8, <1>9, <1>10 DEF TuiNext, Streaming

\* Over all reconnects, however often streams break and whatever a poll says in
\* between, the terminal UI handles the events after its first cursor each once and in
\* order, and reads no subscription but the newest.
THEOREM FeedHasNoGap == TuiSpec => []FeedIsSeamless
<1>1. TuiInit => TuiInv
  <2> SUFFICES ASSUME TuiInit
               PROVE  TuiInv
    OBVIOUS
  <2>1. TuiTypeOK
    <3>1. poll.at # "read"
      BY DEF TuiInit, NoPoll
    <3>2. subs \in Seq(Subscription) /\ handled \in Seq(Nat)
      BY DEF TuiInit
    <3>3. feed \in Seq([task : UiTask, kind : {"worker.completed", "worker.verified_done"}])
      BY DEF TuiInit
    <3> QED
      BY <3>1, <3>2, <3>3 DEF TuiInit, TuiTypeOK
  <2>2. Len(subs) = 0 /\ Len(handled) = 0
    BY DEF TuiInit
  <2>3. OneStream /\ UnderWay /\ Consecutive
    BY <2>2 DEF TuiInit, OneStream, UnderWay, Consecutive
  <2> QED
    BY <2>1, <2>3 DEF TuiInv
<1>2. TuiInv => FeedIsSeamless
  <2> SUFFICES ASSUME TuiInv
               PROVE  FeedIsSeamless
    OBVIOUS
  <2>1. DOMAIN handled = 1..Len(handled) /\ Len(handled) \in Nat
        /\ DOMAIN subs = 1..Len(subs)
    BY DEF TuiInv, TuiTypeOK
  <2>2. \A i, j \in DOMAIN handled : j = i + 1 => handled[j] = handled[i] + 1
    BY <2>1 DEF TuiInv, Consecutive
  <2> QED
    BY <2>1, <2>2 DEF TuiInv, OneStream, Consecutive, FeedIsSeamless
<1> QED
  BY <1>1, <1>2, TuiStep, PTL DEF TuiSpec

-----------------------------------------------------------------------------
(* SnapshotPages                                                           *)

\* The least-number principle, for a set.
LEMMA LeastNumber ==
  ASSUME NEW S, S \subseteq Nat, S # {}
  PROVE  \E x \in S : \A y \in S : x <= y
<1> DEFINE R == OpToRel(<, Nat)
<1>1. IsWellFoundedOn(R, Nat)
  BY NatLessThanWellFounded
<1>2. \A x, y \in Nat : <<x, y>> \in R <=> x < y
  BY DEF OpToRel
<1> HIDE DEF R
<1>3. PICK x \in S : \A y \in S : ~(<<y, x>> \in R)
  BY <1>1, WFMin
<1>4. \A y \in S : ~(y < x)
  BY <1>2, <1>3
<1>5. \A y \in S : x <= y
  BY <1>4
<1> QED
  BY <1>5

Keys == 1..MaxRowId

\* The greatest of some rows.
LEMMA GreatestRow ==
  ASSUME NEW S, S \subseteq Keys, S # {}
  PROVE  \E m \in S : \A y \in S : y <= m
<1> DEFINE D == {MaxRowId - x : x \in S}
<1>0. MaxRowId \in Nat
  BY PagesAssumption
<1>1. D \subseteq Nat
  BY <1>0 DEF Keys
<1>2. D # {}
  OBVIOUS
<1>3. PICK m \in D : \A y \in D : m <= y
  BY <1>1, <1>2, LeastNumber
<1>4. PICK x \in S : m = MaxRowId - x
  BY <1>3
<1>5. ASSUME NEW y \in S
      PROVE  y <= x
  <2>1. MaxRowId - y \in D
    OBVIOUS
  <2>2. m <= MaxRowId - y /\ x \in Nat /\ y \in Nat
    BY <1>0, <1>3, <2>1 DEF Keys
  <2> QED
    BY <1>0, <1>4, <2>2
<1> QED
  BY <1>5

\* The last of some rows, in the order the list is read in.
LEMMA LastRow ==
  ASSUME NEW S, S \subseteq Keys, S # {}
  PROVE  \E m \in S : \A y \in S : y # m => Precedes(y, m)
<1>0. S \subseteq Nat
  BY PagesAssumption DEF Keys
<1>1. CASE list = "events"
  <2>1. PICK m \in S : \A y \in S : m <= y
    BY <1>0, LeastNumber
  <2>2. \A y \in S : y # m => y > m
    BY <1>0, <2>1
  <2> QED
    BY <1>1, <2>2 DEF Precedes
<1>2. CASE list # "events"
  <2>1. PICK m \in S : \A y \in S : y <= m
    BY GreatestRow
  <2>2. \A y \in S : y # m => y < m
    BY <1>0, <2>1
  <2> QED
    BY <1>2, <2>2 DEF Precedes
<1> QED
  BY <1>1, <1>2

\* s is rows, in order.
InReadOrder(s, rows) ==
  /\ ToSet(s) = rows
  /\ \A i, j \in DOMAIN s : i < j => Precedes(s[i], s[j])

LEMMA RowsAreFinite ==
  ASSUME NEW S, S \subseteq Keys
  PROVE  IsFiniteSet(S) /\ Cardinality(S) \in Nat
<1>1. IsFiniteSet(Keys)
  <2>1. 1 \in Int /\ MaxRowId \in Int
    BY PagesAssumption
  <2> QED
    BY <2>1, FS_Interval, Zenon DEF Keys
<1> QED
  BY <1>1, FS_Subset, FS_CardinalityType

\* Rows can be sorted: of those that could not, take the fewest and leave out the last.
LEMMA SortedExists ==
  ASSUME NEW S, S \subseteq Keys
  PROVE  \E s \in [1..Cardinality(S) -> S] : InReadOrder(s, S)
<1> DEFINE Can(T) == \E s \in [1..Cardinality(T) -> T] : InReadOrder(s, T)
           Bad == {n \in Nat : \E T \in SUBSET Keys : Cardinality(T) = n /\ ~Can(T)}
<1> SUFFICES ASSUME ~Can(S)
             PROVE  FALSE
  OBVIOUS
<1>1. Cardinality(S) \in Bad
  BY RowsAreFinite
<1>2. PICK n \in Bad : \A m \in Bad : n <= m
  <2>1. Bad \subseteq Nat
    OBVIOUS
  <2> HIDE DEF Bad
  <2> QED
    BY <1>1, <2>1, LeastNumber
<1>3. n \in Nat
  OBVIOUS
<1>4. PICK T \in SUBSET Keys : Cardinality(T) = n /\ ~Can(T)
  OBVIOUS
<1>5. T # {}
  <2> SUFFICES ASSUME T = {}
               PROVE  Can(T)
    BY <1>4
  <2>1. Cardinality(T) = 0
    BY FS_EmptySet
  <2> DEFINE e == [i \in 1..0 |-> 0]
  <2>2. e \in [1..Cardinality(T) -> T] /\ DOMAIN e = {}
    BY <2>1
  <2>3. ToSet(e) = T
    BY <2>2 DEF ToSet
  <2>4. InReadOrder(e, T)
    BY <2>2, <2>3 DEF InReadOrder
  <2> QED
    BY <2>2, <2>4
<1>6. PICK m \in T : \A y \in T : y # m => Precedes(y, m)
  BY <1>5, LastRow
<1> DEFINE U == T \ {m}
<1>7. U \in SUBSET Keys /\ Cardinality(U) = n - 1 /\ n > 0
  <2>1. IsFiniteSet(T)
    BY RowsAreFinite
  <2>2. Cardinality(U) = Cardinality(T) - 1
    BY <1>6, <2>1, FS_RemoveElement
  <2>3. Cardinality(U) \in Nat
    BY RowsAreFinite
  <2> QED
    BY <1>3, <1>4, <2>2, <2>3
<1>8. Can(U)
  <2>1. n - 1 \in Nat /\ ~(n <= n - 1)
    BY <1>3, <1>7
  <2>2. n - 1 \notin Bad
    BY <1>2, <2>1
  <2> HIDE DEF Can
  <2> QED
    BY <1>7, <2>1, <2>2
<1>9. PICK s \in [1..(n - 1) -> U] : InReadOrder(s, U)
  BY <1>7, <1>8
<1> DEFINE t == [i \in 1..n |-> IF i = n THEN m ELSE s[i]]
<1> HIDE DEF U, Bad, Can
<1>10. \A i \in 1..n : i # n => i \in 1..(n - 1) /\ t[i] = s[i] /\ s[i] \in U
  BY <1>3, <1>9
<1>11. t \in [1..n -> T] /\ t[n] = m /\ n \in 1..n
  BY <1>3, <1>6, <1>7, <1>10 DEF U
<1>12. ToSet(t) = T
  <2>1. \A r \in T : \E i \in 1..n : t[i] = r
    <3> SUFFICES ASSUME NEW r \in T, r # m
                 PROVE  \E i \in 1..n : t[i] = r
      BY <1>11
    <3>1. PICK i \in 1..(n - 1) : s[i] = r
      BY <1>9 DEF InReadOrder, ToSet, U
    <3>2. i \in 1..n /\ t[i] = s[i]
      BY <1>3, <3>1
    <3> QED
      BY <3>1, <3>2
  <2> HIDE DEF t
  <2> QED
    BY <1>11, <2>1 DEF ToSet
<1>13. ASSUME NEW i \in 1..n, NEW j \in 1..n, i < j
       PROVE  Precedes(t[i], t[j])
  <2>1. i # n /\ i \in 1..(n - 1) /\ t[i] = s[i] /\ s[i] \in U
    BY <1>3, <1>10, <1>13
  <2>2. CASE j = n
    BY <1>6, <1>11, <2>1, <2>2 DEF U
  <2>3. CASE j # n
    <3>1. j \in 1..(n - 1) /\ t[j] = s[j]
      BY <1>10, <2>3
    <3> QED
      BY <1>9, <1>13, <2>1, <3>1 DEF InReadOrder
  <2> QED
    BY <2>2, <2>3
<1>14. InReadOrder(t, T)
  <2>1. DOMAIN t = 1..n
    OBVIOUS
  <2> HIDE DEF t
  <2> QED
    BY <1>12, <1>13, <2>1 DEF InReadOrder
<1>15. Can(T)
  <2> HIDE DEF t
  <2> QED
    BY <1>4, <1>11, <1>14 DEF Can
<1> QED
  BY <1>4, <1>15

LEMMA SortedIs ==
  ASSUME NEW S, S \subseteq Keys
  PROVE  /\ Cardinality(S) \in Nat /\ Sorted(S) \in [1..Cardinality(S) -> S]
         /\ InReadOrder(Sorted(S), S)
<1>1. Sorted(S) = CHOOSE s \in [1..Cardinality(S) -> S] : InReadOrder(s, S)
  BY Zenon DEF Sorted, InReadOrder
<1>2. \E s \in [1..Cardinality(S) -> S] : InReadOrder(s, S)
  BY SortedExists
<1> QED
  BY <1>1, <1>2, RowsAreFinite

\* The first n of the rows in order.
LEMMA FirstOf ==
  ASSUME NEW S, S \subseteq Keys, NEW n \in 0..Cardinality(S)
  PROVE  LET s == SubSeq(Sorted(S), 1, n) IN
         /\ s \in Seq(S) /\ Len(s) = n /\ DOMAIN s = 1..n
         /\ \A i \in 1..n : s[i] = Sorted(S)[i]
<1>1. Cardinality(S) \in Nat /\ Sorted(S) \in [1..Cardinality(S) -> S]
  BY SortedIs
<1>2. Sorted(S) \in Seq(S) /\ Len(Sorted(S)) = Cardinality(S)
  BY <1>1
<1> QED
  BY <1>1, <1>2

\* A page: the rows past the cursor in order, as many as asked for; the look-ahead row
\* says whether there are more, and the cursor is the last row of the page.
IsPage(p, P, limit) ==
  /\ p.items \in Seq(P) /\ Len(p.items) <= limit /\ p.hasMore \in BOOLEAN
  /\ \A i, j \in 1..Len(p.items) : i < j => Precedes(p.items[i], p.items[j])
  /\ p.hasMore => /\ p.next \in P /\ p.items # <<>> /\ p.items[Len(p.items)] = p.next
                  /\ \A r \in P : \/ \E i \in 1..Len(p.items) : p.items[i] = r
                                  \/ Precedes(p.next, r)
  /\ ~p.hasMore => /\ p.next = 0
                   /\ \A r \in P : \E i \in 1..Len(p.items) : p.items[i] = r

LEMMA PageIs ==
  ASSUME NEW rows, rows \subseteq Keys, NEW c, NEW limit \in Nat \ {0}
  PROVE  IsPage(PageOf(rows, c, limit), PastCursor(rows, c), limit)
<1> DEFINE P == PastCursor(rows, c)
           f == Sorted(P)
           n == Cardinality(P)
           k == IF n > limit THEN limit + 1 ELSE n
           items == SubSeq(f, 1, k)
<1>1. P \subseteq Keys
  BY DEF PastCursor
<1> HIDE DEF P
<1>2. n \in Nat /\ f \in [1..n -> P] /\ InReadOrder(f, P)
  BY <1>1, SortedIs
<1>3. Len(f) = n /\ DOMAIN f = 1..n /\ f \in Seq(P)
  BY <1>2
<1>4. \A r \in P : \E i \in 1..n : f[i] = r
  BY <1>2, <1>3 DEF InReadOrder, ToSet
<1>5. \A i, j \in 1..n : i < j => Precedes(f[i], f[j])
  BY <1>2, <1>3 DEF InReadOrder
<1>6. Fetch(rows, c, limit) = items
  BY <1>3 DEF Fetch, P
<1>7. k \in 0..n /\ (n > limit <=> k > limit) /\ k \in Nat /\ limit \in Nat
  BY <1>2
<1>8. Len(items) = k /\ items \in Seq(P) /\ \A i \in 1..k : items[i] = f[i]
  BY <1>1, <1>7, FirstOf
<1> HIDE DEF items, f, n, k
<1>9. PageOf(rows, c, limit) =
        [items |-> IF k > limit THEN SubSeq(items, 1, limit) ELSE items,
         hasMore |-> k > limit,
         next |-> IF k > limit THEN SubSeq(items, 1, limit)[limit] ELSE 0]
  <2>1. PageOf(rows, c, limit) =
          [items |-> IF Len(items) > limit THEN SubSeq(items, 1, limit) ELSE items,
           hasMore |-> Len(items) > limit,
           next |-> IF Len(items) > limit
                    THEN (IF Len(items) > limit THEN SubSeq(items, 1, limit)
                                                ELSE items)[limit] ELSE 0]
    BY <1>6, Zenon DEF PageOf
  <2> QED
    BY <1>8, <2>1
<1> DEFINE p == PageOf(rows, c, limit)
<1>12. /\ p.items = IF k > limit THEN SubSeq(items, 1, limit) ELSE items
       /\ p.next = IF k > limit THEN SubSeq(items, 1, limit)[limit] ELSE 0
  BY <1>9
<1>13. (p.hasMore <=> k > limit) /\ p.hasMore \in BOOLEAN
  <2> DEFINE b == k > limit
  <2>1. p = [items |-> IF k > limit THEN SubSeq(items, 1, limit) ELSE items,
             hasMore |-> b,
             next |-> IF k > limit THEN SubSeq(items, 1, limit)[limit] ELSE 0]
    BY <1>9, Zenon
  <2>2. b \in BOOLEAN
    OBVIOUS
  <2> HIDE DEF b, p
  <2>3. p.hasMore = b
    BY <2>1
  <2> QED
    BY <2>2, <2>3, Zenon DEF b
<1> HIDE DEF p
<1> SUFFICES IsPage(p, P, limit)
  BY DEF p, P
<1>10. CASE n > limit
  <2>1. k > limit /\ limit + 1 <= n
    BY <1>2, <1>7, <1>10
  <2> DEFINE t == SubSeq(items, 1, limit)
  <2>2. t \in Seq(P) /\ Len(t) = limit /\ \A i \in 1..limit : t[i] = items[i]
    BY <1>7, <1>8, <2>1
  <2>3. p.items = t /\ p.next = t[limit]
    BY <1>12, <2>1
  <2>9. p.hasMore
    BY <1>13, <2>1
  <2> HIDE DEF t
  <2>4. \A i \in 1..limit : t[i] = f[i] /\ i \in 1..n
    BY <1>2, <1>7, <1>8, <2>1, <2>2
  <2>5. limit \in 1..limit
    OBVIOUS
  <2>6. \A i, j \in 1..limit : i < j => Precedes(t[i], t[j])
    BY <1>5, <2>4
  <2>7. ASSUME NEW r \in P
        PROVE  (\E i \in 1..limit : t[i] = r) \/ Precedes(t[limit], r)
    <3>1. PICK i \in 1..n : f[i] = r
      BY <1>4
    <3>2. CASE i <= limit
      BY <2>4, <3>1, <3>2
    <3>3. CASE i > limit
      BY <1>5, <2>4, <2>5, <3>1, <3>3
    <3> QED
      BY <1>2, <3>1, <3>2, <3>3
  <2>8. t[limit] \in P /\ t # <<>>
    BY <2>2, <2>5
  <2> QED
    BY <2>2, <2>3, <2>6, <2>7, <2>8, <2>9, <1>13 DEF IsPage
<1>11. CASE ~(n > limit)
  <2>1. ~(k > limit) /\ k = n
    BY <1>2, <1>7, <1>11 DEF k
  <2>2. p.items = items /\ p.next = 0
    BY <1>12, <2>1
  <2>5. ~p.hasMore
    BY <1>13, <2>1
  <2>3. Len(items) = n /\ \A i \in 1..n : items[i] = f[i]
    BY <1>8, <2>1
  <2>4. Len(items) <= limit
    BY <1>2, <1>11, <2>3
  <2> QED
    BY <1>4, <1>5, <1>8, <2>2, <2>3, <2>4, <2>5, <1>13 DEF IsPage
<1> QED
  BY <1>10, <1>11

DbStates == [rows : SUBSET Keys, workers : Nat]

Answers == [total : Nat, cursor : Nat, items : Seq(Nat), hasMore : BOOLEAN,
            next : Nat, workers : Nat]

Reading == {"begun", "scoped", "counted", "workers", "placed", "read"}

PagesTypeOK ==
  /\ list \in Lists /\ db \in DbStates /\ view \in DbStates
  /\ query \in Reading \cup {"ask", "done", "failed"}
  /\ answer \in Answers /\ after \in Nat /\ shown \in Seq(Nat)

\* What the page under construction holds is of the view, and the view is of the time
\* of the query.
AnswerInv ==
  /\ query \in Reading => /\ ValidLimit(asked) /\ view \in during
                          /\ throughout \subseteq view.rows
  /\ query \in {"counted", "workers", "placed", "read"} =>
       answer.total = Cardinality(view.rows)
  /\ query \in {"workers", "placed", "read"} =>
       answer.workers = view.workers /\ view.workers <= MaxActive
  /\ query \in {"placed", "read"} => \A r \in view.rows : r <= answer.cursor

ReadInv ==
  query = "read" =>
    LET p == PageOf(view.rows, after, NormalizeLimit(asked))
    IN  answer.items = p.items /\ answer.next = p.next /\ answer.hasMore = p.hasMore

Showing(r) == \E i \in 1..Len(shown) : shown[i] = r

\* The walk so far: what is shown ends at the cursor, and of the rows that were there
\* throughout only those past the cursor are not shown.
ShownInv ==
  /\ throughout \subseteq db.rows
  /\ \A i, j \in 1..Len(shown) : i < j => Precedes(shown[i], shown[j])
  /\ query \in Reading \cup {"ask"} =>
       /\ after = 0 => shown = <<>>
       /\ after # 0 => /\ shown # <<>> /\ shown[Len(shown)] = after
                       /\ \A r \in throughout : Precedes(after, r) \/ Showing(r)
  /\ query = "done" => \A r \in throughout : Showing(r)

PagesInv == PagesTypeOK /\ AnswerInv /\ ReadInv /\ ShownInv

LEMMA LimitInRange ==
  ASSUME ValidLimit(asked)
  PROVE  NormalizeLimit(asked) \in Nat \ {0} /\ NormalizeLimit(asked) <= MaxLimit
BY PagesAssumption DEF ValidLimit, NormalizeLimit

\* The page of a view does not depend on anything else.
LEMMA PageUnchanged ==
  ASSUME list' = list, view' = view, after' = after, asked' = asked
  PROVE  PageOf(view.rows, after, NormalizeLimit(asked))'
           = PageOf(view.rows, after, NormalizeLimit(asked))
BY DEF PageOf, Fetch, Sorted, PastCursor, Precedes, NormalizeLimit

\* A commit of another process.
LEMMA CommitStep ==
  ASSUME PagesInv, NEW s \in DbStates, Commit(s)
  PROVE  PagesInv'
<1>1. /\ db' = s /\ during' = during \cup {s} /\ throughout' = throughout \cap s.rows
      /\ list' = list /\ asked' = asked /\ view' = view /\ query' = query
      /\ after' = after /\ answer' = answer /\ shown' = shown
  BY DEF Commit
<1>2. PagesTypeOK'
  BY <1>1 DEF PagesInv, PagesTypeOK
<1>3. AnswerInv'
  BY <1>1 DEF PagesInv, AnswerInv, ValidLimit
<1>4. ReadInv'
  BY <1>1, PageUnchanged DEF PagesInv, ReadInv
<1>5. ShownInv'
  BY <1>1 DEF PagesInv, ShownInv, Showing, Precedes
<1> QED
  BY <1>2, <1>3, <1>4, <1>5 DEF PagesInv

\* A query of the read transaction, up to the page.
LEMMA ProceedStep ==
  ASSUME PagesInv, NEW to \in {"scoped", "counted", "workers", "placed", "failed"},
         NEW a \in Answers, query \in Reading, query' = to, answer' = a,
         UNCHANGED <<list, asked, db, view, after, during, shown, throughout>>,
         to \in {"counted", "workers", "placed"} => a.total = Cardinality(view.rows),
         to \in {"workers", "placed"} => a.workers = view.workers /\ view.workers <= MaxActive,
         to = "placed" => \A r \in view.rows : r <= a.cursor
  PROVE  PagesInv'
<1>2. PagesTypeOK'
  BY DEF PagesInv, PagesTypeOK, Reading
<1>3. AnswerInv'
  BY DEF PagesInv, AnswerInv, ValidLimit, Reading
<1>4. ReadInv'
  BY DEF ReadInv
<1>5. ShownInv'
  BY DEF PagesInv, ShownInv, Showing, Precedes, Reading
<1> QED
  BY <1>2, <1>3, <1>4, <1>5 DEF PagesInv

LEMMA ReadPageStep ==
  ASSUME PagesInv, ReadPage
  PROVE  PagesInv'
<1> DEFINE p == PageOf(view.rows, after, NormalizeLimit(asked))
<1>0. PagesTypeOK /\ AnswerInv /\ ShownInv
  BY DEF PagesInv
<1>1. /\ query = "placed" /\ query' = "read"
      /\ answer' = [answer EXCEPT !.items = p.items, !.next = p.next, !.hasMore = p.hasMore]
      /\ UNCHANGED <<list, asked, db, view, after, during, shown, throughout>>
  BY DEF ReadPage, Proceed, Visible
<1>2. IsPage(p, PastCursor(view.rows, after), NormalizeLimit(asked))
  <2>1. ValidLimit(asked) /\ view.rows \subseteq Keys
    BY <1>0, <1>1 DEF AnswerInv, Reading, PagesTypeOK, DbStates
  <2> QED
    BY <2>1, LimitInRange, PageIs
<1>3. PastCursor(view.rows, after) \subseteq Nat
  BY <1>0 DEF PastCursor, PagesTypeOK, DbStates, Keys
<1> HIDE DEF p
<1>4. p.items \in Seq(Nat) /\ p.next \in Nat /\ p.hasMore \in BOOLEAN
  <2>1. p.items \in Seq(Nat)
    BY <1>2, <1>3 DEF IsPage
  <2>2. p.hasMore \in BOOLEAN
    BY <1>2 DEF IsPage
  <2>3. p.next \in Nat
    BY <1>2, <1>3 DEF IsPage
  <2> QED
    BY <2>1, <2>2, <2>3
<1>5. answer' = [total |-> answer.total, cursor |-> answer.cursor, items |-> p.items,
                 hasMore |-> p.hasMore, next |-> p.next, workers |-> answer.workers]
  BY <1>0, <1>1 DEF PagesTypeOK, Answers
<1>6. answer' \in Answers
  BY <1>0, <1>4, <1>5 DEF PagesTypeOK, Answers
<1>7. /\ answer'.items = p.items /\ answer'.next = p.next /\ answer'.hasMore = p.hasMore
      /\ answer'.total = answer.total /\ answer'.cursor = answer.cursor
      /\ answer'.workers = answer.workers
  BY <1>5
<1>8. PagesTypeOK'
  BY <1>0, <1>1, <1>6 DEF PagesTypeOK, Reading
<1>9. AnswerInv'
  BY <1>0, <1>1, <1>7 DEF AnswerInv, ValidLimit, Reading
<1>10. ReadInv'
  BY <1>1, <1>7, PageUnchanged DEF ReadInv, p
<1>11. ShownInv'
  BY <1>0, <1>1 DEF ShownInv, Showing, Precedes, Reading
<1> QED
  BY <1>8, <1>9, <1>10, <1>11 DEF PagesInv

\* What a complete response is.
LEMMA ResponseIs ==
  ASSUME PagesInv, query = "read"
  PROVE  /\ answer \in Answers
         /\ IsPage(answer, PastCursor(view.rows, after), NormalizeLimit(asked))
         /\ ValidLimit(asked) /\ throughout \subseteq view.rows /\ view.rows \subseteq Keys
<1> DEFINE p == PageOf(view.rows, after, NormalizeLimit(asked))
<1>1. /\ ValidLimit(asked) /\ view.rows \subseteq Keys /\ throughout \subseteq view.rows
      /\ answer \in Answers
  BY DEF PagesInv, AnswerInv, Reading, PagesTypeOK, DbStates
<1>2. IsPage(p, PastCursor(view.rows, after), NormalizeLimit(asked))
  BY <1>1, LimitInRange, PageIs
<1>3. answer.items = p.items /\ answer.next = p.next /\ answer.hasMore = p.hasMore
  BY DEF PagesInv, ReadInv
<1>5. (answer.hasMore <=> p.hasMore) /\ answer.hasMore \in BOOLEAN
  BY <1>1, <1>3, Zenon DEF Answers
<1> HIDE DEF p
<1>6. answer.items = p.items /\ answer.next = p.next
  BY <1>3
<1>4. IsPage(answer, PastCursor(view.rows, after), NormalizeLimit(asked))
  BY <1>2, <1>5, <1>6 DEF IsPage
<1> QED
  BY <1>1, <1>4

\* A response passes the client's validation.
LEMMA ResponsesAreValid ==
  ASSUME PagesInv, query = "read"
  PROVE  ValidResponse(answer)
<1> DEFINE P == PastCursor(view.rows, after)
<1>0. /\ answer \in Answers /\ IsPage(answer, P, NormalizeLimit(asked))
      /\ ValidLimit(asked) /\ view.rows \subseteq Keys
  BY ResponseIs
<1>1. P \subseteq view.rows /\ P \subseteq Keys
  BY <1>0 DEF PastCursor
<1> HIDE DEF P
<1>2. NormalizeLimit(asked) \in Nat /\ NormalizeLimit(asked) <= MaxLimit /\ MaxLimit \in Nat
  BY <1>0, LimitInRange, PagesAssumption
<1>3. Len(answer.items) <= MaxLimit
  <2>1. Len(answer.items) \in Nat /\ Len(answer.items) <= NormalizeLimit(asked)
    BY <1>0 DEF IsPage
  <2> QED
    BY <1>2, <2>1
<1>4. answer.hasMore <=> answer.next > 0
  <2>1. answer.hasMore => answer.next \in P
    BY <1>0, Zenon DEF IsPage
  <2>2. ~answer.hasMore => answer.next = 0
    BY <1>0, Zenon DEF IsPage
  <2>3. \A r \in P : r > 0
    BY <1>1, PagesAssumption DEF Keys
  <2>4. ~(0 > 0)
    OBVIOUS
  <2> QED
    BY <2>1, <2>2, <2>3, <2>4, Zenon
<1>5. answer.workers <= MaxActive
  BY DEF PagesInv, AnswerInv
<1>6. \A i \in DOMAIN answer.items : answer.items[i] <= answer.cursor
  <2>1. \A i \in DOMAIN answer.items : answer.items[i] \in P
    BY <1>0 DEF IsPage
  <2> QED
    BY <1>1, <2>1 DEF PagesInv, AnswerInv
<1>7. InOrder(answer.items)
  <2>1. Len(answer.items) \in Nat
    BY <1>0 DEF IsPage
  <2>2. \A i \in 1..(Len(answer.items) - 1) :
          i \in 1..Len(answer.items) /\ i + 1 \in 1..Len(answer.items) /\ i < i + 1
    BY <2>1
  <2> QED
    BY <1>0, <2>2 DEF IsPage, InOrder
<1> QED
  BY <1>3, <1>4, <1>5, <1>6, <1>7 DEF ValidResponse

\* Showing a page: it continues what is shown, and ends at the next cursor.
LEMMA ShowPageStep ==
  ASSUME PagesInv, ShowPage
  PROVE  PagesInv'
<1> DEFINE P == PastCursor(view.rows, after)
           n == Len(shown)
           m == Len(answer.items)
           t == shown \o answer.items
<1>0. PagesTypeOK /\ ShownInv /\ query = "read"
  BY DEF PagesInv, ShowPage
<1>1. ValidResponse(answer)
  BY <1>0, ResponsesAreValid
<1>2. /\ shown' = t /\ after' = answer.next
      /\ query' = IF answer.hasMore THEN "ask" ELSE "done"
      /\ UNCHANGED <<list, asked, db, view, answer, during, throughout>>
  BY <1>1 DEF ShowPage
<1>3. /\ answer \in Answers /\ IsPage(answer, P, NormalizeLimit(asked))
      /\ throughout \subseteq view.rows /\ view.rows \subseteq Keys
  BY <1>0, ResponseIs
<1>4. P \subseteq Nat \ {0} /\ P = {r \in view.rows : after = 0 \/ Precedes(after, r)}
  BY <1>3, PagesAssumption DEF PastCursor, Keys
<1>5. /\ answer.items \in Seq(P) /\ answer.items \in Seq(Nat) /\ shown \in Seq(Nat)
      /\ after \in Nat /\ answer.next \in Nat /\ answer.hasMore \in BOOLEAN
  BY <1>0, <1>3 DEF IsPage, PagesTypeOK, Answers
<1> HIDE DEF P
<1>6. n \in Nat /\ m \in Nat /\ t \in Seq(Nat) /\ Len(t) = n + m
  BY <1>5
<1>7. /\ \A i \in 1..n : i \in 1..(n + m) /\ t[i] = shown[i] /\ shown[i] \in Nat
      /\ \A i \in 1..m : n + i \in 1..(n + m) /\ t[n + i] = answer.items[i]
      /\ \A i \in 1..(n + m) :
           i \in 1..n \/ (i - n \in 1..m /\ t[i] = answer.items[i - n])
  <2>1. \A i \in 1..n : i \in 1..(n + m) /\ t[i] = shown[i] /\ shown[i] \in Nat
    BY <1>5, <1>6
  <2>2. \A i \in 1..(n + m) : i > n => t[i] = answer.items[i - n]
    BY <1>5, <1>6
  <2> HIDE DEF n, m, t
  <2>3. ASSUME NEW i \in 1..m
        PROVE  n + i \in 1..(n + m) /\ t[n + i] = answer.items[i]
    <3>1. n + i \in 1..(n + m) /\ n + i > n /\ (n + i) - n = i
      BY <1>6
    <3> QED
      BY <2>2, <3>1
  <2>4. ASSUME NEW i \in 1..(n + m)
        PROVE  i \in 1..n \/ (i - n \in 1..m /\ t[i] = answer.items[i - n])
    <3>1. i \in 1..n \/ (i - n \in 1..m /\ i > n)
      BY <1>6
    <3> QED
      BY <2>2, <3>1
  <2> QED
    BY <2>1, <2>3, <2>4
<1>8. \A i \in 1..m : answer.items[i] \in P
  BY <1>5
<1> HIDE DEF n, m, t
<1>9. query \in Reading
  BY <1>0 DEF Reading
<1>10. ASSUME NEW i \in 1..n, NEW r \in P
       PROVE  Precedes(shown[i], r)
  <2>1. after # 0
    BY <1>0, <1>6, <1>9 DEF ShownInv, n
  <2>2. Precedes(after, r)
    BY <1>4, <2>1
  <2>3. n \in 1..n /\ shown[n] = after
    BY <1>0, <1>6, <1>9, <2>1 DEF ShownInv, n
  <2>4. CASE i = n
    BY <2>2, <2>3, <2>4
  <2>5. CASE i # n
    <3>1. Precedes(shown[i], after)
      <4>1. i < n
        BY <1>6, <2>5
      <4> QED
        BY <1>0, <2>3, <4>1 DEF ShownInv, n
    <3>2. shown[i] \in Nat /\ r \in Nat
      BY <1>4, <1>7
    <3> QED
      BY <1>5, <2>2, <3>1, <3>2 DEF Precedes
  <2> QED
    BY <2>4, <2>5
<1>11. ASSUME NEW i \in 1..(n + m), NEW j \in 1..(n + m), i < j
       PROVE  Precedes(t[i], t[j])
  <2>1. CASE j \in 1..n
    <3>1. i \in 1..n
      BY <1>6, <1>11, <2>1
    <3> QED
      BY <1>0, <1>7, <1>11, <2>1, <3>1 DEF ShownInv, n
  <2>2. CASE ~(j \in 1..n)
    <3>1. j - n \in 1..m /\ t[j] = answer.items[j - n] /\ t[j] \in P
      BY <1>7, <1>8, <2>2
    <3>2. CASE i \in 1..n
      BY <1>7, <1>10, <3>1, <3>2
    <3>3. CASE ~(i \in 1..n)
      <4>1. i - n \in 1..m /\ t[i] = answer.items[i - n]
        BY <1>7, <3>3
      <4>2. i - n < j - n
        BY <1>6, <1>11
      <4>3. \A a, b \in 1..m : a < b => Precedes(answer.items[a], answer.items[b])
        BY <1>3 DEF IsPage, m
      <4> QED
        BY <3>1, <4>1, <4>2, <4>3
    <3> QED
      BY <3>2, <3>3
  <2> QED
    BY <2>1, <2>2
<1>12. ASSUME NEW r \in throughout
       PROVE  r \in P \/ Showing(r)
  BY <1>0, <1>3, <1>4, <1>9 DEF ShownInv
<1>13. \A r : (Showing(r) \/ (\E i \in 1..m : answer.items[i] = r))
                => \E i \in 1..(n + m) : t[i] = r
  BY <1>7 DEF Showing, n
<1>14. PagesTypeOK'
  BY <1>0, <1>2, <1>5, <1>6 DEF PagesTypeOK
<1>15. query' \notin Reading /\ query' # "read"
  BY <1>2, <1>5 DEF Reading
<1>16. AnswerInv' /\ ReadInv'
  BY <1>15 DEF AnswerInv, ReadInv, Reading
<1>17. CASE answer.hasMore
  <2>1. query' = "ask"
    BY <1>2, <1>17
  <2>2. answer.next \in P /\ answer.items # <<>> /\ answer.items[m] = answer.next
    BY <1>3, <1>17 DEF IsPage, m
  <2>3. m \in 1..m /\ t[n + m] = answer.next /\ t # <<>>
    <3>1. m # 0
      BY <1>5, <2>2 DEF m
    <3>2. m \in 1..m
      BY <1>6, <3>1
    <3> QED
      BY <1>6, <1>7, <2>2, <3>2
  <2>4. \A r \in P : (\E i \in 1..m : answer.items[i] = r) \/ Precedes(answer.next, r)
    BY <1>3, <1>17 DEF IsPage, m
  <2>5. \A r \in throughout : Precedes(answer.next, r) \/ \E i \in 1..(n + m) : t[i] = r
    BY <1>12, <1>13, <2>4
  <2>6. ShownInv'
    <3>1. answer.next # 0
      BY <1>4, <2>2
    <3> QED
      BY <1>0, <1>2, <1>6, <1>11, <2>1, <2>3, <2>5, <3>1
      DEF ShownInv, Showing, Precedes
  <2> QED
    BY <1>14, <1>16, <2>6 DEF PagesInv
<1>18. CASE ~answer.hasMore
  <2>1. query' = "done"
    BY <1>2, <1>18
  <2>2. \A r \in P : \E i \in 1..m : answer.items[i] = r
    BY <1>3, <1>18 DEF IsPage, m
  <2>3. \A r \in throughout : \E i \in 1..(n + m) : t[i] = r
    BY <1>12, <1>13, <2>2
  <2>4. ShownInv'
    BY <1>0, <1>2, <1>6, <1>11, <2>1, <2>3 DEF ShownInv, Showing, Precedes, Reading
  <2> QED
    BY <1>14, <1>16, <2>4 DEF PagesInv
<1> QED
  BY <1>17, <1>18

\* The transaction begins: its view is what is committed now.
LEMMA BeginReadStep ==
  ASSUME PagesInv, BeginRead
  PROVE  PagesInv'
<1>1. /\ query = "ask" /\ query' = "begun" /\ ValidLimit(asked) /\ view' = db
      /\ during' = {db} /\ answer' = Blank
      /\ UNCHANGED <<list, asked, db, after, shown, throughout>>
  BY DEF BeginRead
<1>2. Blank \in Answers
  BY DEF Blank, Answers
<1>3. PagesTypeOK'
  BY <1>1, <1>2 DEF PagesInv, PagesTypeOK, Reading
<1>4. AnswerInv' /\ ReadInv'
  BY <1>1 DEF PagesInv, AnswerInv, ReadInv, ShownInv, ValidLimit
<1>5. ShownInv'
  BY <1>1 DEF PagesInv, ShownInv, Showing, Precedes, Reading
<1> QED
  BY <1>3, <1>4, <1>5 DEF PagesInv

\* A query that fails shows nothing.
LEMMA FailQueryStep ==
  ASSUME PagesInv, FailQuery
  PROVE  PagesInv'
<1>1. /\ query' = "failed"
      /\ UNCHANGED <<list, asked, db, view, after, answer, during, shown, throughout>>
  BY DEF FailQuery
<1>2. PagesTypeOK'
  BY <1>1 DEF PagesInv, PagesTypeOK
<1>3. AnswerInv' /\ ReadInv'
  BY <1>1 DEF AnswerInv, ReadInv, Reading
<1>4. ShownInv'
  BY <1>1 DEF PagesInv, ShownInv, Showing, Precedes, Reading
<1> QED
  BY <1>2, <1>3, <1>4 DEF PagesInv

\* The queries before the page.
LEMMA ReadQueryStep ==
  ASSUME PagesInv, CheckCursor \/ ReadCounts \/ ReadWorkers \/ ReadEventCursor
  PROVE  PagesInv'
<1>0. /\ PagesTypeOK /\ AnswerInv /\ answer \in Answers /\ view \in DbStates
      /\ view.rows \subseteq Keys /\ view.workers \in Nat
  BY DEF PagesInv, PagesTypeOK, DbStates
<1>1. CASE CheckCursor
  <2>1. /\ query \in Reading /\ query' = "scoped" /\ answer' = answer
        /\ UNCHANGED <<list, asked, db, view, after, during, shown, throughout>>
    BY <1>1 DEF CheckCursor, Proceed, Reading
  <2> QED
    BY <1>0, <2>1, ProceedStep
<1>2. CASE ReadCounts
  <2> DEFINE a == [answer EXCEPT !.total = Cardinality(view.rows)]
  <2>1. /\ query \in Reading /\ query' = "counted" /\ answer' = a
        /\ UNCHANGED <<list, asked, db, view, after, during, shown, throughout>>
    BY <1>2 DEF ReadCounts, Proceed, Visible, Reading
  <2>2. Cardinality(view.rows) \in Nat
    BY <1>0, RowsAreFinite
  <2>3. a \in Answers /\ a.total = Cardinality(view.rows)
    BY <1>0, <2>2 DEF Answers
  <2> HIDE DEF a
  <2> QED
    BY <2>1, <2>3, ProceedStep
<1>3. CASE ReadWorkers
  <2> DEFINE a == [answer EXCEPT !.workers = view.workers]
  <2>1. /\ query \in Reading /\ query = "counted" /\ query' = "workers" /\ answer' = a
        /\ view.workers <= MaxActive
        /\ UNCHANGED <<list, asked, db, view, after, during, shown, throughout>>
    BY <1>3 DEF ReadWorkers, Proceed, Visible, Reading
  <2>2. a \in Answers /\ a.total = answer.total /\ a.workers = view.workers
    BY <1>0 DEF Answers
  <2>3. a.total = Cardinality(view.rows)
    BY <1>0, <2>1, <2>2 DEF AnswerInv
  <2> HIDE DEF a
  <2> QED
    BY <2>1, <2>2, <2>3, ProceedStep
<1>4. CASE ReadEventCursor
  <2> DEFINE c == IF view.rows = {} THEN 0
                  ELSE CHOOSE m \in view.rows : \A r \in view.rows : r <= m
             a == [answer EXCEPT !.cursor = c]
  <2>1. /\ query \in Reading /\ query = "workers" /\ query' = "placed" /\ answer' = a
        /\ UNCHANGED <<list, asked, db, view, after, during, shown, throughout>>
    BY <1>4 DEF ReadEventCursor, Proceed, Visible, Reading
  <2>2. c \in Nat /\ \A r \in view.rows : r <= c
    <3>1. CASE view.rows = {}
      BY <3>1
    <3>2. CASE view.rows # {}
      <4>1. \E m \in view.rows : \A r \in view.rows : r <= m
        BY <1>0, <3>2, GreatestRow
      <4>2. c \in view.rows /\ \A r \in view.rows : r <= c
        BY <3>2, <4>1
      <4> HIDE DEF c
      <4> QED
        BY <1>0, <4>2, PagesAssumption DEF Keys
    <3> QED
      BY <3>1, <3>2
  <2> HIDE DEF c
  <2>3. /\ a \in Answers /\ a.total = answer.total /\ a.workers = answer.workers
        /\ a.cursor = c
    BY <1>0, <2>2 DEF Answers
  <2>4. /\ a.total = Cardinality(view.rows) /\ a.workers = view.workers
        /\ view.workers <= MaxActive
    BY <1>0, <2>1, <2>3 DEF AnswerInv
  <2> HIDE DEF a
  <2> QED
    BY <2>1, <2>2, <2>3, <2>4, ProceedStep
<1> QED
  BY <1>1, <1>2, <1>3, <1>4

\* The writers.
LEMMA WriterStep ==
  ASSUME PagesInv,
         \/ \E r \in 1..MaxRowId : Insert(r) \/ DeleteRow(r)
         \/ \E n \in 0..(MaxActive + 1) : Workers(n)
  PROVE  PagesInv'
<1>0. db \in DbStates /\ MaxActive \in Nat
  BY PagesAssumption DEF PagesInv, PagesTypeOK
<1>1. ASSUME NEW r \in 1..MaxRowId, Insert(r)
      PROVE  PagesInv'
  <2>1. [db EXCEPT !.rows = @ \cup {r}] \in DbStates
    BY <1>0 DEF DbStates, Keys
  <2> QED
    BY <1>1, <2>1, CommitStep DEF Insert
<1>2. ASSUME NEW r \in 1..MaxRowId, DeleteRow(r)
      PROVE  PagesInv'
  <2>1. [db EXCEPT !.rows = @ \ {r}] \in DbStates
    BY <1>0 DEF DbStates, Keys
  <2> QED
    BY <1>2, <2>1, CommitStep DEF DeleteRow
<1>3. ASSUME NEW n \in 0..(MaxActive + 1), Workers(n)
      PROVE  PagesInv'
  <2>1. [db EXCEPT !.workers = n] \in DbStates
    BY <1>0 DEF DbStates
  <2> QED
    BY <1>3, <2>1, CommitStep DEF Workers
<1> QED
  BY <1>1, <1>2, <1>3

\* Each response is one committed instant and passes the client's validation, and a walk
\* to the end has shown every row that was there throughout, once and in order, for
\* every number of rows and every page size.
THEOREM WalksAreExact == PagesSpec => []PagesAreExact
<1>1. PagesInit => PagesInv
  <2> SUFFICES ASSUME PagesInit
               PROVE  PagesInv
    OBVIOUS
  <2>1. PICK n \in 0..MaxRowId : \E R \in SUBSET (1..n) : db = [rows |-> R, workers |-> 0]
    BY DEF PagesInit
  <2>2. PICK R \in SUBSET (1..n) : db = [rows |-> R, workers |-> 0]
    BY <2>1
  <2>3. R \subseteq Keys
    BY <2>2, PagesAssumption DEF Keys
  <2>4. db \in DbStates
    BY <2>2, <2>3 DEF DbStates
  <2>5. Blank \in Answers
    BY DEF Blank, Answers
  <2>6. PagesTypeOK
    BY <2>4, <2>5 DEF PagesInit, PagesTypeOK
  <2>7. AnswerInv /\ ReadInv /\ ShownInv
    BY DEF PagesInit, AnswerInv, ReadInv, ShownInv, Reading
  <2> QED
    BY <2>6, <2>7 DEF PagesInv
<1>2. PagesInv /\ [PagesNext]_pageVars => PagesInv'
  <2> SUFFICES ASSUME PagesInv, [PagesNext]_pageVars
               PROVE  PagesInv'
    OBVIOUS
  <2>1. CASE \/ \E r \in 1..MaxRowId : Insert(r) \/ DeleteRow(r)
             \/ \E n \in 0..(MaxActive + 1) : Workers(n)
    BY <2>1, WriterStep
  <2>2. CASE BeginRead
    BY <2>2, BeginReadStep
  <2>3. CASE RefuseLimit \/ RefuseCursor \/ RefuseWorkers
    BY <2>3, FailQueryStep DEF RefuseLimit, RefuseCursor, RefuseWorkers
  <2>4. CASE CheckCursor \/ ReadCounts \/ ReadWorkers \/ ReadEventCursor
    BY <2>4, ReadQueryStep
  <2>5. CASE ReadPage
    BY <2>5, ReadPageStep
  <2>6. CASE ShowPage
    BY <2>6, ShowPageStep
  <2>7. CASE UNCHANGED pageVars
    <3>1. UNCHANGED <<list, asked, db, view, query, after, answer, during, shown,
                      throughout>>
      BY <2>7 DEF pageVars
    <3>2. PagesTypeOK' /\ AnswerInv'
      BY <3>1 DEF PagesInv, PagesTypeOK, AnswerInv, ValidLimit
    <3>3. ReadInv'
      BY <3>1, PageUnchanged DEF PagesInv, ReadInv
    <3>4. ShownInv'
      BY <3>1 DEF PagesInv, ShownInv, Showing, Precedes
    <3> QED
      BY <3>2, <3>3, <3>4 DEF PagesInv
  <2> QED
    BY <2>1, <2>2, <2>3, <2>4, <2>5, <2>6, <2>7 DEF PagesNext, ReadStep
<1>3. PagesInv => PagesAreExact
  <2> SUFFICES ASSUME PagesInv
               PROVE  PagesAreExact
    OBVIOUS
  <2>1. AnInstant
    <3> SUFFICES ASSUME query = "read"
                 PROVE  AnInstant
      BY DEF AnInstant
    <3>1. view \in during /\ answer.total = Cardinality(view.rows)
          /\ answer.workers = view.workers
      BY DEF PagesInv, AnswerInv, Reading
    <3> QED
      BY <3>1, Zenon DEF AnInstant, PagesInv, ReadInv
  <2>2. query = "read" => ValidResponse(answer)
    BY ResponsesAreValid
  <2>3. shown \in Seq(Nat) /\ Len(shown) \in Nat
    BY DEF PagesInv, PagesTypeOK
  <2>4. InOrder(shown)
    <3>1. \A i \in 1..(Len(shown) - 1) :
            i \in 1..Len(shown) /\ i + 1 \in 1..Len(shown) /\ i < i + 1
      BY <2>3
    <3> QED
      BY <3>1 DEF PagesInv, ShownInv, InOrder
  <2>5. query = "done" => throughout \subseteq ToSet(shown)
    <3>1. DOMAIN shown = 1..Len(shown)
      BY <2>3
    <3> QED
      BY <3>1 DEF PagesInv, ShownInv, Showing, ToSet
  <2> QED
    BY <2>1, <2>2, <2>4, <2>5 DEF PagesAreExact
<1> QED
  BY <1>1, <1>2, <1>3, PTL DEF PagesSpec
=============================================================================
