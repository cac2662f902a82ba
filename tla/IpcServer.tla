----------------------------- MODULE IpcServer -----------------------------
(* The supervisor's local socket (internal/ipc/server.go): the accept loop,  *)
(* a goroutine per connection that reads one request and answers it, attach  *)
(* streams that tail the event log (HandleAttach in supervisor.go), the      *)
(* heartbeat, and Stop, which has to bring all of them to an end.            *)
(*                                                                           *)
(* Reads and writes on a connection fail once either side has closed it.     *)
(* Deadlines are actions that may fire as long as the wait they bound.       *)
EXTENDS Integers, Sequences, FiniteSets

CONSTANTS
  Conn,          \* client connections
  RequestsOf,    \* what each client may send: records of cmd and bad
  Speaks,        \* the protocol versions a running supervisor may be built with
  MaxEvents,     \* bound on the project's event log
  AttachBatch,   \* attachTailBatch
  NoReq, NoConn

\* A connection is neither NULL nor a state of the accept loop.
ASSUME IpcAssumption ==
  /\ Conn \cap {NoConn, "accept", "backoff", "done"} = {}
  /\ Speaks \subseteq Nat
  /\ {MaxEvents, AttachBatch} \subseteq Nat

VARIABLES
  speaks,      \* ProtoVersion of this build
  at,          \* where each connection's goroutine is
  tracked,     \* conns
  shut,        \* connections the server has closed
  req,         \* the request a client sends
  left,        \* connections their client has closed
  accept,      \* the accept loop: a connection it holds, or its state
  listener,    \* "open", "closed"
  beat,        \* the heartbeat loop runs
  stop,        \* the phase of Stop, "run" before it
  stopConn,
  cause,       \* the connection whose HandleStop ended the run loop
  answered,    \* connections whose response was written
  touched,     \* connections whose ensure ran the path that changes the project
  log,         \* number of events in the log
  sent         \* the events an attach stream has emitted

connVars   == <<at, tracked, shut>>
clientVars == <<speaks, req, left>>
loopVars   == <<accept, listener, beat, stop>>
stopVars   == <<stopConn, cause>>
effectVars == <<answered, touched, log, sent>>
ipcVars    == <<connVars, clientVars, loopVars, stopVars, effectVars>>

Stopping == stop # "run"     \* stopCh is closed

\* What wg counts: handleConn from the moment acceptLoop starts it.
InFlight == {c \in Conn : at[c] \notin {"absent", "queued", "done"}}

Broken == left \cup shut
-----------------------------------------------------------------------------
(* Protocol versions (protocol.go, client_drive.go) *)

DriveProtoVersion == 2
QueryProtoVersion == 3
ResolveOnlyProtoVersion == 4
HookProtoVersion == 5

\* Mutant: an ensure and a resolve-only one are sent with the same version.
ClientVersionFlat(cmd) ==
  CASE cmd \in {"status", "stop"}      -> 0
    [] cmd \in {"ensure", "resolve"}   -> DriveProtoVersion
    [] cmd \in {"observe", "attach"}   -> QueryProtoVersion
    [] cmd = "hook"                    -> HookProtoVersion

\* The version a client stamps on a request.
ClientVersion(cmd) ==
  CASE cmd \in {"status", "stop"}      -> 0
    [] cmd = "ensure"                  -> DriveProtoVersion
    [] cmd = "resolve"                 -> ResolveOnlyProtoVersion
    [] cmd \in {"observe", "attach"}   -> QueryProtoVersion
    [] cmd = "hook"                    -> HookProtoVersion

\* Where the goroutine goes with the request it has read.  A version above the
\* build's, and a bad request (malformed, unknown, arguments that do not decode,
\* a version below its command's floor) are answered at once.
Route(r) ==
  IF r.bad \/ ClientVersion(r.cmd) > speaks THEN "replying"
  ELSE IF r.cmd = "stop" THEN "marking"
  ELSE IF r.cmd = "attach" THEN "streaming"
  ELSE "serving"
-----------------------------------------------------------------------------
(* Clients *)

\* A client connects and sends one request, or never completes it, and waits.
Dial(c) ==
  /\ at[c] = "absent" /\ listener = "open"
  /\ at' = [at EXCEPT ![c] = "queued"]
  /\ \E r \in RequestsOf[c] \cup {NoReq} : req' = [req EXCEPT ![c] = r]
  /\ UNCHANGED <<speaks, left, tracked, shut, loopVars, stopVars, effectVars>>

\* A client that gives up, or whose process ends.
Leave(c) ==
  /\ at[c] \notin {"absent", "done"} /\ c \notin left
  /\ left' = left \cup {c}
  /\ UNCHANGED <<speaks, req, connVars, loopVars, stopVars, effectVars>>
-----------------------------------------------------------------------------
(* acceptLoop *)

AcceptConn ==
  /\ accept = "accept" /\ listener = "open"
  /\ \E c \in Conn : at[c] = "queued" /\ accept' = c
  /\ UNCHANGED <<listener, beat, stop, connVars, clientVars, stopVars, effectVars>>

\* stopCh is looked at between Accept and the go statement.
Spawn ==
  /\ accept \in Conn
  /\ IF Stopping
     THEN /\ at' = [at EXCEPT ![accept] = "done"]
          /\ shut' = shut \cup {accept}
          /\ accept' = "done"
     ELSE /\ at' = [at EXCEPT ![accept] = "spawned"]
          /\ accept' = "accept"
          /\ UNCHANGED shut
  /\ UNCHANGED <<tracked, listener, beat, stop, clientVars, stopVars, effectVars>>

\* Accept fails: the loop goes on after acceptRetryDelay unless Stop is waiting.
AcceptFails ==
  /\ accept = "accept" /\ listener = "open"
  /\ accept' = IF Stopping THEN "done" ELSE "backoff"
  /\ UNCHANGED <<listener, beat, stop, connVars, clientVars, stopVars, effectVars>>

\* The delay ends, or Accept finds its listener closed.
AcceptResumes ==
  /\ \/ accept = "backoff" /\ accept' = IF Stopping THEN "done" ELSE "accept"
     \/ accept = "accept" /\ listener = "closed" /\ accept' = "done"
  /\ UNCHANGED <<listener, beat, stop, connVars, clientVars, stopVars, effectVars>>
-----------------------------------------------------------------------------
(* handleConn *)

\* Mutant: a connection is tracked without a look at stopCh.
TrackConnBlindly(c) ==
  /\ tracked' = tracked \cup {c}
  /\ at' = [at EXCEPT ![c] = "reading"]
  /\ UNCHANGED shut

\* trackConn, under connsMu: refused once stopCh is closed.
TrackConn(c) ==
  IF Stopping
  THEN /\ at' = [at EXCEPT ![c] = "done"]
       /\ shut' = shut \cup {c}
       /\ UNCHANGED tracked
  ELSE /\ at' = [at EXCEPT ![c] = "reading"]
       /\ tracked' = tracked \cup {c}
       /\ UNCHANGED shut

Begin(c) ==
  /\ at[c] = "spawned"
  /\ TrackConn(c)
  /\ UNCHANGED <<clientVars, loopVars, stopVars, effectVars>>

\* The deferred untrackConn and Close.
Finish(c) ==
  /\ at' = [at EXCEPT ![c] = "done"]
  /\ tracked' = tracked \ {c}
  /\ shut' = shut \cup {c}

\* The request line within requestReadTimeout, or no answer at all.
ReadRequest(c) ==
  /\ at[c] = "reading"
  /\ \/ /\ req[c] # NoReq /\ c \notin Broken
        /\ at' = [at EXCEPT ![c] = Route(req[c])]
        /\ UNCHANGED <<tracked, shut>>
     \/ (req[c] = NoReq \/ c \in Broken) /\ Finish(c)
  /\ UNCHANGED <<clientVars, loopVars, stopVars, effectVars>>

\* Mutant: the connection of a stop request is not marked.
MarkNothing(c) == UNCHANGED stopConn

MarkStopConn(c) == stopConn' = c

Mark(c) ==
  /\ at[c] = "marking"
  /\ MarkStopConn(c)
  /\ at' = [at EXCEPT ![c] = "stopping"]
  /\ UNCHANGED <<cause, tracked, shut, clientVars, loopVars, effectVars>>

\* HandleStop closes the supervisor's stopCh, once.
HandleStop(c) ==
  /\ at[c] = "stopping"
  /\ at' = [at EXCEPT ![c] = "replying"]
  /\ cause' = IF cause = NoConn /\ ~Stopping THEN c ELSE cause
  /\ UNCHANGED <<stopConn, tracked, shut, clientVars, loopVars, effectVars>>

\* The other handlers; only what an ensure leaves behind is kept.  A build from
\* before resolve-only ignores the flag and registers the project.
Handle(c) ==
  /\ at[c] = "serving"
  /\ at' = [at EXCEPT ![c] = "replying"]
  /\ touched' = IF \/ req[c].cmd = "ensure"
                   \/ req[c].cmd = "resolve" /\ speaks < ResolveOnlyProtoVersion
                THEN touched \cup {c} ELSE touched
  /\ UNCHANGED <<answered, log, sent, tracked, shut, clientVars, loopVars, stopVars>>

\* writeResponse under responseWriteTimeout, then the deferred calls.
WriteResponse(c) ==
  /\ at[c] = "replying"
  /\ answered' = IF c \in Broken THEN answered ELSE answered \cup {c}
  /\ Finish(c)
  /\ UNCHANGED <<touched, log, sent, clientVars, loopVars, stopVars>>
-----------------------------------------------------------------------------
(* HandleAttach *)

\* The log grows; only growth that a stream can see matters.
AppendEvent ==
  /\ log < MaxEvents /\ \E c \in Conn : at[c] = "streaming"
  /\ log' = log + 1
  /\ UNCHANGED <<answered, touched, sent, connVars, clientVars, loopVars, stopVars>>

AttachCursor(c) == IF sent[c] = <<>> THEN 0 ELSE sent[c][Len(sent[c])]

\* The events of one EventsAfter, at most a batch of them.
EventsAfter(cursor) ==
  [i \in 1..(IF log - cursor < AttachBatch THEN log - cursor ELSE AttachBatch)
     |-> cursor + i]

\* Mutant: a round that finds more than a batch goes on at the end of the log.
NextBatchFromEnd(c) == sent' = [sent EXCEPT ![c] = Append(@, log)]

NextBatch(c) == sent' = [sent EXCEPT ![c] = @ \o EventsAfter(AttachCursor(c))]

\* One round of the tail: a batch is emitted, or an emit fails and ends it.
Emit(c) ==
  /\ at[c] = "streaming" /\ AttachCursor(c) < log
  /\ IF c \in Broken
     THEN at' = [at EXCEPT ![c] = "replying"] /\ UNCHANGED sent
     ELSE NextBatch(c) /\ UNCHANGED at
  /\ UNCHANGED <<answered, touched, log, tracked, shut, clientVars, loopVars, stopVars>>

\* Mutant: nothing reads the connection of an idle stream.
AttachCancelledByStop(c) == Stopping

\* attachCtx: stopCh, or the goroutine that reads the connection sees it close.
AttachCancelled(c) == Stopping \/ c \in Broken

\* The tail ends without an error, or with one of the store's.
EndAttach(c) ==
  /\ at[c] = "streaming" /\ AttachCancelled(c)
  /\ at' = [at EXCEPT ![c] = "replying"]
  /\ UNCHANGED <<tracked, shut, clientVars, loopVars, stopVars, effectVars>>
-----------------------------------------------------------------------------
(* heartbeatLoop and Stop *)

StopBeat ==
  /\ beat /\ Stopping
  /\ beat' = FALSE
  /\ UNCHANGED <<accept, listener, stop, connVars, clientVars, stopVars, effectVars>>

\* The run loop has ended, by a stop request or by a signal: stopCh closes and
\* Stop dials its own endpoint.
BeginStop ==
  /\ stop = "run"
  /\ stop' = "dialled"
  /\ UNCHANGED <<accept, listener, beat, connVars, clientVars, stopVars, effectVars>>

\* The dial completes a parked Accept; the socket may be gone and the dial fail.
Awaken ==
  /\ stop = "dialled" /\ accept = "accept"
  /\ accept' = "done"
  /\ UNCHANGED <<listener, beat, stop, connVars, clientVars, stopVars, effectVars>>

\* Mutant: Stop waits for acceptDone without a bound.
RetireUnbounded == accept = "done" /\ listener' = "closed" /\ stop' = "closing"

\* acceptDone; or acceptRetireTimeout, and the listener is left to a goroutine.
RetireAcceptLoop ==
  \/ accept = "done" /\ listener' = "closed" /\ stop' = "closing"
  \/ listener' = listener /\ stop' = "async"

Retire ==
  /\ stop = "dialled"
  /\ RetireAcceptLoop
  /\ UNCHANGED <<accept, beat, connVars, clientVars, stopVars, effectVars>>

CloseListenerAsync ==
  /\ listener = "open" /\ stop \notin {"run", "dialled"}
  /\ listener' = "closed"
  /\ UNCHANGED <<accept, beat, stop, connVars, clientVars, stopVars, effectVars>>

\* Every tracked connection, except the one marked for its stop response.
CloseConns ==
  /\ stop \in {"closing", "async"}
  /\ shut' = shut \cup (tracked \ {stopConn})
  /\ stop' = "waiting"
  /\ UNCHANGED <<at, tracked, accept, listener, beat, clientVars, stopVars, effectVars>>

\* wg.Wait.
StopReturned ==
  /\ stop = "waiting"
  /\ accept = "done" /\ ~beat /\ InFlight = {}
  /\ stop' = "stopped"
  /\ UNCHANGED <<accept, listener, beat, connVars, clientVars, stopVars, effectVars>>
-----------------------------------------------------------------------------
IpcInit ==
  /\ speaks \in Speaks
  /\ at = [c \in Conn |-> "absent"]
  /\ req = [c \in Conn |-> NoReq]
  /\ left = {} /\ shut = {} /\ tracked = {} /\ answered = {} /\ touched = {}
  /\ stopConn = NoConn /\ cause = NoConn
  /\ accept = "accept" /\ listener = "open" /\ beat = TRUE /\ stop = "run"
  /\ log = 0
  /\ sent = [c \in Conn |-> <<>>]

\* What handleConn's goroutine does by itself.
Serve(c) ==
  \/ Begin(c) \/ ReadRequest(c) \/ Mark(c) \/ HandleStop(c) \/ Handle(c)
  \/ Emit(c) \/ EndAttach(c) \/ WriteResponse(c)

\* What the other goroutines do by themselves, and Stop.
AcceptLoop == AcceptConn \/ Spawn \/ AcceptResumes
StopSteps  == Retire \/ CloseConns \/ StopReturned

IpcNext ==
  \/ \E c \in Conn : Dial(c) \/ Leave(c) \/ Serve(c)
  \/ AcceptLoop \/ AcceptFails \/ StopBeat \/ AppendEvent
  \/ BeginStop \/ Awaken \/ StopSteps \/ CloseListenerAsync

\* Every goroutine runs; nothing is assumed of clients, of the dial, of events.
IpcFairness ==
  /\ WF_ipcVars(AcceptLoop) /\ WF_ipcVars(StopBeat)
  /\ WF_ipcVars(StopSteps) /\ WF_ipcVars(CloseListenerAsync)
  /\ WF_ipcVars(BeginStop /\ cause # NoConn)
  /\ \A c \in Conn : WF_ipcVars(Serve(c))

IpcSpec == IpcInit /\ [][IpcNext]_ipcVars /\ IpcFairness
-----------------------------------------------------------------------------
\* "otherwise wg.Wait would block until each stuck conn hit its own deadline":
\* once closeConns has run no handler waits for a client, the connections that
\* were accepted while it ran included.
DrainsPromptly ==
  stop = "waiting" => \A c \in Conn : at[c] = "reading" => c \in Broken

\* A stop request that no other one overtakes is answered, if its client waits,
\* although it is the one that takes the server down.
StopIsAnswered ==
  \A c \in Conn : cause = c /\ at[c] = "done" /\ c \notin left /\ stopConn \in {c, NoConn}
                  => c \in answered

\* A stream has every event of the log, in order and once, up to its cursor, across
\* batches.
StreamsHaveNoGaps ==
  \A c \in Conn : sent[c] = [i \in 1..Len(sent[c]) |-> i]

\* "ResolveOnly promises it will not" touch the project: a supervisor of any
\* earlier build refuses the request rather than run the path that does.
ResolveNeverTouches == \A c \in touched : req[c].cmd # "resolve"

\* Every client gets what it was promised, while others come and go, events are
\* appended and the server stops.
ClientsAreServed ==
  DrainsPromptly /\ StopIsAnswered /\ StreamsHaveNoGaps /\ ResolveNeverTouches

\* The server comes to rest: Stop returns, and a stop request leads to it, whatever
\* the clients do, with streams open, requests half written and a dial that fails;
\* and a stream ends when its client leaves although nothing is written to it.
ServerComesToRest ==
  /\ cause # NoConn \/ Stopping ~> stop = "stopped"
  /\ \A c \in Conn : at[c] = "streaming" /\ c \in left ~> at[c] = "done"
=============================================================================
