------------------------------ MODULE TuiLive -------------------------------
(* The terminal UI (internal/tui/model.go): one Update loop fed by key       *)
(* presses, a refresh tick, the answers of at most one snapshot query in     *)
(* flight, and the frames of one event subscription that lives as long as    *)
(* the session and is started again after it ends.  What a view shows is     *)
(* thus put together from a poll that may be older than the frames already   *)
(* shown and from frames that may be older than the poll.                    *)
(*                                                                           *)
(* A row of the task list is its task's plan; row statuses, labels and the   *)
(* log pane are left out.  The supervisor's side is the event log, the tasks *)
(* done, and a stream that sends the log in order from a cursor (IpcServer). *)
EXTENDS Integers, Sequences, FiniteSets

CONSTANTS
  UiTask,         \* tasks
  UiPlanOf,       \* the plan of each
  MaxFeed,        \* bound on events
  MaxSubs,        \* bound on subscriptions
  MaxPollFaults,  \* bound on polls that fail
  FrameBuf        \* capacity of the frames channel

UiPlan == {UiPlanOf[t] : t \in UiTask}
NoUiPlan == "no plan"
NoUiTask == "no task"

VARIABLES
  feed,          \* the event log: [task, kind]
  finished,      \* tasks that are done
  lvl, selectedPlan, selectedTask, tasksOf,
  progress,      \* the Done counter shown for each plan, -1 while unknown
  liveDoneTasks,
  fetching, poll,         \* the flag, and the query in flight
  attached, subs,         \* attachFrames # nil; every subscription made
  lastEventID, attachSeeded,
  handled,       \* ids of the frames handled, in order
  quitting, pollFaults

serverVars == <<feed, finished>>
viewVars == <<lvl, selectedPlan, selectedTask>>
shownVars == <<tasksOf, progress, liveDoneTasks>>
pollVars == <<fetching, poll>>
streamVars == <<attached, subs, lastEventID, attachSeeded, handled>>
tuiVars == <<serverVars, viewVars, shownVars, pollVars, streamVars, quitting,
             pollFaults>>
-----------------------------------------------------------------------------
(* The supervisor *)

DoneOf(p, done) == Cardinality({t \in done : UiPlanOf[t] = p})
TotalOf(p) == DoneOf(p, UiTask)

\* MarkDone writes the status and worker.completed together; the verifier adds
\* worker.verified_done.
Complete(t) ==
  /\ ~quitting /\ t \notin finished /\ Len(feed) < MaxFeed
  /\ finished' = finished \cup {t}
  /\ feed' = Append(feed, [task |-> t, kind |-> "worker.completed"])
  /\ UNCHANGED <<viewVars, shownVars, pollVars, streamVars, quitting, pollFaults>>

Verified(t) ==
  /\ ~quitting /\ t \in finished /\ Len(feed) < MaxFeed
  /\ ~\E i \in DOMAIN feed : feed[i] = [task |-> t, kind |-> "worker.verified_done"]
  /\ feed' = Append(feed, [task |-> t, kind |-> "worker.verified_done"])
  /\ UNCHANGED <<finished, viewVars, shownVars, pollVars, streamVars, quitting,
                 pollFaults>>
-----------------------------------------------------------------------------
(* Polling *)

NoPoll == [at |-> "none"]

\* startFetch and fetchCmd: the query is made of the view as it is now.
StartFetch(l, p) ==
  /\ fetching' = TRUE
  /\ poll' = [at |-> "asked", lvl |-> l, plan |-> p]

\* refreshMsg
Refresh ==
  /\ ~quitting /\ ~fetching
  /\ StartFetch(lvl, selectedPlan)
  /\ UNCHANGED <<serverVars, viewVars, shownVars, streamVars, quitting, pollFaults>>

\* The snapshot transaction: counters and event cursor of one moment.
ReadSnapshot ==
  /\ poll.at = "asked" /\ ~quitting
  /\ poll' = [at |-> "read", lvl |-> poll.lvl, plan |-> poll.plan,
              done |-> finished, cursor |-> Len(feed)]
  /\ UNCHANGED <<serverVars, viewVars, shownVars, fetching, streamVars, quitting,
                 pollFaults>>

PolledPlans == IF poll.lvl = "macro" THEN UiPlan ELSE {poll.plan}

\* handleFetched: the merge of progress, which never lets a counter go down.
MergeProgress ==
  [p \in UiPlan |->
     IF p \in PolledPlans /\ DoneOf(p, poll.done) > progress[p]
     THEN DoneOf(p, poll.done) ELSE progress[p]]

Subscribe(from) ==
  /\ Len(subs) < MaxSubs
  /\ attached' = TRUE
  /\ subs' = Append(subs, [pos |-> from, buf |-> <<>>, open |-> TRUE,
                           reader |-> "armed", frame |-> 0])
  /\ lastEventID' = from /\ attachSeeded' = TRUE

\* Mutant: every subscription starts at the poll's cursor.
EnsureAttachSeeding ==
  IF attached THEN UNCHANGED <<attached, subs, lastEventID, attachSeeded>>
  ELSE Subscribe(poll.cursor)

\* ensureAttach: the first starts at the poll's cursor, a later one goes on.
EnsureAttach ==
  IF attached THEN UNCHANGED <<attached, subs, lastEventID, attachSeeded>>
  ELSE Subscribe(IF attachSeeded THEN lastEventID ELSE poll.cursor)

Fetched ==
  /\ poll.at = "read" /\ ~quitting
  /\ fetching' = FALSE /\ poll' = NoPoll
  /\ progress' = MergeProgress /\ liveDoneTasks' = {}
  /\ tasksOf' = IF poll.lvl = "meso" THEN poll.plan ELSE tasksOf
  /\ EnsureAttach
  /\ UNCHANGED <<serverVars, viewVars, handled, quitting, pollFaults>>

\* Mutant: the error path returns before the flag is reset.
FetchFailsSilently ==
  /\ poll.at # "none" /\ ~quitting /\ pollFaults < MaxPollFaults
  /\ pollFaults' = pollFaults + 1
  /\ poll' = NoPoll
  /\ UNCHANGED <<serverVars, viewVars, shownVars, fetching, streamVars, quitting>>

\* The query fails or exceeds fetchTimeout.
FetchFails ==
  /\ poll.at # "none" /\ ~quitting /\ pollFaults < MaxPollFaults
  /\ pollFaults' = pollFaults + 1
  /\ fetching' = FALSE /\ poll' = NoPoll
  /\ UNCHANGED <<serverVars, viewVars, shownVars, streamVars, quitting>>
-----------------------------------------------------------------------------
(* The subscription: startAttach's goroutine and the command that reads it *)

\* The stream delivers the next event into the channel, which may be full.
Send(e) ==
  /\ ~quitting /\ subs[e].open /\ subs[e].pos < Len(feed) /\ Len(subs[e].buf) < FrameBuf
  /\ subs' = [subs EXCEPT ![e].pos = @ + 1, ![e].buf = Append(@, subs[e].pos + 1)]
  /\ UNCHANGED <<serverVars, viewVars, shownVars, pollVars, attached, lastEventID,
                 attachSeeded, handled, quitting, pollFaults>>

\* The supervisor restarts or the connection breaks; frames in the channel stay.
Break(e) ==
  /\ ~quitting /\ subs[e].open /\ Len(subs) < MaxSubs
  /\ subs' = [subs EXCEPT ![e].open = FALSE]
  /\ UNCHANGED <<serverVars, viewVars, shownVars, pollVars, attached, lastEventID,
                 attachSeeded, handled, quitting, pollFaults>>

\* attachCmd: one frame, or the end once the channel is closed and empty.
Read(e) ==
  /\ ~quitting /\ subs[e].reader = "armed"
  /\ \/ /\ subs[e].buf # <<>>
        /\ subs' = [subs EXCEPT ![e].reader = "frame", ![e].frame = Head(subs[e].buf),
                                ![e].buf = Tail(@)]
     \/ /\ subs[e].buf = <<>> /\ ~subs[e].open
        /\ subs' = [subs EXCEPT ![e].reader = "end"]
  /\ UNCHANGED <<serverVars, viewVars, shownVars, pollVars, attached, lastEventID,
                 attachSeeded, handled, quitting, pollFaults>>

\* bumpLiveProgress; both kinds of event count as a completion.
BumpLiveProgress(t) ==
  LET p == UiPlanOf[t] IN
  IF t \in liveDoneTasks \/ progress[p] < 0
  THEN UNCHANGED <<liveDoneTasks, progress>>
  ELSE /\ liveDoneTasks' = liveDoneTasks \cup {t}
       /\ progress' = [progress EXCEPT ![p] = IF @ < TotalOf(p) THEN @ + 1 ELSE @]

\* liveFrameMsg, and the re-arming of the command; a stale epoch is dropped.
LiveFrame(e) ==
  /\ subs[e].reader = "frame" /\ ~quitting
  /\ IF e # Len(subs)
     THEN /\ subs' = [subs EXCEPT ![e].reader = "none"]
          /\ UNCHANGED <<lastEventID, handled, liveDoneTasks, progress>>
     ELSE /\ lastEventID' = IF subs[e].frame > lastEventID THEN subs[e].frame
                            ELSE lastEventID
          /\ handled' = Append(handled, subs[e].frame)
          /\ BumpLiveProgress(feed[subs[e].frame].task)
          /\ subs' = [subs EXCEPT ![e].reader = IF attached THEN "armed" ELSE "none"]
  /\ UNCHANGED <<serverVars, viewVars, tasksOf, pollVars, attached, attachSeeded,
                 quitting, pollFaults>>

\* Mutant: the end of the stream does not clear the flag.
AttachEndedUnnoticed(e) ==
  /\ subs[e].reader = "end" /\ ~quitting
  /\ subs' = [subs EXCEPT ![e].reader = "none"]
  /\ UNCHANGED <<serverVars, viewVars, shownVars, pollVars, attached, lastEventID,
                 attachSeeded, handled, quitting, pollFaults>>

\* attachEndedMsg
AttachEnded(e) ==
  /\ subs[e].reader = "end" /\ ~quitting
  /\ subs' = [subs EXCEPT ![e].reader = "none"]
  /\ attached' = (attached /\ e # Len(subs))
  /\ UNCHANGED <<serverVars, viewVars, shownVars, pollVars, lastEventID,
                 attachSeeded, handled, quitting, pollFaults>>
-----------------------------------------------------------------------------
(* Keys *)

\* drillFetch starts no second query.
DrillFetch(l, p) == IF fetching THEN UNCHANGED pollVars ELSE StartFetch(l, p)

Drill(l, p, t) ==
  /\ lvl' = l /\ selectedPlan' = p /\ selectedTask' = t
  /\ DrillFetch(l, p)
  /\ UNCHANGED <<serverVars, shownVars, streamVars, quitting, pollFaults>>

\* drillIn opens the row under the cursor, drillOut goes back; a selection is not
\* read above the level it was made for.
DrillIn ==
  /\ ~quitting
  /\ \/ /\ lvl = "macro"
        /\ \E p \in UiPlan : progress[p] >= 0 /\ Drill("meso", p, NoUiTask)
     \/ /\ lvl = "meso"
        /\ \E t \in UiTask : UiPlanOf[t] = tasksOf /\ Drill("micro", selectedPlan, t)

DrillOut ==
  /\ ~quitting
  /\ \/ lvl = "micro" /\ Drill("meso", selectedPlan, NoUiTask)
     \/ lvl = "meso" /\ Drill("macro", NoUiPlan, NoUiTask)

\* q: the subscription's context is cancelled.
Quit ==
  /\ ~quitting
  /\ quitting' = TRUE
  /\ subs' = [e \in DOMAIN subs |-> [subs[e] EXCEPT !.open = FALSE]]
  /\ UNCHANGED <<serverVars, viewVars, shownVars, pollVars, attached, lastEventID,
                 attachSeeded, handled, pollFaults>>
-----------------------------------------------------------------------------
TuiInit ==
  /\ feed = <<>> /\ finished = {}
  /\ lvl = "macro" /\ selectedPlan = NoUiPlan /\ selectedTask = NoUiTask
  /\ tasksOf = NoUiPlan
  /\ progress = [p \in UiPlan |-> -1] /\ liveDoneTasks = {}
  /\ fetching = FALSE /\ poll = NoPoll
  /\ attached = FALSE /\ subs = <<>>
  /\ lastEventID = 0 /\ attachSeeded = FALSE /\ handled = <<>>
  /\ quitting = FALSE /\ pollFaults = 0

Streaming ==
  \E e \in DOMAIN subs : Send(e) \/ Read(e) \/ LiveFrame(e) \/ AttachEnded(e)

TuiNext ==
  \/ \E t \in UiTask : Complete(t) \/ Verified(t)
  \/ Refresh \/ ReadSnapshot \/ Fetched \/ FetchFails
  \/ Streaming \/ \E e \in DOMAIN subs : Break(e)
  \/ DrillIn \/ DrillOut \/ Quit

\* The tick is re-armed by every refreshMsg, the runtime runs every command and
\* delivers its message, and a stream that is up sends what there is to send.
TuiFairness ==
  /\ WF_tuiVars(Refresh) /\ WF_tuiVars(ReadSnapshot) /\ WF_tuiVars(Fetched)
  /\ WF_tuiVars(Streaming)

TuiSpec == TuiInit /\ [][TuiNext]_tuiVars /\ TuiFairness
-----------------------------------------------------------------------------
\* One feed without gaps: over all reconnects the frames handled are the events
\* after the first cursor, each once and in order, and no subscription but the
\* current one is left open or read.
FeedIsSeamless ==
  /\ \A i, j \in DOMAIN handled : j = i + 1 => handled[j] = handled[i] + 1
  /\ handled # <<>> => handled[Len(handled)] = lastEventID
  /\ \A e \in DOMAIN subs :
       subs[e].open \/ subs[e].reader # "none" => e = Len(subs) /\ attached

\* The screen catches up: every event reaches it, however often the stream ends in
\* between, and whoever stays on a plan's task list comes to see that plan's
\* tasks, whatever query was under way when it was opened.
ScreenCatchesUp ==
  /\ \A n \in 1..MaxFeed :
       (attachSeeded /\ Len(feed) >= n) ~> (quitting \/ lastEventID >= n)
  /\ \A p \in UiPlan :
       (lvl = "meso" /\ selectedPlan = p) ~>
         (quitting \/ lvl # "meso" \/ selectedPlan # p \/ tasksOf = p)
=============================================================================
