----------------------------- MODULE AgentTurn ------------------------------
(* One turn of a provider CLI under a pseudo-terminal: the Agent of          *)
(* internal/agent (a child process, the goroutine that reads its output, the *)
(* one that observes its exit and the one that waits for the context), the   *)
(* watchdog, superviseAgent and the verdict of the runner                    *)
(* (internal/provider).  Four actors may decide at the same time that the    *)
(* process has to end: each runs terminateProcess, whose steps are separated *)
(* wherever it lets go of the lifecycle mutex or blocks.                     *)
(*                                                                           *)
(* A line of output is its kind: "text"; "good" and "bad", a result frame    *)
(* that reports success or failure; "prompt", a request for input; "big", a  *)
(* frame above the retention limit.                                          *)
EXTENDS Integers, Sequences, FiniteSets

CONSTANTS
  Turns,          \* a runner ("claude", "codex", "opencode" or "copilot") and
                  \* the lines its CLI may write
  MaxTurnFaults   \* bound on failing system calls

Lines == {"text", "good", "bad", "prompt", "big"}

ASSUME TurnAssumption ==
  /\ MaxTurnFaults \in Nat
  /\ \A t \in Turns : /\ t.runner \in {"claude", "codex", "opencode", "copilot"}
                      /\ t.script \in Seq(Lines)

Actors == {"observer", "canceller", "reader", "sup"}

VARIABLES
  runner, script,
  child,      \* "alive", "dying" (SIGKILL pending), "zombie", "reaped"
  exit,       \* "none", "ok", "bad", or "signal": what wait will report
  kids,       \* the child's session has other live members
  written,    \* lines of script the child has written
  phase,      \* processLifecycle.phase
  forced,     \* processLifecycle.forced
  killed, terminal, abandon,   \* the closed channels of those names
  ctlErr, outErr,              \* controlErr, outputErr
  ctxDone,    \* the turn's deadline or its caller's cancellation
  call,       \* where each actor is in terminateProcess
  rd, got,    \* the read loop, and the lines it has taken from the terminal
  quiet,      \* StallTimeout has passed since the last read
  sup, primary, saw,           \* superviseAgent, its error, lines handled
  verdict,    \* "none", "ok", "error"
  stray,      \* a signal was sent to a process id already given back
  turnFaults

childVars  == <<child, exit, kids, written>>
lifeVars   == <<phase, forced, killed, terminal, ctlErr, call, stray>>
readVars   == <<rd, got, quiet, outErr>>
supVars    == <<sup, primary, saw, verdict, abandon>>
turnVars   == <<runner, script, childVars, lifeVars, readVars, supVars,
                ctxDone, turnFaults>>

Dead == child \in {"zombie", "reaped"}

SystemCallFails ==
  /\ turnFaults < MaxTurnFaults
  /\ turnFaults' = turnFaults + 1
-----------------------------------------------------------------------------
(* What the runners make of the lines *)

\* Frames too large to keep: two runners fail on them, two discard them.
Rejects(k) == k = "big" /\ runner \in {"claude", "opencode"}

\* codex inspects the start of a discarded frame, and cannot tell what it said.
CodexRefuses(k) == k = "big" /\ runner = "codex"

\* onLine or onDiscarded asks for the end.
Stops(k) == k = "bad" \/ CodexRefuses(k)

Seen(lines, k) == \E i \in DOMAIN lines : lines[i] = k

\* Mutant: the end of the output counts as a result.
AcceptsAnything(lines) == ~\E i \in DOMAIN lines : Stops(lines[i])

\* What each Run asks of the lines of a turn that nobody stopped: codex succeeds
\* unless told otherwise, the others need their result frame.
ClaudeResult(lines)   == Seen(lines, "good")
CodexResult(lines)    == ~Seen(lines, "bad")
OpencodeResult(lines) == Seen(lines, "good")
CopilotResult(lines)  == Seen(lines, "good")

Accepts(lines) ==
  /\ ~\E i \in DOMAIN lines : Stops(lines[i])
  /\ CASE runner = "claude"   -> ClaudeResult(lines)
       [] runner = "codex"    -> CodexResult(lines)
       [] runner = "opencode" -> OpencodeResult(lines)
       [] runner = "copilot"  -> CopilotResult(lines)

\* A line the watchdog takes for a request for input.
Prompts(k) == k = "prompt"
-----------------------------------------------------------------------------
(* The child process *)

WriteLine ==
  /\ child = "alive" /\ written < Len(script)
  /\ written' = written + 1
  /\ UNCHANGED <<runner, script, child, exit, kids, lifeVars, readVars,
                 supVars, ctxDone, turnFaults>>

Fork ==
  /\ child = "alive" /\ ~kids
  /\ kids' = TRUE
  /\ UNCHANGED <<runner, script, child, exit, written, lifeVars, readVars,
                 supVars, ctxDone, turnFaults>>

\* Also a child that SIGKILL meets on its way out.
Exit(status) ==
  /\ child \in {"alive", "dying"}
  /\ status = "signal" => child = "dying"
  /\ child' = "zombie" /\ exit' = status
  /\ UNCHANGED <<runner, script, kids, written, lifeVars, readVars, supVars,
                 ctxDone, turnFaults>>

\* WithTurnDeadline, or the dispatcher cancels the turn.
Deadline ==
  /\ ~ctxDone /\ verdict = "none"
  /\ ctxDone' = TRUE
  /\ UNCHANGED <<runner, script, childVars, lifeVars, readVars, supVars,
                 turnFaults>>
-----------------------------------------------------------------------------
(* terminateProcess and reapNatural *)

Goto(a, p) == call' = [call EXCEPT ![a] = p]

\* The other members of the child's session are killed, one by one.
CleanSession(done) == kids' = (kids /\ ~done)

\* A signal to the child's process group, and to its session.
Signal(done) ==
  /\ stray' = (stray \/ child = "reaped")
  /\ CleanSession(done)
  /\ child' = IF child = "alive" THEN "dying" ELSE child

\* claimTermination: another actor has the process, or it has exited by itself.
ClaimLost(a) ==
  /\ call[a] = "claim"
  /\ \/ phase # "running" /\ Goto(a, "await")
     \/ phase = "running" /\ Dead /\ Goto(a, "natural")
  /\ UNCHANGED <<runner, script, childVars, phase, forced, killed, terminal,
                 ctlErr, stray, readVars, supVars, ctxDone, turnFaults>>

\* terminateProcessTree succeeds, with or without its session cleanup.
ClaimForced(a) ==
  /\ call[a] = "claim" /\ phase = "running" /\ ~Dead
  /\ phase' = "reaping" /\ forced' = TRUE
  /\ \/ Signal(TRUE) /\ UNCHANGED <<ctlErr, turnFaults>>
     \/ SystemCallFails /\ Signal(FALSE) /\ ctlErr' = TRUE
  /\ Goto(a, "release")
  /\ UNCHANGED <<runner, script, exit, written, killed, terminal, readVars,
                 supVars, ctxDone>>

\* Three attempts to kill fail.
ClaimFails(a) ==
  /\ call[a] = "claim" /\ phase = "running" /\ ~Dead
  /\ SystemCallFails
  /\ phase' = "failed" /\ ctlErr' = TRUE
  /\ Goto(a, "release")
  /\ UNCHANGED <<runner, script, childVars, forced, killed, terminal, stray,
                 readVars, supVars, ctxDone>>

\* Mutant: the phase is advanced by finish alone.
NaturalPhaseUnclaimed == "running"

NaturalPhase == "reaping"

\* claimNatural: the rest of the session is killed while the zombie still
\* holds its process id.
Natural(a) ==
  /\ call[a] = "natural"
  /\ IF phase = "running"
     THEN /\ \/ Signal(TRUE) /\ UNCHANGED <<ctlErr, turnFaults>>
             \/ SystemCallFails /\ Signal(FALSE) /\ ctlErr' = TRUE
          /\ phase' = NaturalPhase
          /\ Goto(a, "wait")
     ELSE /\ Goto(a, "await")
          /\ UNCHANGED <<childVars, phase, ctlErr, stray, turnFaults>>
  /\ UNCHANGED <<runner, script, exit, written, forced, killed, terminal,
                 readVars, supVars, ctxDone>>

\* releaseOutput: the reader is told and the terminal closed.
Release(a) ==
  /\ call[a] = "release"
  /\ killed' = TRUE
  /\ Goto(a, IF phase = "failed" THEN "publish" ELSE "wait")
  /\ UNCHANGED <<runner, script, childVars, phase, forced, terminal, ctlErr,
                 stray, readVars, supVars, ctxDone, turnFaults>>

\* cmd.Wait and finish: a forced end counts as one only if the signal did it.
WaitChild(a) ==
  /\ call[a] = "wait" /\ child = "zombie"
  /\ child' = "reaped"
  /\ forced' = (forced /\ exit = "signal")
  /\ phase' = IF phase = "reaping" THEN "finished" ELSE phase
  /\ Goto(a, "publish")
  /\ UNCHANGED <<runner, script, exit, kids, written, killed, terminal, ctlErr,
                 stray, readVars, supVars, ctxDone, turnFaults>>

Publish(a) ==
  /\ call[a] = "publish"
  /\ terminal' = TRUE
  /\ Goto(a, "returned")
  /\ UNCHANGED <<runner, script, childVars, phase, forced, killed, ctlErr,
                 stray, readVars, supVars, ctxDone, turnFaults>>

Await(a) ==
  /\ call[a] = "await" /\ terminal
  /\ Goto(a, "returned")
  /\ UNCHANGED <<runner, script, childVars, phase, forced, killed, terminal,
                 ctlErr, stray, readVars, supVars, ctxDone, turnFaults>>

Terminate(a) == \/ ClaimLost(a) \/ ClaimForced(a) \/ Natural(a) \/ Release(a)
                \/ WaitChild(a) \/ Publish(a) \/ Await(a)
-----------------------------------------------------------------------------
(* The goroutines that wait for the exit and for the context *)

Observe ==
  /\ call["observer"] = "none"
  /\ \/ phase # "running" /\ Goto("observer", "returned")
     \/ phase = "running" /\ Dead /\ Goto("observer", "natural")
  /\ UNCHANGED <<runner, script, childVars, phase, forced, killed, terminal,
                 ctlErr, stray, readVars, supVars, ctxDone, turnFaults>>

\* The probe of the process id fails: it cannot be left running unobserved.
ObserveFails ==
  /\ call["observer"] = "none" /\ phase = "running"
  /\ SystemCallFails
  /\ ctlErr' = TRUE
  /\ Goto("observer", "claim")
  /\ UNCHANGED <<runner, script, childVars, phase, forced, killed, terminal,
                 stray, readVars, supVars, ctxDone>>

CancelOnContext ==
  /\ call["canceller"] = "none"
  /\ \/ ctxDone /\ Goto("canceller", "claim")
     \/ terminal /\ Goto("canceller", "returned")
  /\ UNCHANGED <<runner, script, childVars, phase, forced, killed, terminal,
                 ctlErr, stray, readVars, supVars, ctxDone, turnFaults>>
-----------------------------------------------------------------------------
(* readLoop *)

\* nextLine: a line, from the terminal or from the buffer of an earlier read.
ReadLine ==
  /\ rd = "read" /\ got < written
  /\ got' = got + 1 /\ quiet' = FALSE
  /\ IF Rejects(script[got + 1])
     THEN /\ rd' = "failing" /\ outErr' = TRUE /\ Goto("reader", "claim")
     ELSE rd' = "hold" /\ UNCHANGED <<outErr, call>>
  /\ UNCHANGED <<runner, script, childVars, phase, forced, killed, terminal,
                 ctlErr, stray, supVars, ctxDone, turnFaults>>

ReadFails ==
  /\ rd = "read" /\ ~killed
  /\ SystemCallFails
  /\ rd' = "failing" /\ outErr' = TRUE /\ Goto("reader", "claim")
  /\ UNCHANGED <<runner, script, childVars, phase, forced, killed, terminal,
                 ctlErr, stray, got, quiet, supVars, ctxDone>>

\* Mutant: a published end is the end of the output.
AtEOFOnceTerminal == terminal \/ (got = written /\ Dead /\ ~kids)

\* Nobody has the terminal open any more, or the process has been reaped and a
\* poll that does not wait finds nothing.
AtEOF == got = written /\ (terminal \/ (Dead /\ ~kids))

ReadEnds ==
  /\ \/ rd = "read" /\ AtEOF
     \/ rd \in {"read", "hold"} /\ killed
     \/ rd = "failing" /\ call["reader"] = "returned"
  /\ rd' = "drain"
  /\ UNCHANGED <<runner, script, childVars, lifeVars, got, quiet, outErr,
                 supVars, ctxDone, turnFaults>>

\* Mutant: only a kill interrupts a delivery.
DroppedByNobody == FALSE

\* abandonOutput: from then on lines are read and thrown away.
Dropped == abandon

Drop ==
  /\ rd = "hold" /\ Dropped
  /\ rd' = "read"
  /\ UNCHANGED <<runner, script, childVars, lifeVars, got, quiet, outErr,
                 supVars, ctxDone, turnFaults>>

\* The deferred end: out and done are closed once the process has been reaped.
CloseOutput ==
  /\ rd = "drain" /\ terminal
  /\ rd' = "closed"
  /\ UNCHANGED <<runner, script, childVars, lifeVars, got, quiet, outErr,
                 supVars, ctxDone, turnFaults>>

\* The reader polls every 10 ms: while it reads, silence means that nothing was
\* written.  A line it holds may wait for the watchdog longer than the timeout.
Silence ==
  /\ ~quiet /\ child = "alive" /\ sup = "listen"
  /\ \/ rd = "read" /\ got = written
     \/ rd = "hold"
  /\ quiet' = TRUE
  /\ UNCHANGED <<runner, script, childVars, lifeVars, rd, got, outErr,
                 supVars, ctxDone, turnFaults>>
-----------------------------------------------------------------------------
(* Watch and superviseAgent *)

EndTurn(err) ==
  /\ sup' = "terminating" /\ primary' = err
  /\ Goto("sup", "claim")

\* A line: a cancelled context goes first, then prompts, then the runner.
Deliver ==
  /\ sup = "listen" /\ rd = "hold"
  /\ rd' = "read"
  /\ LET k == script[got] IN
     IF ctxDone THEN EndTurn("ctx") /\ UNCHANGED saw
     ELSE IF Prompts(k) THEN EndTurn("blocked") /\ UNCHANGED saw
     ELSE /\ saw' = Append(saw, k)
          /\ IF Stops(k) THEN EndTurn("none")
                         ELSE UNCHANGED <<sup, primary, call>>
  /\ UNCHANGED <<runner, script, childVars, phase, forced, killed, terminal,
                 ctlErr, stray, got, quiet, outErr, verdict, abandon, ctxDone,
                 turnFaults>>

\* The evidence file cannot be created or written.
IngestFails ==
  /\ sup = "listen" /\ SystemCallFails
  /\ EndTurn("ingest")
  /\ UNCHANGED <<runner, script, childVars, phase, forced, killed, terminal,
                 ctlErr, stray, readVars, saw, verdict, abandon, ctxDone>>

\* Mutant: the timer's word is final.
StallsOnTimer == quiet

\* The timer, once more against the activity and the output that is waiting.
Stalls == quiet /\ rd \notin {"hold", "closed"}

SupInterrupted ==
  /\ sup = "listen"
  /\ \/ ctxDone /\ EndTurn("ctx")
     \/ Stalls /\ EndTurn("blocked")
  /\ UNCHANGED <<runner, script, childVars, phase, forced, killed, terminal,
                 ctlErr, stray, readVars, saw, verdict, abandon, ctxDone,
                 turnFaults>>

\* Wait, after an Exited signal or after terminateProcess: abandons the output.
SupWaits ==
  /\ \/ sup = "listen" /\ rd = "closed"
     \/ sup = "terminating" /\ call["sup"] = "returned"
  /\ sup' = "waiting" /\ abandon' = TRUE
  /\ UNCHANGED <<runner, script, childVars, lifeVars, readVars, primary, saw,
                 verdict, ctxDone, turnFaults>>

\* ExitErr: what the process said of itself, if it was not made to stop.
ExitErr == phase = "finished" /\ ~forced /\ exit # "ok"

\* Mutant: Wait returns the output's error only.
TurnErrWithoutControl == primary # "none" \/ outErr \/ ctxDone

TurnErr == primary # "none" \/ ctlErr \/ outErr \/ ctxDone

SupReturns ==
  /\ sup = "waiting" /\ rd = "closed"
  /\ call["observer"] = "returned" /\ call["canceller"] = "returned"
  /\ sup' = "returned"
  /\ verdict' = IF TurnErr \/ ExitErr \/ ~Accepts(saw) THEN "error" ELSE "ok"
  /\ UNCHANGED <<runner, script, childVars, lifeVars, readVars, primary, saw,
                 abandon, ctxDone, turnFaults>>
-----------------------------------------------------------------------------
TurnInit ==
  /\ \E t \in Turns : runner = t.runner /\ script = t.script
  /\ child = "alive" /\ exit = "none" /\ kids = FALSE /\ written = 0
  /\ phase = "running" /\ forced = FALSE
  /\ killed = FALSE /\ terminal = FALSE /\ abandon = FALSE
  /\ ctlErr = FALSE /\ outErr = FALSE /\ ctxDone = FALSE
  /\ call = [a \in Actors |-> "none"]
  /\ rd = "read" /\ got = 0 /\ quiet = FALSE
  /\ sup = "listen" /\ primary = "none" /\ saw = <<>>
  /\ verdict = "none" /\ stray = FALSE /\ turnFaults = 0

Reader     == ReadLine \/ ReadEnds \/ Drop \/ CloseOutput
Supervise  == Deliver \/ SupInterrupted \/ SupWaits \/ SupReturns
FailingCalls == \/ ObserveFails \/ ReadFails \/ IngestFails
                \/ \E a \in Actors : ClaimFails(a)

TurnNext ==
  \/ WriteLine \/ Fork \/ \E s \in {"ok", "bad", "signal"} : Exit(s)
  \/ Deadline \/ Silence \/ Observe \/ CancelOnContext
  \/ \E a \in Actors : Terminate(a)
  \/ Reader \/ Supervise \/ FailingCalls

\* Goroutines run, SIGKILL kills and the turn has a deadline; the CLI itself
\* owes nothing.
TurnFairness ==
  /\ WF_turnVars(Exit("signal")) /\ WF_turnVars(Deadline)
  /\ WF_turnVars(Observe) /\ WF_turnVars(CancelOnContext)
  /\ \A a \in Actors : WF_turnVars(Terminate(a))
  /\ WF_turnVars(Reader) /\ WF_turnVars(Supervise)

TurnSpec == TurnInit /\ [][TurnNext]_turnVars /\ TurnFairness
-----------------------------------------------------------------------------
\* What the CLI did, judged from what it wrote and how it ended.
CleanTurn ==
  LET lines == SubSeq(script, 1, written) IN
  /\ exit = "ok"
  /\ ~Seen(lines, "prompt") /\ ~\E i \in DOMAIN lines : Rejects(lines[i])
  /\ Accepts(lines)

\* A turn is reported as the CLI ended it.  Success means that it exited with
\* status zero by itself, that every line it wrote was handled and that they add
\* up to a result; a turn the CLI finished cleanly fails only for a reason
\* outside it: no output lost between the exit and the last read, no end taken
\* for a forced one, no forced one taken for a success; and no turn is given up
\* as blocked while a line that was read waits to be handled, however long it
\* has waited, unless the process is being killed already.
TurnIsFaithful ==
  /\ [](verdict = "ok" => CleanTurn /\ got = written /\ Len(saw) = written)
  /\ [](verdict = "error" =>
          ~CleanTurn \/ ctxDone \/ primary = "blocked" \/ turnFaults > 0)
  /\ [][sup = "listen" /\ sup' = "terminating" /\ primary' = "blocked" /\ ~killed
          => (quiet /\ got = Len(saw)) \/ script[got] = "prompt"]_turnVars

\* A turn that has returned leaves no process behind, or says so: the child has
\* been reaped and the rest of its session is gone, unless an error is reported.
TurnLeavesNoProcess ==
  verdict = "ok" => child = "reaped" /\ ~kids

\* Whoever decides to end the process, nobody signals its id once the kernel may
\* have given it to another process.
NoStraySignal == ~stray

\* Every turn returns once its process has exited or its deadline has passed:
\* whichever of the four ends it, whatever system call fails and however much
\* output nobody reads any more.
TurnEnds == ctxDone \/ exit # "none" ~> verdict # "none"
=============================================================================
