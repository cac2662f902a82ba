-------------------------- MODULE DeclarativeTurn ---------------------------
(* A turn of a declarative provider: DeclarativeRunner.Run retries a command *)
(* line under one deadline, and each attempt runs under the progress lease   *)
(* of internal/provider/progress.go, which cancels it when it has been       *)
(* silent for the stall timeout.  A timer callback runs in a goroutine of    *)
(* its own: between firing and running, progress may renew the lease.        *)
EXTENDS Integers

CONSTANTS
  StallTicks,   \* the stall timeout
  Attempts,     \* max(1, MaxRetries + 1)
  OutputLimit,  \* maxAuthoritativeResultBytes, in chunks
  MaxTicks      \* bound on the clock

ASSUME DeclAssumption == StallTicks \in Nat \ {0} /\ Attempts \in Nat \ {0}

VARIABLES
  now, deadline,
  timer,      \* when the AfterFunc timer fires; 0 when it is not armed
  expiring,   \* callbacks that have fired and not yet taken the mutex
  leaseOver,  \* stopped
  why,      \* context.Cause of the attempt: "none", "stalled" or "parent"
  lastOutput, \* when the CLI was last heard of, or was started
  cli,        \* "none", "running", "ended"
  cliOK,      \* it exited by itself with status zero
  said, kept, \* chunks it wrote in this attempt, and those that were kept
  cut,       \* a write was refused, which fails cmd.Run
  attempt,
  turnOver,   \* the turn's context is done
  outcome     \* "none", "ok", "error"

leaseVars == <<deadline, timer, expiring, leaseOver, why>>
declVars  == <<now, leaseVars, lastOutput, cli, cliOK, said, kept, cut, attempt,
               turnOver, outcome>>

\* withProgressLease and cmd.Start.
StartAttempt ==
  /\ cli = "none" /\ outcome = "none"
  /\ deadline' = now + StallTicks /\ timer' = now + StallTicks
  /\ expiring' = 0 /\ leaseOver' = FALSE
  /\ why' = IF turnOver THEN "parent" ELSE "none"
  /\ lastOutput' = now
  /\ cli' = "running" /\ cliOK' = FALSE
  /\ said' = 0 /\ kept' = 0 /\ cut' = FALSE
  /\ UNCHANGED <<now, attempt, turnOver, outcome>>

TimePasses ==
  /\ cli = "running" /\ now < MaxTicks
  /\ now' = now + 1
  /\ UNCHANGED <<leaseVars, lastOutput, cli, cliOK, said, kept, cut, attempt,
                 turnOver, outcome>>

\* progress: both the deadline and the timer.
Renew ==
  /\ deadline' = IF leaseOver THEN deadline ELSE now + StallTicks
  /\ timer'    = IF leaseOver THEN timer ELSE now + StallTicks

\* progressWriter fails the copy at the limit.
Refuse == cut' = TRUE

Output ==
  /\ cli = "running" /\ said <= OutputLimit
  /\ said' = said + 1
  /\ IF kept < OutputLimit
     THEN kept' = kept + 1 /\ lastOutput' = now /\ Renew /\ UNCHANGED cut
     ELSE Refuse /\ UNCHANGED <<kept, lastOutput, deadline, timer>>
  /\ UNCHANGED <<now, expiring, leaseOver, why, cli, cliOK, attempt, turnOver,
                 outcome>>

FireTimer ==
  /\ timer # 0 /\ now >= timer
  /\ timer' = 0 /\ expiring' = expiring + 1
  /\ UNCHANGED <<now, deadline, leaseOver, why, lastOutput, cli, cliOK, said,
                 kept, cut, attempt, turnOver, outcome>>

\* Mutant: a callback that fired has expired.
RemainsNothing == 0

Remains == deadline - now

Rearm == timer' = deadline

\* The callback looks at the deadline again under the mutex.
Expire ==
  /\ expiring > 0
  /\ expiring' = expiring - 1
  /\ IF leaseOver THEN UNCHANGED <<timer, leaseOver, why>>
     ELSE IF Remains > 0 THEN Rearm /\ UNCHANGED <<leaseOver, why>>
     ELSE /\ leaseOver' = TRUE
          /\ why' = IF why = "none" THEN "stalled" ELSE why
          /\ UNCHANGED timer
  /\ UNCHANGED <<now, deadline, lastOutput, cli, cliOK, said, kept, cut, attempt,
                 turnOver, outcome>>

TurnDeadline ==
  /\ ~turnOver /\ outcome = "none"
  /\ turnOver' = TRUE
  /\ why' = IF why = "none" THEN "parent" ELSE why
  /\ UNCHANGED <<now, deadline, timer, expiring, leaseOver, lastOutput, cli,
                 cliOK, said, kept, cut, attempt, outcome>>

\* The CLI exits, or its process group is killed: cancelled, or not read any more.
CliEnds(ok) ==
  /\ cli = "running"
  /\ cli' = "ended" /\ cliOK' = ok
  /\ UNCHANGED <<now, leaseVars, lastOutput, said, kept, cut, attempt, turnOver,
                 outcome>>

\* The deferred stop, then Run's decision to try again.
EndAttempt ==
  /\ cli = "ended"
  /\ leaseOver' = TRUE /\ timer' = 0 /\ cli' = "none"
  /\ IF cliOK /\ ~cut
     THEN outcome' = "ok" /\ UNCHANGED attempt
     ELSE IF turnOver \/ attempt = Attempts
     THEN outcome' = "error" /\ UNCHANGED attempt
     ELSE attempt' = attempt + 1 /\ UNCHANGED outcome
  /\ UNCHANGED <<now, deadline, expiring, why, lastOutput, cliOK, said, kept, cut,
                 turnOver>>

DeclInit ==
  /\ now = 1 /\ deadline = 0 /\ timer = 0 /\ expiring = 0 /\ leaseOver = TRUE
  /\ why = "none" /\ lastOutput = 0 /\ cli = "none" /\ cliOK = FALSE
  /\ said = 0 /\ kept = 0 /\ cut = FALSE /\ attempt = 1
  /\ turnOver = FALSE /\ outcome = "none"

DeclNext ==
  \/ StartAttempt \/ TimePasses \/ Output \/ FireTimer \/ Expire \/ TurnDeadline
  \/ \E ok \in BOOLEAN : CliEnds(ok)
  \/ EndAttempt

DeclSpec == DeclInit /\ [][DeclNext]_declVars
-----------------------------------------------------------------------------
\* A healthy CLI is never cancelled as stalled: when the lease ends, nothing has
\* been heard for the whole stall timeout, although the callback that ends it
\* may have been queued before the last output.
StallIsReal ==
  [][why = "none" /\ why' = "stalled" => now - lastOutput >= StallTicks]_declVars

\* A silent CLI is always noticed: as long as the lease is on, its timer is
\* armed for the deadline or a callback is on its way.
SilenceIsNoticed ==
  cli = "running" /\ ~leaseOver => expiring > 0 \/ timer = deadline

\* What a turn reports as its output is all of one attempt's output: a CLI cut
\* off at the limit is a failure, however it exited.
OutputIsWhole == outcome = "ok" => cliOK /\ kept = said
=============================================================================
