---------------------------- MODULE TurnProofs -----------------------------
(***************************************************************************)
(* The turns of the two kinds of provider.                                 *)
(*                                                                         *)
(* A declarative provider: the progress lease, for every stall timeout,    *)
(* output limit and number of attempts, and any delay between the firing of *)
(* a timer and the run of its callback.                                    *)
(*                                                                         *)
(* An agent under a pseudo-terminal: what its verdict says and what it leaves *)
(* behind, for every script of lines a CLI may write and every interleaving *)
(* of the four actors that may end it.  None of the three properties is    *)
(* inductive.  The argument turns on Spoilt: nobody forces the end of a turn *)
(* before something has gone wrong in it, what has gone wrong stays wrong, and *)
(* until then no line that was read is lost.                               *)
(***************************************************************************)
EXTENDS DeclarativeTurn, AgentTurn, SequenceTheorems, TLAPS

(* DeclarativeTurn                                                         *)

\* Why the lease is right whatever order callbacks and output come in: while it
\* is on, its deadline is the stall timeout after the last output.
LeaseInv ==
  /\ now \in Int /\ deadline \in Int /\ lastOutput \in Int /\ expiring \in Nat
  /\ ~leaseOver => deadline = lastOutput + StallTicks
  /\ SilenceIsNoticed

\* A turn that has its outcome runs nothing any more, and output is short of what
\* was said only after a write was refused.
OutputInv ==
  /\ outcome # "none" => cli = "none"
  /\ ~cut => kept = said
  /\ outcome = "ok" => cliOK /\ ~cut

\* One step of the turn keeps the lease in order.
LEMMA LeaseStep == LeaseInv /\ [DeclNext]_declVars => LeaseInv'
<1> SUFFICES ASSUME LeaseInv, [DeclNext]_declVars
             PROVE  LeaseInv'
  OBVIOUS
<1> USE DeclAssumption DEF LeaseInv, SilenceIsNoticed, leaseVars
<1>1. CASE StartAttempt
  BY <1>1 DEF StartAttempt
<1>2. CASE TimePasses
  BY <1>2 DEF TimePasses
<1>3. CASE Output
  BY <1>3 DEF Output, Renew, Refuse
<1>4. CASE FireTimer
  BY <1>4 DEF FireTimer
<1>5. CASE Expire
  BY <1>5 DEF Expire, Remains, Rearm
<1>6. CASE TurnDeadline
  BY <1>6 DEF TurnDeadline
<1>7. ASSUME NEW ok \in BOOLEAN, CliEnds(ok)
      PROVE  LeaseInv'
  BY <1>7 DEF CliEnds
<1>8. CASE EndAttempt
  BY <1>8 DEF EndAttempt
<1>9. CASE UNCHANGED declVars
  BY <1>9 DEF declVars
<1> QED
  BY <1>1, <1>2, <1>3, <1>4, <1>5, <1>6, <1>7, <1>8, <1>9 DEF DeclNext

\* And the output.
LEMMA OutputStep == OutputInv /\ [DeclNext]_declVars => OutputInv'
<1> SUFFICES ASSUME OutputInv, [DeclNext]_declVars
             PROVE  OutputInv'
  OBVIOUS
<1> USE DEF OutputInv, leaseVars
<1>1. CASE StartAttempt
  BY <1>1 DEF StartAttempt
<1>2. CASE TimePasses
  BY <1>2 DEF TimePasses
<1>3. CASE Output
  BY <1>3 DEF Output, Refuse
<1>4. CASE FireTimer
  BY <1>4 DEF FireTimer
<1>5. CASE Expire
  BY <1>5 DEF Expire
<1>6. CASE TurnDeadline
  BY <1>6 DEF TurnDeadline
<1>7. ASSUME NEW ok \in BOOLEAN, CliEnds(ok)
      PROVE  OutputInv'
  BY <1>7 DEF CliEnds
<1>8. CASE EndAttempt
  BY <1>8 DEF EndAttempt
<1>9. CASE UNCHANGED declVars
  BY <1>9 DEF declVars
<1> QED
  BY <1>1, <1>2, <1>3, <1>4, <1>5, <1>6, <1>7, <1>8, <1>9 DEF DeclNext

\* Both hold in every reachable state.
LEMMA TurnInvariant == DeclSpec => [](LeaseInv /\ OutputInv)
<1>1. DeclInit => LeaseInv /\ OutputInv
  BY DEF DeclInit, LeaseInv, OutputInv, SilenceIsNoticed
<1> QED
  BY <1>1, LeaseStep, OutputStep, PTL DEF DeclSpec

\* The callback of a timer that fired before the last output never ends a lease
\* that the output renewed: an attempt cancelled as stalled has been silent for
\* the whole timeout.
THEOREM StallsAreReal == DeclSpec => StallIsReal
<1>1. LeaseInv /\ [DeclNext]_declVars
        => [why = "none" /\ why' = "stalled" => now - lastOutput >= StallTicks]_declVars
  <2> SUFFICES ASSUME LeaseInv, [DeclNext]_declVars, why = "none", why' = "stalled"
               PROVE  now - lastOutput >= StallTicks
    OBVIOUS
  <2>1. Expire
    BY DEF DeclNext, StartAttempt, TimePasses, Output, FireTimer, TurnDeadline,
           CliEnds, EndAttempt, declVars, leaseVars
  <2> QED
    BY <2>1, DeclAssumption DEF Expire, Remains, LeaseInv
<1> QED
  BY <1>1, TurnInvariant, PTL DEF DeclSpec, StallIsReal

\* A renewal never leaves the lease without a timer or a callback to come.
THEOREM SilenceIsSeen == DeclSpec => []SilenceIsNoticed
<1>1. LeaseInv => SilenceIsNoticed
  BY DEF LeaseInv
<1> QED
  BY <1>1, TurnInvariant, PTL

\* A turn succeeds only with the whole output of the attempt that succeeded.
THEOREM OutputsAreWhole == DeclSpec => []OutputIsWhole
<1>1. OutputInv => OutputIsWhole
  BY DEF OutputInv, OutputIsWhole
<1> QED
  BY <1>1, TurnInvariant, PTL

-----------------------------------------------------------------------------
(* AgentTurn                                                               *)

\* Where the pieces of a turn can be.
AgentTypeOK ==
  /\ runner \in {"claude", "codex", "opencode", "copilot"}
  /\ script \in Seq(Lines)
  /\ child \in {"alive", "dying", "zombie", "reaped"}
  /\ exit \in {"none", "ok", "bad", "signal"}
  /\ kids \in BOOLEAN /\ written \in 0..Len(script)
  /\ phase \in {"running", "reaping", "finished", "failed"}
  /\ forced \in BOOLEAN /\ killed \in BOOLEAN /\ terminal \in BOOLEAN
  /\ abandon \in BOOLEAN /\ ctlErr \in BOOLEAN /\ outErr \in BOOLEAN
  /\ ctxDone \in BOOLEAN
  /\ call \in [Actors -> {"none", "claim", "natural", "release", "wait", "publish",
                          "await", "returned"}]
  /\ rd \in {"read", "hold", "failing", "drain", "closed"}
  /\ got \in 0..written /\ (rd = "hold" => got > 0) /\ quiet \in BOOLEAN
  /\ sup \in {"listen", "terminating", "waiting", "returned"}
  /\ primary \in {"none", "ctx", "blocked", "ingest"}
  /\ saw \in Seq(Lines)
  /\ verdict \in {"none", "ok", "error"}
  /\ stray \in BOOLEAN
  /\ turnFaults \in Nat

\* The lifecycle: whoever is past the claim has moved the phase on, the phase never
\* returns to running, and an end that is published without an error is the end
\* of the whole session.
LifeInv ==
  /\ ~stray
  /\ child = "reaped" => phase # "running"
  /\ \A a \in Actors :
       /\ call[a] \in {"release", "wait", "publish"} => phase # "running"
       /\ call[a] = "natural" => Dead
       /\ call[a] = "wait" => phase # "failed"
       /\ call[a] = "publish" => (phase = "finished" /\ child = "reaped") \/ ctlErr
  /\ phase = "failed" => ctlErr
  /\ phase = "finished" => child = "reaped"
  /\ phase \in {"reaping", "finished"} => child # "alive" /\ (~kids \/ ctlErr)
  /\ terminal => (phase = "finished" /\ child = "reaped") \/ ctlErr
  /\ rd = "closed" => terminal

\* The turn has met something that keeps it from being a success.
Spoilt ==
  \/ primary # "none" \/ ctlErr \/ outErr \/ ctxDone
  \/ \E i \in 1..Len(saw) : Stops(saw[i])

\* Nobody ends the process by force unless the turn is spoilt.
ForceInv ==
  /\ \A a \in Actors : call[a] \in {"claim", "release"} => Spoilt
  /\ killed \/ forced => Spoilt
  /\ rd = "failing" => outErr
  /\ sup = "terminating" => Spoilt
  /\ sup = "listen" => primary = "none"
  /\ verdict # "none" => sup = "returned"
  /\ (exit = "none") = (child \in {"alive", "dying"})

\* The lines handled are the lines read, short of the one that is held; none of
\* them is lost while the turn is not spoilt.
Held == IF rd = "hold" THEN 1 ELSE 0

LineInv ==
  /\ Len(saw) <= got
  /\ \A i \in 1..Len(saw) : saw[i] = script[i] /\ saw[i] # "prompt" /\ ~Rejects(saw[i])
  /\ ~Spoilt => Len(saw) = got - Held
  /\ sup = "listen" /\ rd \in {"read", "hold"} => Len(saw) = got - Held
  /\ rd = "hold" => ~Rejects(script[got])
  /\ rd \in {"drain", "closed"} => Spoilt \/ (got = written /\ Dead)
  /\ sup \in {"waiting", "returned"} => Spoilt \/ rd = "closed"
  /\ abandon => sup \in {"waiting", "returned"}

\* The CLI has written a frame its runner fails on.
Oversized == \E i \in 1..written : Rejects(script[i])

\* What an error goes back to.
CauseInv ==
  /\ ctlErr \/ primary = "ingest" => turnFaults > 0
  /\ primary = "ctx" => ctxDone
  /\ outErr => turnFaults > 0 \/ Oversized
  /\ sup = "listen" /\ ~killed /\ quiet /\ rd # "hold" => got = Len(saw)

\* A turn that is reported as a success is over, and nothing spoils it any more.
OkInv ==
  verdict = "ok" =>
    /\ ~Spoilt /\ rd = "closed" /\ child = "reaped" /\ phase = "finished" /\ ~kids
    /\ exit = "ok" /\ Accepts(saw)
    /\ call["observer"] = "returned" /\ call["canceller"] = "returned"

\* A failure without a cause outside the CLI is settled by a process that can
\* neither write nor exit any more.
FailInv ==
  verdict = "error" =>
    \/ ctxDone \/ primary = "blocked" \/ turnFaults > 0
    \/ child = "reaped" /\ ~CleanTurn

AgentInv == /\ AgentTypeOK /\ LifeInv /\ ForceInv /\ LineInv /\ CauseInv
            /\ OkInv /\ FailInv

\* Every step keeps the turn's variables in their domains.
LEMMA AgentTypeStep ==
  ASSUME AgentTypeOK, [TurnNext]_turnVars
  PROVE  AgentTypeOK'
<1> USE DEF AgentTypeOK, Actors, childVars, lifeVars, readVars, supVars, turnVars
<1>1. CASE WriteLine
  BY <1>1 DEF WriteLine
<1>2. CASE Fork
  BY <1>2 DEF Fork
<1>3. ASSUME NEW s \in {"ok", "bad", "signal"}, Exit(s)
      PROVE  AgentTypeOK'
  BY <1>3 DEF Exit
<1>4. CASE Deadline
  BY <1>4 DEF Deadline
<1>5. CASE Silence
  BY <1>5 DEF Silence
<1>6. CASE Observe
  BY <1>6 DEF Observe, Goto, Dead
<1>7. CASE CancelOnContext
  BY <1>7 DEF CancelOnContext, Goto
<1>8. ASSUME NEW a \in Actors, ClaimLost(a)
      PROVE  AgentTypeOK'
  BY <1>8 DEF ClaimLost, Goto, Dead
<1>9. ASSUME NEW a \in Actors, ClaimForced(a)
      PROVE  AgentTypeOK'
  <2>1. kids' \in BOOLEAN
    BY <1>9, Zenon DEF ClaimForced, Signal, CleanSession
  <2>2. stray' \in BOOLEAN
    BY <1>9, Zenon DEF ClaimForced, Signal
  <2>3. turnFaults' \in Nat
    BY <1>9 DEF ClaimForced, SystemCallFails, Signal, CleanSession
  <2>6. ctlErr' \in BOOLEAN
    BY <1>9, Zenon DEF ClaimForced
  <2>7. /\ UNCHANGED <<runner, script, exit, written, killed, terminal, readVars,
                       supVars, ctxDone>>
        /\ forced' \in BOOLEAN /\ phase' \in {"running", "reaping", "finished", "failed"}
    BY <1>9 DEF ClaimForced
  <2>4. child' \in {"alive", "dying", "zombie", "reaped"}
    BY <1>9 DEF ClaimForced, Signal
  <2>5. call' \in [Actors -> {"none", "claim", "natural", "release", "wait", "publish",
                             "await", "returned"}]
    BY <1>9 DEF ClaimForced, Goto
  <2> QED
    BY <2>1, <2>2, <2>3, <2>4, <2>5, <2>6, <2>7
<1>10. ASSUME NEW a \in Actors, Natural(a)
      PROVE  AgentTypeOK'
  <2>1. kids' \in BOOLEAN
    BY <1>10 DEF Natural, Signal, CleanSession
  <2>2. stray' \in BOOLEAN
    BY <1>10 DEF Natural, Signal
  <2>3. turnFaults' \in Nat
    BY <1>10 DEF Natural, SystemCallFails, Signal, CleanSession
  <2>6. ctlErr' \in BOOLEAN
    BY <1>10 DEF Natural
  <2>7. /\ UNCHANGED <<runner, script, exit, written, killed, terminal, readVars,
                       supVars, ctxDone>>
        /\ forced' \in BOOLEAN /\ phase' \in {"running", "reaping", "finished", "failed"}
    BY <1>10 DEF Natural, NaturalPhase
  <2>4. child' \in {"alive", "dying", "zombie", "reaped"}
    BY <1>10 DEF Natural, Signal
  <2>5. call' \in [Actors -> {"none", "claim", "natural", "release", "wait", "publish",
                             "await", "returned"}]
    BY <1>10 DEF Natural, Goto
  <2> QED
    BY <2>1, <2>2, <2>3, <2>4, <2>5, <2>6, <2>7
<1>11. ASSUME NEW a \in Actors, Release(a)
      PROVE  AgentTypeOK'
  BY <1>11 DEF Release, Goto
<1>12. ASSUME NEW a \in Actors, WaitChild(a)
      PROVE  AgentTypeOK'
  BY <1>12 DEF WaitChild, Goto
<1>13. ASSUME NEW a \in Actors, Publish(a)
      PROVE  AgentTypeOK'
  BY <1>13 DEF Publish, Goto
<1>14. ASSUME NEW a \in Actors, Await(a)
      PROVE  AgentTypeOK'
  BY <1>14 DEF Await, Goto
<1>15. CASE ReadLine
  <2>1. /\ got' \in 0..written' /\ got' > 0 /\ rd' \in {"failing", "hold"}
    BY <1>15 DEF ReadLine
  <2>3. outErr' \in BOOLEAN /\ quiet' \in BOOLEAN
    BY <1>15, Zenon DEF ReadLine
  <2>4. UNCHANGED <<runner, script, childVars, phase, forced, killed, terminal,
                    ctlErr, stray, supVars, ctxDone, turnFaults>>
    BY <1>15 DEF ReadLine
  <2>2. call' \in [Actors -> {"none", "claim", "natural", "release", "wait", "publish",
                             "await", "returned"}]
    BY <1>15 DEF ReadLine, Goto
  <2> QED
    BY <2>1, <2>2, <2>3, <2>4
<1>16. CASE ReadEnds
  BY <1>16 DEF ReadEnds, AtEOF
<1>17. CASE Drop
  BY <1>17 DEF Drop, Dropped
<1>18. CASE CloseOutput
  BY <1>18 DEF CloseOutput
<1>19. CASE Deliver
  <2>1. script[got] \in Lines
    BY <1>19 DEF Deliver
  <2>2. saw' \in Seq(Lines)
    <3>1. saw' = saw \/ saw' = Append(saw, script[got])
      BY <1>19 DEF Deliver
    <3> QED
      BY <2>1, <3>1
  <2>3. call' \in [Actors -> {"none", "claim", "natural", "release", "wait", "publish",
                             "await", "returned"}]
    BY <1>19 DEF Deliver, EndTurn, Goto
  <2>4. /\ sup' \in {"listen", "terminating"}
        /\ primary' \in {"none", "ctx", "blocked", "ingest"}
    BY <1>19 DEF Deliver, EndTurn
  <2> QED
    BY <1>19, <2>2, <2>3, <2>4 DEF Deliver
<1>20. CASE SupInterrupted
  BY <1>20 DEF SupInterrupted, EndTurn, Goto
<1>21. CASE SupWaits
  BY <1>21 DEF SupWaits
<1>22. CASE SupReturns
  BY <1>22 DEF SupReturns
<1>23. CASE ObserveFails
  BY <1>23 DEF ObserveFails, SystemCallFails, Goto
<1>24. CASE ReadFails
  BY <1>24 DEF ReadFails, SystemCallFails, Goto
<1>25. CASE IngestFails
  BY <1>25 DEF IngestFails, SystemCallFails, EndTurn, Goto
<1>26. ASSUME NEW a \in Actors, ClaimFails(a)
      PROVE  AgentTypeOK'
  BY <1>26 DEF ClaimFails, SystemCallFails, Goto, Dead
<1>27. CASE UNCHANGED turnVars
  BY <1>27
<1> QED
  BY <1>1, <1>2, <1>3, <1>4, <1>5, <1>6, <1>7, <1>8, <1>9, <1>10, <1>11, <1>12,
     <1>13, <1>14, <1>15, <1>16, <1>17, <1>18, <1>19, <1>20, <1>21, <1>22, <1>23, <1>24,
     <1>25, <1>26, <1>27
     DEF TurnNext, Terminate, Reader, Supervise, FailingCalls

\* The lifecycle mutex is let go of only behind a phase that keeps the others out.
LEMMA LifeStep ==
  ASSUME AgentTypeOK, LifeInv, [TurnNext]_turnVars
  PROVE  LifeInv'
<1> USE DEF AgentTypeOK, LifeInv, Dead, Actors, childVars, lifeVars, readVars, supVars, turnVars
<1>1. CASE WriteLine
  BY <1>1 DEF WriteLine
<1>2. CASE Fork
  BY <1>2 DEF Fork
<1>3. ASSUME NEW s \in {"ok", "bad", "signal"}, Exit(s)
      PROVE  LifeInv'
  BY <1>3 DEF Exit
<1>4. CASE Deadline
  BY <1>4 DEF Deadline
<1>5. CASE Silence
  BY <1>5 DEF Silence
<1>6. CASE Observe
  BY <1>6 DEF Observe, Goto
<1>7. CASE CancelOnContext
  BY <1>7 DEF CancelOnContext, Goto
<1>8. ASSUME NEW a \in Actors, ClaimLost(a)
      PROVE  LifeInv'
  BY <1>8 DEF ClaimLost, Goto
<1>9. ASSUME NEW a \in Actors, ClaimForced(a)
      PROVE  LifeInv'
  BY <1>9 DEF ClaimForced, Goto, Signal, CleanSession, SystemCallFails
<1>10. ASSUME NEW a \in Actors, Natural(a)
      PROVE  LifeInv'
  BY <1>10 DEF Natural, NaturalPhase, Goto, Signal, CleanSession, SystemCallFails
<1>11. ASSUME NEW a \in Actors, Release(a)
      PROVE  LifeInv'
  BY <1>11 DEF Release, Goto
<1>12. ASSUME NEW a \in Actors, WaitChild(a)
      PROVE  LifeInv'
  BY <1>12 DEF WaitChild, Goto
<1>13. ASSUME NEW a \in Actors, Publish(a)
      PROVE  LifeInv'
  BY <1>13 DEF Publish, Goto
<1>14. ASSUME NEW a \in Actors, Await(a)
      PROVE  LifeInv'
  BY <1>14 DEF Await, Goto
<1>15. CASE ReadLine
  BY <1>15 DEF ReadLine, Goto
<1>16. CASE ReadEnds
  BY <1>16 DEF ReadEnds, AtEOF
<1>17. CASE Drop
  BY <1>17 DEF Drop, Dropped
<1>18. CASE CloseOutput
  BY <1>18 DEF CloseOutput
<1>19. CASE Deliver
  BY <1>19 DEF Deliver, EndTurn, Goto
<1>20. CASE SupInterrupted
  BY <1>20 DEF SupInterrupted, EndTurn, Goto
<1>21. CASE SupWaits
  BY <1>21 DEF SupWaits
<1>22. CASE SupReturns
  BY <1>22 DEF SupReturns
<1>23. CASE ObserveFails
  BY <1>23 DEF ObserveFails, SystemCallFails, Goto
<1>24. CASE ReadFails
  BY <1>24 DEF ReadFails, SystemCallFails, Goto
<1>25. CASE IngestFails
  BY <1>25 DEF IngestFails, SystemCallFails, EndTurn, Goto
<1>26. ASSUME NEW a \in Actors, ClaimFails(a)
      PROVE  LifeInv'
  BY <1>26 DEF ClaimFails, SystemCallFails, Goto
<1>27. CASE UNCHANGED turnVars
  BY <1>27
<1> QED
  BY <1>1, <1>2, <1>3, <1>4, <1>5, <1>6, <1>7, <1>8, <1>9, <1>10, <1>11, <1>12,
     <1>13, <1>14, <1>15, <1>16, <1>17, <1>18, <1>19, <1>20, <1>21, <1>22, <1>23, <1>24,
     <1>25, <1>26, <1>27
     DEF TurnNext, Terminate, Reader, Supervise, FailingCalls

\* What has gone wrong in a turn stays so, and what was written or handled too.
Onward ==
  /\ runner' = runner /\ script' = script
  /\ written <= written' /\ turnFaults <= turnFaults'
  /\ ctlErr => ctlErr'
  /\ outErr => outErr'
  /\ ctxDone => ctxDone'
  /\ primary # "none" => primary' = primary
  /\ \/ saw' = saw
     \/ saw' = Append(saw, script[got]) /\ sup = "listen" /\ rd = "hold"

LEMMA OnwardStep ==
  ASSUME AgentTypeOK, ForceInv, [TurnNext]_turnVars
  PROVE  Onward
<1> USE DEF AgentTypeOK, Onward, childVars, lifeVars, readVars, supVars, turnVars
<1>p. sup = "listen" => primary = "none"
  BY DEF ForceInv
<1>1. CASE WriteLine
  BY <1>1 DEF WriteLine
<1>2. CASE Fork
  BY <1>2 DEF Fork
<1>3. ASSUME NEW s \in {"ok", "bad", "signal"}, Exit(s)
      PROVE  Onward
  BY <1>3 DEF Exit
<1>4. CASE Deadline
  BY <1>4 DEF Deadline
<1>5. CASE Silence
  BY <1>5 DEF Silence
<1>6. CASE Observe
  BY <1>6 DEF Observe
<1>7. CASE CancelOnContext
  BY <1>7 DEF CancelOnContext
<1>8. ASSUME NEW a \in Actors, ClaimLost(a)
      PROVE  Onward
  BY <1>8 DEF ClaimLost
<1>9. ASSUME NEW a \in Actors, ClaimForced(a)
      PROVE  Onward
  BY <1>9 DEF ClaimForced, Signal, SystemCallFails, CleanSession
<1>10. ASSUME NEW a \in Actors, Natural(a)
      PROVE  Onward
  BY <1>10 DEF Natural, Signal, SystemCallFails, CleanSession
<1>11. ASSUME NEW a \in Actors, Release(a)
      PROVE  Onward
  BY <1>11 DEF Release
<1>12. ASSUME NEW a \in Actors, WaitChild(a)
      PROVE  Onward
  BY <1>12 DEF WaitChild
<1>13. ASSUME NEW a \in Actors, Publish(a)
      PROVE  Onward
  BY <1>13 DEF Publish
<1>14. ASSUME NEW a \in Actors, Await(a)
      PROVE  Onward
  BY <1>14 DEF Await
<1>15. CASE ReadLine
  BY <1>15 DEF ReadLine
<1>16. CASE ReadEnds
  BY <1>16 DEF ReadEnds
<1>17. CASE Drop
  BY <1>17 DEF Drop
<1>18. CASE CloseOutput
  BY <1>18 DEF CloseOutput
<1>19. CASE Deliver
  BY <1>19, <1>p DEF Deliver, EndTurn
<1>20. CASE SupInterrupted
  BY <1>20, <1>p DEF SupInterrupted, EndTurn
<1>21. CASE SupWaits
  BY <1>21 DEF SupWaits
<1>22. CASE SupReturns
  BY <1>22 DEF SupReturns
<1>23. CASE ObserveFails
  BY <1>23 DEF ObserveFails, SystemCallFails
<1>24. CASE ReadFails
  BY <1>24 DEF ReadFails, SystemCallFails
<1>25. CASE IngestFails
  BY <1>25, <1>p DEF IngestFails, EndTurn, SystemCallFails
<1>26. ASSUME NEW a \in Actors, ClaimFails(a)
      PROVE  Onward
  BY <1>26 DEF ClaimFails, SystemCallFails
<1>27. CASE UNCHANGED turnVars
  BY <1>27
<1> QED
  BY <1>1, <1>2, <1>3, <1>4, <1>5, <1>6, <1>7, <1>8, <1>9, <1>10, <1>11, <1>12,
     <1>13, <1>14, <1>15, <1>16, <1>17, <1>18, <1>19, <1>20, <1>21, <1>22, <1>23, <1>24,
     <1>25, <1>26, <1>27
     DEF TurnNext, Terminate, Reader, Supervise, FailingCalls

\* A spoilt turn stays spoilt.
LEMMA SpoiltStays ==
  ASSUME AgentTypeOK, ForceInv, [TurnNext]_turnVars, Spoilt
  PROVE  Spoilt'
<1>1. Onward
  BY OnwardStep
<1>2. CASE primary # "none" \/ ctlErr \/ outErr \/ ctxDone
  BY <1>1, <1>2 DEF Onward, Spoilt
<1>3. CASE \E i \in 1..Len(saw) : Stops(saw[i])
  <2>1. PICK i \in 1..Len(saw) : Stops(saw[i])
    BY <1>3
  <2>2. rd = "hold" => script[got] \in Lines
    BY DEF AgentTypeOK
  <2>3. Len(saw') >= Len(saw) /\ saw'[i] = saw[i]
    BY <1>1, <2>1, <2>2 DEF Onward, AgentTypeOK
  <2>4. i \in 1..Len(saw')
    BY <2>1, <2>2, <2>3, <1>1 DEF AgentTypeOK, Onward
  <2>5. Stops(saw[i])'
    BY <1>1, <2>1, <2>3 DEF Stops, CodexRefuses, Onward
  <2> QED
    BY <2>4, <2>5 DEF Spoilt
<1> QED
  BY <1>2, <1>3 DEF Spoilt

\* Nobody ends a turn by force before it is spoilt.
LEMMA ForceStep ==
  ASSUME AgentTypeOK, LifeInv, ForceInv, [TurnNext]_turnVars
  PROVE  ForceInv'
<1>s. Spoilt => Spoilt'
  BY SpoiltStays
<1>e. primary' # "none" \/ ctlErr' \/ outErr' \/ ctxDone' => Spoilt'
  BY DEF Spoilt
<1> USE DEF AgentTypeOK, ForceInv, Actors, childVars, lifeVars, readVars, supVars, turnVars
<1>1. CASE WriteLine
  BY <1>1, <1>s, <1>e DEF WriteLine
<1>2. CASE Fork
  BY <1>2, <1>s, <1>e DEF Fork
<1>3. ASSUME NEW s \in {"ok", "bad", "signal"}, Exit(s)
      PROVE  ForceInv'
  BY <1>3, <1>s, <1>e DEF Exit
<1>4. CASE Deadline
  BY <1>4, <1>s, <1>e DEF Deadline
<1>5. CASE Silence
  BY <1>5, <1>s, <1>e DEF Silence
<1>6. CASE Observe
  BY <1>6, <1>s, <1>e DEF Observe, Goto, Dead
<1>7. CASE CancelOnContext
  BY <1>7, <1>s, <1>e DEF CancelOnContext, Goto
<1>8. ASSUME NEW a \in Actors, ClaimLost(a)
      PROVE  ForceInv'
  BY <1>8, <1>s, <1>e DEF ClaimLost, Goto, Dead
<1>9. ASSUME NEW a \in Actors, ClaimForced(a)
      PROVE  ForceInv'
  BY <1>9, <1>s, <1>e DEF ClaimForced, Goto, Signal, CleanSession, SystemCallFails, Dead
<1>10. ASSUME NEW a \in Actors, Natural(a)
      PROVE  ForceInv'
  BY <1>10, <1>s, <1>e DEF Natural, NaturalPhase, Goto, Signal, CleanSession, SystemCallFails
<1>11. ASSUME NEW a \in Actors, Release(a)
      PROVE  ForceInv'
  BY <1>11, <1>s, <1>e DEF Release, Goto
<1>12. ASSUME NEW a \in Actors, WaitChild(a)
      PROVE  ForceInv'
  BY <1>12, <1>s, <1>e DEF WaitChild, Goto
<1>13. ASSUME NEW a \in Actors, Publish(a)
      PROVE  ForceInv'
  BY <1>13, <1>s, <1>e DEF Publish, Goto
<1>14. ASSUME NEW a \in Actors, Await(a)
      PROVE  ForceInv'
  BY <1>14, <1>s, <1>e DEF Await, Goto
<1>15. CASE ReadLine
  BY <1>15, <1>s, <1>e DEF ReadLine, Goto
<1>16. CASE ReadEnds
  BY <1>16, <1>s, <1>e DEF ReadEnds, AtEOF
<1>17. CASE Drop
  BY <1>17, <1>s, <1>e DEF Drop, Dropped
<1>18. CASE CloseOutput
  BY <1>18, <1>s, <1>e DEF CloseOutput
<1>19. CASE Deliver
  <2>1. CASE ~ctxDone /\ ~Prompts(script[got]) /\ ~Stops(script[got])
    BY <1>19, <2>1, <1>s DEF Deliver
  <2>2. CASE ~ctxDone /\ ~Prompts(script[got]) /\ Stops(script[got])
    <3>1. saw' = Append(saw, script[got]) /\ script[got] \in Lines
      BY <1>19, <2>2 DEF Deliver
    <3>2. Len(saw') = Len(saw) + 1 /\ saw'[Len(saw) + 1] = script[got]
      BY <3>1
    <3>3. Stops(saw[Len(saw)])'
      BY <1>19, <2>2, <3>2 DEF Deliver, Stops, CodexRefuses
    <3>4. Spoilt'
      BY <3>2, <3>3 DEF Spoilt
    <3> QED
      BY <1>19, <2>2, <3>4 DEF Deliver, EndTurn, Goto
  <2>3. CASE ctxDone \/ Prompts(script[got])
    <3>1. Spoilt'
      BY <1>19, <2>3, <1>e DEF Deliver, EndTurn
    <3> QED
      BY <1>19, <2>3, <3>1 DEF Deliver, EndTurn, Goto
  <2> QED
    BY <2>1, <2>2, <2>3
<1>20. CASE SupInterrupted
  BY <1>20, <1>s, <1>e DEF SupInterrupted, EndTurn, Goto
<1>21. CASE SupWaits
  BY <1>21, <1>s, <1>e DEF SupWaits
<1>22. CASE SupReturns
  BY <1>22, <1>s, <1>e DEF SupReturns
<1>23. CASE ObserveFails
  BY <1>23, <1>s, <1>e DEF ObserveFails, SystemCallFails, Goto
<1>24. CASE ReadFails
  BY <1>24, <1>s, <1>e DEF ReadFails, SystemCallFails, Goto
<1>25. CASE IngestFails
  BY <1>25, <1>s, <1>e DEF IngestFails, SystemCallFails, EndTurn, Goto
<1>26. ASSUME NEW a \in Actors, ClaimFails(a)
      PROVE  ForceInv'
  BY <1>26, <1>s, <1>e DEF ClaimFails, SystemCallFails, Goto, Dead
<1>27. CASE UNCHANGED turnVars
  BY <1>27, <1>s, <1>e
<1> QED
  BY <1>1, <1>2, <1>3, <1>4, <1>5, <1>6, <1>7, <1>8, <1>9, <1>10, <1>11, <1>12,
     <1>13, <1>14, <1>15, <1>16, <1>17, <1>18, <1>19, <1>20, <1>21, <1>22, <1>23, <1>24,
     <1>25, <1>26, <1>27
     DEF TurnNext, Terminate, Reader, Supervise, FailingCalls

\* No line is lost or handled twice while the turn can still succeed.
LEMMA LineStep ==
  ASSUME AgentTypeOK, LifeInv, ForceInv, LineInv, [TurnNext]_turnVars
  PROVE  LineInv'
<1>s. Spoilt => Spoilt'
  BY SpoiltStays
<1>e. primary' # "none" \/ ctlErr' \/ outErr' \/ ctxDone' => Spoilt'
  BY DEF Spoilt
<1>c. (ctlErr => Spoilt) /\ (outErr => Spoilt)
  BY DEF Spoilt
<1>k. (killed \/ sup = "terminating" \/ rd = "failing") => Spoilt
  BY DEF ForceInv, Spoilt
<1> USE DEF AgentTypeOK, LineInv, Held, Rejects, Dead, childVars, lifeVars, readVars, supVars, turnVars
<1>1. CASE WriteLine
  BY <1>1, <1>s, <1>e, <1>k DEF WriteLine
<1>2. CASE Fork
  BY <1>2, <1>s, <1>e, <1>k DEF Fork
<1>3. ASSUME NEW s \in {"ok", "bad", "signal"}, Exit(s)
      PROVE  LineInv'
  BY <1>3, <1>s, <1>e, <1>k DEF Exit
<1>4. CASE Deadline
  BY <1>4, <1>s, <1>e, <1>k DEF Deadline
<1>5. CASE Silence
  BY <1>5, <1>s, <1>e, <1>k DEF Silence
<1>6. CASE Observe
  BY <1>6, <1>s, <1>e, <1>k DEF Observe
<1>7. CASE CancelOnContext
  BY <1>7, <1>s, <1>e, <1>k DEF CancelOnContext
<1>8. ASSUME NEW a \in Actors, ClaimLost(a)
      PROVE  LineInv'
  BY <1>8, <1>s, <1>e, <1>k DEF ClaimLost
<1>9. ASSUME NEW a \in Actors, ClaimForced(a)
      PROVE  LineInv'
  BY <1>9, <1>s, <1>e, <1>k DEF ClaimForced, Signal, SystemCallFails
<1>10. ASSUME NEW a \in Actors, Natural(a)
      PROVE  LineInv'
  BY <1>10, <1>s, <1>e, <1>k DEF Natural, Signal, SystemCallFails
<1>11. ASSUME NEW a \in Actors, Release(a)
      PROVE  LineInv'
  BY <1>11, <1>s, <1>e, <1>k DEF Release
<1>12. ASSUME NEW a \in Actors, WaitChild(a)
      PROVE  LineInv'
  BY <1>12, <1>s, <1>e, <1>k DEF WaitChild
<1>13. ASSUME NEW a \in Actors, Publish(a)
      PROVE  LineInv'
  BY <1>13, <1>s, <1>e, <1>k DEF Publish
<1>14. ASSUME NEW a \in Actors, Await(a)
      PROVE  LineInv'
  BY <1>14, <1>s, <1>e, <1>k DEF Await
<1>15. CASE ReadLine
  BY <1>15, <1>s, <1>e, <1>k DEF ReadLine
<1>16. CASE ReadEnds
  <2>1. (got = written /\ Dead) \/ Spoilt
    BY <1>16, <1>c, <1>k DEF ReadEnds, AtEOF, LifeInv
  <2>2. rd = "hold" => Spoilt
    BY <1>16, <1>k DEF ReadEnds
  <2> QED
    BY <1>16, <1>s, <2>1, <2>2 DEF ReadEnds
<1>17. CASE Drop
  BY <1>17, <1>s, <1>e, <1>k DEF Drop, Dropped
<1>18. CASE CloseOutput
  BY <1>18, <1>s, <1>e, <1>k DEF CloseOutput
<1>19. CASE Deliver
  <2>1. CASE saw' = saw
    <3>1. sup' = "terminating" /\ Spoilt'
      <4>1. ctxDone \/ Prompts(script[got])
        <5> SUFFICES ASSUME ~ctxDone, ~Prompts(script[got])
                     PROVE  FALSE
          OBVIOUS
        <5>1. saw' = Append(saw, script[got]) /\ script[got] \in Lines
          BY <1>19, <1>s, <1>e, <1>k DEF Deliver
        <5>2. Len(saw') = Len(saw) + 1
          BY <5>1
        <5> QED
          BY <5>2, <2>1
      <4> QED
        BY <1>19, <4>1, <1>e DEF Deliver, EndTurn
    <3> QED
      BY <1>19, <2>1, <3>1 DEF Deliver
  <2>2. CASE saw' = Append(saw, script[got]) /\ ~Prompts(script[got])
    <3>1. script[got] \in Lines /\ script[got] # "prompt"
      BY <1>19, <2>2 DEF Deliver, Prompts
    <3>2. /\ Len(saw') = Len(saw) + 1 /\ saw'[Len(saw) + 1] = script[got]
          /\ \A i \in 1..Len(saw) : saw'[i] = saw[i]
      BY <2>2, <3>1
    <3>3. Len(saw) + 1 = got
      BY <1>19, <1>s, <1>e, <1>k DEF Deliver
    <3>4. \A i \in 1..Len(saw') : saw'[i] = script[i] /\ saw'[i] # "prompt"
                                  /\ ~Rejects(saw'[i])
      BY <1>19, <3>1, <3>2, <3>3 DEF Deliver
    <3> QED
      BY <1>19, <3>2, <3>3, <3>4 DEF Deliver, EndTurn
  <2> QED
    BY <1>19, <2>1, <2>2 DEF Deliver
<1>20. CASE SupInterrupted
  BY <1>20, <1>s, <1>e, <1>k DEF SupInterrupted, EndTurn
<1>21. CASE SupWaits
  BY <1>21, <1>s, <1>e, <1>k DEF SupWaits
<1>22. CASE SupReturns
  BY <1>22, <1>s, <1>e, <1>k DEF SupReturns
<1>23. CASE ObserveFails
  BY <1>23, <1>s, <1>e, <1>k DEF ObserveFails, SystemCallFails
<1>24. CASE ReadFails
  BY <1>24, <1>s, <1>e, <1>k DEF ReadFails, SystemCallFails
<1>25. CASE IngestFails
  BY <1>25, <1>s, <1>e, <1>k DEF IngestFails, SystemCallFails, EndTurn
<1>26. ASSUME NEW a \in Actors, ClaimFails(a)
      PROVE  LineInv'
  BY <1>26, <1>s, <1>e, <1>k DEF ClaimFails, SystemCallFails
<1>27. CASE UNCHANGED turnVars
  BY <1>27, <1>s, <1>e, <1>k
<1> QED
  BY <1>1, <1>2, <1>3, <1>4, <1>5, <1>6, <1>7, <1>8, <1>9, <1>10, <1>11, <1>12,
     <1>13, <1>14, <1>15, <1>16, <1>17, <1>18, <1>19, <1>20, <1>21, <1>22, <1>23, <1>24,
     <1>25, <1>26, <1>27
     DEF TurnNext, Terminate, Reader, Supervise, FailingCalls

\* A line that was written stays written.
LEMMA OversizedStays ==
  ASSUME AgentTypeOK, ForceInv, [TurnNext]_turnVars, Oversized
  PROVE  Oversized'
<1>1. Onward
  BY OnwardStep
<1>2. AgentTypeOK'
  BY AgentTypeStep
<1>3. PICK i \in 1..written : Rejects(script[i])
  BY DEF Oversized
<1>4. i \in 1..written'
  BY <1>1, <1>2, <1>3 DEF AgentTypeOK, Onward
<1>5. Rejects(script[i])'
  BY <1>1, <1>3 DEF Onward, Rejects
<1> QED
  BY <1>4, <1>5 DEF Oversized

\* Every error has its cause.
LEMMA CauseStep ==
  ASSUME AgentTypeOK, ForceInv, LineInv, CauseInv, [TurnNext]_turnVars
  PROVE  CauseInv'
<1>o. Oversized => Oversized'
  BY OversizedStays
<1> USE DEF AgentTypeOK, CauseInv, Held, childVars, lifeVars, readVars, supVars, turnVars
<1>1. CASE WriteLine
  BY <1>1, <1>o DEF WriteLine
<1>2. CASE Fork
  BY <1>2, <1>o DEF Fork
<1>3. ASSUME NEW s \in {"ok", "bad", "signal"}, Exit(s)
      PROVE  CauseInv'
  BY <1>3, <1>o DEF Exit
<1>4. CASE Deadline
  BY <1>4, <1>o DEF Deadline
<1>5. CASE Silence
  BY <1>5, <1>o DEF Silence, LineInv
<1>6. CASE Observe
  BY <1>6, <1>o DEF Observe
<1>7. CASE CancelOnContext
  BY <1>7, <1>o DEF CancelOnContext
<1>8. ASSUME NEW a \in Actors, ClaimLost(a)
      PROVE  CauseInv'
  BY <1>8, <1>o DEF ClaimLost
<1>9. ASSUME NEW a \in Actors, ClaimForced(a)
      PROVE  CauseInv'
  BY <1>9, <1>o DEF ClaimForced, Signal, CleanSession, SystemCallFails
<1>10. ASSUME NEW a \in Actors, Natural(a)
      PROVE  CauseInv'
  BY <1>10, <1>o DEF Natural, Signal, CleanSession, SystemCallFails
<1>11. ASSUME NEW a \in Actors, Release(a)
      PROVE  CauseInv'
  BY <1>11, <1>o DEF Release
<1>12. ASSUME NEW a \in Actors, WaitChild(a)
      PROVE  CauseInv'
  BY <1>12, <1>o DEF WaitChild
<1>13. ASSUME NEW a \in Actors, Publish(a)
      PROVE  CauseInv'
  BY <1>13, <1>o DEF Publish
<1>14. ASSUME NEW a \in Actors, Await(a)
      PROVE  CauseInv'
  BY <1>14, <1>o DEF Await
<1>15. CASE ReadLine
  <2>1. Rejects(script[got + 1]) => Oversized
    BY <1>15, <1>o DEF ReadLine, Oversized
  <2> QED
    BY <1>15, <1>o, <2>1 DEF ReadLine
<1>16. CASE ReadEnds
  <2>1. UNCHANGED <<childVars, lifeVars, got, quiet, outErr, supVars, ctxDone, turnFaults>>
    BY <1>16, <1>o DEF ReadEnds
  <2>2. rd = "hold" => killed
    BY <1>16, <1>o DEF ReadEnds
  <2> QED
    BY <2>1, <2>2, <1>o
<1>17. CASE Drop
  BY <1>17, <1>o DEF Drop, Dropped, LineInv
<1>18. CASE CloseOutput
  BY <1>18, <1>o DEF CloseOutput
<1>19. CASE Deliver
  <2>1. Len(saw) = got - 1
    BY <1>19, <1>o DEF Deliver, LineInv
  <2>2. sup' = "listen" => Len(saw') = got
    <3> SUFFICES ASSUME sup' = "listen" PROVE Len(saw') = got
      OBVIOUS
    <3>1. saw' = Append(saw, script[got]) /\ script[got] \in Lines
      BY <1>19, <1>o DEF Deliver, EndTurn
    <3> QED
      BY <2>1, <3>1
  <2>3. /\ UNCHANGED <<ctlErr, outErr, turnFaults, killed, got, ctxDone, quiet>>
        /\ primary' = "ctx" => ctxDone
        /\ primary' # "ingest" \/ primary = "ingest"
    BY <1>19, <1>o DEF Deliver, EndTurn, ForceInv
  <2> QED
    BY <2>2, <2>3, <1>o
<1>20. CASE SupInterrupted
  BY <1>20, <1>o DEF SupInterrupted, EndTurn
<1>21. CASE SupWaits
  BY <1>21, <1>o DEF SupWaits
<1>22. CASE SupReturns
  BY <1>22, <1>o DEF SupReturns
<1>23. CASE ObserveFails
  BY <1>23, <1>o DEF ObserveFails, SystemCallFails
<1>24. CASE ReadFails
  BY <1>24, <1>o DEF ReadFails, SystemCallFails
<1>25. CASE IngestFails
  BY <1>25, <1>o DEF IngestFails, SystemCallFails, EndTurn
<1>26. ASSUME NEW a \in Actors, ClaimFails(a)
      PROVE  CauseInv'
  BY <1>26, <1>o DEF ClaimFails, SystemCallFails
<1>27. CASE UNCHANGED turnVars
  BY <1>27, <1>o
<1> QED
  BY <1>1, <1>2, <1>3, <1>4, <1>5, <1>6, <1>7, <1>8, <1>9, <1>10, <1>11, <1>12,
     <1>13, <1>14, <1>15, <1>16, <1>17, <1>18, <1>19, <1>20, <1>21, <1>22, <1>23, <1>24,
     <1>25, <1>26, <1>27
     DEF TurnNext, Terminate, Reader, Supervise, FailingCalls

\* A success is final: no goroutine of the turn has anything left to do to it.
LEMMA SuccessIsFinal ==
  ASSUME AgentTypeOK, ForceInv, OkInv, [TurnNext]_turnVars, verdict = "ok"
  PROVE  UNCHANGED <<runner, script, childVars, phase, rd, got, ctlErr, outErr, ctxDone,
                     primary, saw, verdict, call["observer"], call["canceller"]>>
<1> USE DEF childVars, lifeVars, readVars, supVars, turnVars
<1>1. /\ rd = "closed" /\ child = "reaped" /\ phase = "finished" /\ sup = "returned"
      /\ call["observer"] = "returned" /\ call["canceller"] = "returned"
      /\ \A a \in Actors : call[a] # "claim"
      /\ call \in [Actors -> {"none", "claim", "natural", "release", "wait", "publish",
                              "await", "returned"}]
  BY DEF OkInv, ForceInv, AgentTypeOK
<1> HIDE DEF OkInv, ForceInv
<1> USE DEF Actors
<1>2. CASE WriteLine
  BY <1>2, <1>1 DEF WriteLine
<1>3. CASE Fork
  BY <1>3, <1>1 DEF Fork
<1>4. ASSUME NEW s \in {"ok", "bad", "signal"}, Exit(s)
      PROVE  UNCHANGED <<runner, script, childVars, phase, rd, got, ctlErr, outErr,
                          ctxDone, primary, saw, verdict, call["observer"],
                          call["canceller"]>>
  BY <1>4, <1>1 DEF Exit
<1>5. CASE Deadline
  BY <1>5, <1>1 DEF Deadline
<1>6. CASE Silence
  BY <1>6, <1>1 DEF Silence
<1>7. CASE Observe
  BY <1>7, <1>1 DEF Observe, Goto
<1>8. CASE CancelOnContext
  BY <1>8, <1>1 DEF CancelOnContext, Goto
<1>9. ASSUME NEW a \in Actors, ClaimLost(a)
      PROVE  UNCHANGED <<runner, script, childVars, phase, rd, got, ctlErr, outErr,
                          ctxDone, primary, saw, verdict, call["observer"],
                          call["canceller"]>>
  BY <1>9, <1>1 DEF ClaimLost, Goto
<1>10. ASSUME NEW a \in Actors, ClaimForced(a)
      PROVE  UNCHANGED <<runner, script, childVars, phase, rd, got, ctlErr, outErr,
                          ctxDone, primary, saw, verdict, call["observer"],
                          call["canceller"]>>
  BY <1>10, <1>1 DEF ClaimForced, Goto, SystemCallFails
<1>11. ASSUME NEW a \in Actors, Natural(a)
      PROVE  UNCHANGED <<runner, script, childVars, phase, rd, got, ctlErr, outErr,
                          ctxDone, primary, saw, verdict, call["observer"],
                          call["canceller"]>>
  BY <1>11, <1>1 DEF Natural, Goto, SystemCallFails
<1>12. ASSUME NEW a \in Actors, Release(a)
      PROVE  UNCHANGED <<runner, script, childVars, phase, rd, got, ctlErr, outErr,
                          ctxDone, primary, saw, verdict, call["observer"],
                          call["canceller"]>>
  BY <1>12, <1>1 DEF Release, Goto
<1>13. ASSUME NEW a \in Actors, WaitChild(a)
      PROVE  UNCHANGED <<runner, script, childVars, phase, rd, got, ctlErr, outErr,
                          ctxDone, primary, saw, verdict, call["observer"],
                          call["canceller"]>>
  BY <1>13, <1>1 DEF WaitChild, Goto
<1>14. ASSUME NEW a \in Actors, Publish(a)
      PROVE  UNCHANGED <<runner, script, childVars, phase, rd, got, ctlErr, outErr,
                          ctxDone, primary, saw, verdict, call["observer"],
                          call["canceller"]>>
  BY <1>14, <1>1 DEF Publish, Goto
<1>15. ASSUME NEW a \in Actors, Await(a)
      PROVE  UNCHANGED <<runner, script, childVars, phase, rd, got, ctlErr, outErr,
                          ctxDone, primary, saw, verdict, call["observer"],
                          call["canceller"]>>
  BY <1>15, <1>1 DEF Await, Goto
<1>16. CASE ReadLine
  BY <1>16, <1>1 DEF ReadLine, Goto
<1>17. CASE ReadEnds
  BY <1>17, <1>1 DEF ReadEnds
<1>18. CASE Drop
  BY <1>18, <1>1 DEF Drop
<1>19. CASE CloseOutput
  BY <1>19, <1>1 DEF CloseOutput
<1>20. CASE Deliver
  BY <1>20, <1>1 DEF Deliver, EndTurn, Goto
<1>21. CASE SupInterrupted
  BY <1>21, <1>1 DEF SupInterrupted, EndTurn, Goto
<1>22. CASE SupWaits
  BY <1>22, <1>1 DEF SupWaits
<1>23. CASE SupReturns
  BY <1>23, <1>1 DEF SupReturns
<1>24. CASE ObserveFails
  BY <1>24, <1>1 DEF ObserveFails, SystemCallFails, Goto
<1>25. CASE ReadFails
  BY <1>25, <1>1 DEF ReadFails, SystemCallFails, Goto
<1>26. CASE IngestFails
  BY <1>26, <1>1 DEF IngestFails, SystemCallFails, EndTurn, Goto
<1>27. ASSUME NEW a \in Actors, ClaimFails(a)
      PROVE  UNCHANGED <<runner, script, childVars, phase, rd, got, ctlErr, outErr,
                          ctxDone, primary, saw, verdict, call["observer"],
                          call["canceller"]>>
  BY <1>27, <1>1 DEF ClaimFails, SystemCallFails, Goto
<1>28. CASE UNCHANGED turnVars
  BY <1>28, <1>1
<1> QED
  BY <1>2, <1>3, <1>4, <1>5, <1>6, <1>7, <1>8, <1>9, <1>10, <1>11, <1>12, <1>13,
     <1>14, <1>15, <1>16, <1>17, <1>18, <1>19, <1>20, <1>21, <1>22, <1>23, <1>24, <1>25,
     <1>26, <1>27, <1>28
     DEF TurnNext, Terminate, Reader, Supervise, FailingCalls

\* What the runner makes of the lines depends on the runner and on the lines.
LEMMA AcceptsSame ==
  ASSUME UNCHANGED <<runner, saw>>
  PROVE  Accepts(saw)' = Accepts(saw)
BY Zenon DEF Accepts, Stops, CodexRefuses, ClaudeResult, CodexResult, OpencodeResult,
             CopilotResult, Seen

\* Only the return of superviseAgent sets the verdict.
LEMMA OnlyTheRunnerJudges ==
  ASSUME [TurnNext]_turnVars, ~SupReturns
  PROVE  verdict' = verdict
BY DEF TurnNext, Terminate, Reader, Supervise, FailingCalls, WriteLine, Fork, Exit,
   Deadline, Silence, Observe, CancelOnContext, ClaimLost, ClaimForced, Natural,
   Release, WaitChild, Publish, Await, ReadLine, ReadEnds, Drop, CloseOutput,
   Deliver, SupInterrupted, SupWaits, ObserveFails, ReadFails, IngestFails,
   ClaimFails, supVars, turnVars

\* A success stays one.
LEMMA OkStep ==
  ASSUME AgentTypeOK, LifeInv, ForceInv, LineInv, OkInv, [TurnNext]_turnVars
  PROVE  OkInv'
<1>1. CASE verdict = "ok"
  <2>1. UNCHANGED <<runner, script, childVars, phase, rd, got, ctlErr, outErr, ctxDone,
                    primary, saw, verdict, call["observer"], call["canceller"]>>
    BY <1>1, SuccessIsFinal
  <2>2. Spoilt' <=> Spoilt
    BY <2>1 DEF Spoilt, Stops, CodexRefuses
  <2>3. Accepts(saw)' = Accepts(saw)
    BY <2>1, AcceptsSame
  <2> QED
    BY <1>1, <2>1, <2>2, <2>3 DEF OkInv, childVars
<1>2. CASE SupReturns /\ verdict' = "ok"
  <2>1. ~TurnErr /\ ~ExitErr /\ Accepts(saw)
    BY <1>2 DEF SupReturns
  <2>2. UNCHANGED <<runner, script, childVars, lifeVars, readVars, primary, saw, ctxDone>>
    BY <1>2 DEF SupReturns
  <2>3. ~Spoilt
    <3>1. ~\E i \in DOMAIN saw : Stops(saw[i])
      BY <2>1 DEF Accepts
    <3>2. DOMAIN saw = 1..Len(saw)
      BY DEF AgentTypeOK
    <3> QED
      BY <2>1, <3>1, <3>2 DEF Spoilt, TurnErr
  <2>4. /\ rd = "closed" /\ call["observer"] = "returned"
        /\ call["canceller"] = "returned"
    BY <1>2 DEF SupReturns
  <2>5. phase = "finished" /\ child = "reaped" /\ ~kids
    BY <2>1, <2>4 DEF LifeInv, TurnErr
  <2>6. exit = "ok"
    BY <2>1, <2>3, <2>5 DEF ExitErr, ForceInv
  <2>7. Spoilt' <=> Spoilt
    BY <2>2 DEF Spoilt, Stops, CodexRefuses, lifeVars, readVars
  <2>8. Accepts(saw)' = Accepts(saw)
    BY <2>2, AcceptsSame
  <2> QED
    BY <2>1, <2>2, <2>3, <2>4, <2>5, <2>6, <2>7, <2>8
       DEF OkInv, childVars, lifeVars, readVars
<1>3. CASE ~SupReturns /\ verdict # "ok"
  <2>1. verdict' = verdict
    BY <1>3, OnlyTheRunnerJudges
  <2> QED
    BY <1>3, <2>1 DEF OkInv
<1> QED
  BY <1>1, <1>2, <1>3 DEF OkInv

\* A process that has been reaped neither writes nor exits.
LEMMA ReapedIsFinal ==
  ASSUME [TurnNext]_turnVars, child = "reaped"
  PROVE  UNCHANGED <<runner, script, child, exit, written>>
BY DEF TurnNext, Terminate, Reader, Supervise, FailingCalls, WriteLine, Fork, Exit,
   Deadline, Silence, Observe, CancelOnContext, ClaimLost, ClaimForced, Natural,
   Release, WaitChild, Publish, Await, ReadLine, ReadEnds, Drop, CloseOutput,
   Deliver, SupInterrupted, SupWaits, ObserveFails, ReadFails, IngestFails,
   ClaimFails,
   SupReturns, Signal, CleanSession, Dead, childVars, turnVars

\* The lines written, as the runners would be given them.
LEMMA WrittenLines ==
  ASSUME AgentTypeOK
  PROVE  /\ SubSeq(script, 1, written) \in Seq(Lines)
         /\ Len(SubSeq(script, 1, written)) = written
         /\ \A i \in 1..written : SubSeq(script, 1, written)[i] = script[i]
<1>1. written \in 0..Len(script) /\ script \in Seq(Lines)
  BY DEF AgentTypeOK
<1>2. SubSeq(script, 1, written) \in Seq(Lines)
  BY <1>1
<1>3. Len(SubSeq(script, 1, written)) = written
  BY <1>1
<1>4. \A i \in 1..written : SubSeq(script, 1, written)[i] = script[i]
  BY <1>1
<1> QED
  BY <1>2, <1>3, <1>4

\* Once as many lines were handled as were written, they are the same lines.
LEMMA AllHandled ==
  ASSUME AgentTypeOK, LineInv, Len(saw) = written
  PROVE  SubSeq(script, 1, written) = saw
<1>1. saw \in Seq(Lines) /\ \A i \in 1..written : saw[i] = script[i]
  BY DEF AgentTypeOK, LineInv
<1> DEFINE lines == SubSeq(script, 1, written)
<1>2. /\ lines \in Seq(Lines) /\ Len(lines) = Len(saw)
      /\ \A i \in 1..Len(lines) : lines[i] = saw[i]
  BY <1>1, WrittenLines
<1> HIDE DEF lines
<1> QED
  <2>1. lines = saw
    BY <1>1, <1>2, SeqEqual
  <2> QED
    BY <2>1 DEF lines

\* A failure stays what it was.
LEMMA FailStep ==
  ASSUME AgentTypeOK, LifeInv, ForceInv, LineInv, CauseInv, FailInv, [TurnNext]_turnVars
  PROVE  FailInv'
<1>1. CASE ~SupReturns
  <2> SUFFICES ASSUME verdict = "error"
               PROVE  FailInv'
    BY <1>1, OnlyTheRunnerJudges DEF FailInv
  <2>1. CASE ctxDone \/ primary = "blocked" \/ turnFaults > 0
    <3>1. Onward /\ AgentTypeOK'
      BY OnwardStep, AgentTypeStep
    <3>2. (ctxDone \/ primary = "blocked" \/ turnFaults > 0)'
      BY <2>1, <3>1 DEF Onward, AgentTypeOK
    <3> QED
      BY <3>2 DEF FailInv
  <2>2. CASE child = "reaped" /\ ~CleanTurn
    <3>1. UNCHANGED <<runner, script, child, exit, written>>
      BY <2>2, ReapedIsFinal
    <3>2. CleanTurn' = CleanTurn
      BY <3>1, Zenon DEF CleanTurn, Accepts, Stops, CodexRefuses, Rejects, ClaudeResult,
         CodexResult, OpencodeResult, CopilotResult, Seen
    <3> QED
      BY <2>2, <3>1, <3>2 DEF FailInv
  <2> QED
    BY <2>1, <2>2 DEF FailInv
<1>2. CASE SupReturns
  <2>1. UNCHANGED <<runner, script, child, exit, written, ctxDone, primary, turnFaults>>
    BY <1>2 DEF SupReturns, childVars
  <2> SUFFICES ASSUME verdict' = "error", ~ctxDone, primary # "blocked", ~(turnFaults > 0)
               PROVE  child = "reaped" /\ ~CleanTurn
    <3>1. CleanTurn' = CleanTurn
      BY <2>1, Zenon DEF CleanTurn, Accepts, Stops, CodexRefuses, Rejects, ClaudeResult,
         CodexResult, OpencodeResult, CopilotResult, Seen
    <3> QED
      BY <2>1, <3>1 DEF FailInv
  <2>2. ~ctlErr /\ primary = "none"
    BY DEF CauseInv, AgentTypeOK
  <2>3. phase = "finished" /\ child = "reaped"
    BY <1>2, <2>2 DEF SupReturns, LifeInv
  <2> DEFINE lines == SubSeq(script, 1, written)
  <2>4. DOMAIN lines = 1..written /\ \A i \in 1..written : lines[i] = script[i]
    BY WrittenLines
  <2>5. CASE outErr
    <3>1. PICK i \in 1..written : Rejects(script[i])
      BY <2>5 DEF CauseInv, Oversized
    <3>2. i \in DOMAIN lines /\ Rejects(lines[i])
      BY <2>4, <3>1
    <3> HIDE DEF lines
    <3>3. ~\A i_1 \in DOMAIN lines : ~Rejects(lines[i_1])
      BY <3>2
    <3> QED
      BY <2>3, <3>3 DEF CleanTurn, lines
  <2>6. CASE ExitErr
    BY <2>3, <2>6 DEF ExitErr, CleanTurn
  <2>7. CASE ~outErr /\ ~Accepts(saw)
    <3>1. CASE \E i \in 1..Len(saw) : Stops(saw[i])
      <4>1. PICK i \in 1..Len(saw) : Stops(saw[i])
        BY <3>1
      <4>2. i \in 1..written /\ saw[i] = script[i]
        BY <4>1 DEF LineInv, AgentTypeOK
      <4>3. i \in DOMAIN lines /\ Stops(lines[i])
        BY <2>4, <4>1, <4>2
      <4> HIDE DEF lines
      <4>4. ~Accepts(lines)
        BY <4>3 DEF Accepts
      <4> QED
        BY <2>3, <4>4 DEF CleanTurn, lines
    <3>2. CASE ~\E i \in 1..Len(saw) : Stops(saw[i])
      <4>1. ~Spoilt
        BY <2>2, <2>7, <3>2 DEF Spoilt
      <4>2. Len(saw) = written
        BY <1>2, <4>1 DEF SupReturns, LineInv, Held, AgentTypeOK
      <4>3. lines = saw
        BY <4>2, AllHandled
      <4> HIDE DEF lines
      <4>4. ~Accepts(lines)
        BY <2>7, <4>3
      <4> QED
        BY <2>3, <4>4 DEF CleanTurn, lines
    <3> QED
      BY <3>1, <3>2
  <2>8. outErr \/ ExitErr \/ ~Accepts(saw)
    BY <1>2, <2>2 DEF SupReturns, TurnErr
  <2> QED
    BY <2>5, <2>6, <2>7, <2>8
<1> QED
  BY <1>1, <1>2

\* The turn starts with nothing written, nothing read and nobody ending it.
LEMMA AgentStart == TurnInit => AgentInv
<1> SUFFICES ASSUME TurnInit
             PROVE  AgentInv
  OBVIOUS
<1> USE DEF TurnInit
<1>1. AgentTypeOK
  <2>1. PICK t \in Turns : runner = t.runner /\ script = t.script
    OBVIOUS
  <2>2. runner \in {"claude", "codex", "opencode", "copilot"} /\ script \in Seq(Lines)
    BY <2>1, TurnAssumption
  <2>3. written \in 0..Len(script) /\ got \in 0..written
    BY <2>2
  <2>4. saw \in Seq(Lines)
    OBVIOUS
  <2>5. call \in [Actors -> {"none", "claim", "natural", "release", "wait", "publish",
                            "await", "returned"}]
    OBVIOUS
  <2> QED
    BY <2>2, <2>3, <2>4, <2>5 DEF AgentTypeOK
<1>2. LifeInv
  BY DEF LifeInv, Actors
<1>3. ForceInv
  BY DEF ForceInv, Actors
<1>4. LineInv
  BY <1>1 DEF LineInv, Held, AgentTypeOK
<1>5. CauseInv /\ OkInv /\ FailInv
  BY DEF CauseInv, OkInv, FailInv
<1> QED
  BY <1>1, <1>2, <1>3, <1>4, <1>5 DEF AgentInv

LEMMA AgentSafe == TurnSpec => []AgentInv
<1>1. AgentInv /\ [TurnNext]_turnVars => AgentInv'
  BY AgentTypeStep, LifeStep, ForceStep, LineStep, CauseStep, OkStep, FailStep DEF AgentInv
<1> QED
  BY AgentStart, <1>1, PTL DEF TurnSpec

\* Whichever of the observer, the canceller, the reader and the supervisor ends the
\* process, its id is never signalled after cmd.Wait has given it back.
THEOREM NoSignalAfterReap == TurnSpec => []NoStraySignal
<1>1. AgentInv => NoStraySignal
  BY DEF AgentInv, LifeInv, NoStraySignal
<1> QED
  BY AgentSafe, <1>1, PTL

\* A turn reported as a success has reaped its child and emptied its session.
THEOREM SuccessLeavesNoProcess == TurnSpec => []TurnLeavesNoProcess
<1>1. AgentInv => TurnLeavesNoProcess
  BY DEF AgentInv, OkInv, TurnLeavesNoProcess
<1> QED
  BY AgentSafe, <1>1, PTL

\* The verdict of Run is the CLI's own, for every script a CLI may write, every
\* interleaving of the goroutines and every failing system call.
THEOREM VerdictsAreFaithful == TurnSpec => TurnIsFaithful
<1>1. AgentInv => (verdict = "ok" => CleanTurn /\ got = written /\ Len(saw) = written)
  <2> SUFFICES ASSUME AgentInv, verdict = "ok"
               PROVE  CleanTurn /\ got = written /\ Len(saw) = written
    OBVIOUS
  <2>1. /\ ~Spoilt /\ rd = "closed" /\ exit = "ok" /\ Accepts(saw)
    BY DEF AgentInv, OkInv
  <2>2. got = written /\ Len(saw) = written
    BY <2>1 DEF AgentInv, LineInv, Held, AgentTypeOK
  <2>3. SubSeq(script, 1, written) = saw
    BY <2>2, AllHandled DEF AgentInv
  <2>4. \A i \in DOMAIN saw : saw[i] # "prompt" /\ ~Rejects(saw[i])
    BY DEF AgentInv, LineInv, AgentTypeOK
  <2>5. CleanTurn
    BY <2>1, <2>3, <2>4, Zenon DEF CleanTurn, Seen
  <2> QED
    BY <2>2, <2>5
<1>2. AgentInv => (verdict = "error" =>
                     ~CleanTurn \/ ctxDone \/ primary = "blocked" \/ turnFaults > 0)
  BY DEF AgentInv, FailInv
<1>3. AgentInv /\ [TurnNext]_turnVars =>
        [sup = "listen" /\ sup' = "terminating" /\ primary' = "blocked" /\ ~killed
           => (quiet /\ got = Len(saw)) \/ script[got] = "prompt"]_turnVars
  <2> SUFFICES ASSUME AgentInv, TurnNext, sup = "listen", sup' = "terminating",
                      primary' = "blocked", ~killed
               PROVE  (quiet /\ got = Len(saw)) \/ script[got] = "prompt"
    OBVIOUS
  <2>1. Deliver \/ SupInterrupted
    BY DEF TurnNext, Terminate, Reader, Supervise, FailingCalls, WriteLine, Fork, Exit,
       Deadline, Silence, Observe, CancelOnContext, ClaimLost, ClaimForced, Natural,
       Release, WaitChild, Publish, Await, ReadLine, ReadEnds, Drop, CloseOutput,
       SupWaits, ObserveFails, ReadFails, IngestFails,
       ClaimFails, SupReturns, EndTurn,
       supVars, turnVars, AgentInv, ForceInv
  <2>2. CASE Deliver
    BY <2>2 DEF Deliver, EndTurn, Prompts, AgentInv, ForceInv
  <2>3. CASE SupInterrupted
    BY <2>3 DEF SupInterrupted, EndTurn, Stalls, AgentInv, CauseInv
  <2> QED
    BY <2>1, <2>2, <2>3
<1> QED
  BY AgentSafe, <1>1, <1>2, <1>3, PTL DEF TurnSpec, TurnIsFaithful
=============================================================================
