------------------------- MODULE SupervisorProofs --------------------------
(***************************************************************************)
(* One supervisor per workspace, and the verdicts of its stop hook: the PID *)
(* lock for any number of processes and inodes, the hook for any number of *)
(* tasks and edits, lost reports, failed writes and restarts.              *)
(*                                                                         *)
(* A lock belongs to an inode and a process finds it through the PID file's *)
(* entry, so exclusion takes two facts: a process past the flock holds the *)
(* lock of the file it has open (Locks), and as long as no Release unlinked *)
(* that file under it, this is the file the entry names (Named).           *)
(***************************************************************************)
EXTENDS SupervisorLock, HookStop, TLAPS

(* SupervisorLock                                                          *)

\* Past a successful flock, with the descriptor still open.
Locked == {"truncate", "write"} \cup Holding

\* A process has the PID file open exactly from the open to the close.
Descriptors ==
  \A p \in Proc : proc[p] \in {"flock"} \cup Locked <=> fd[p] # NoInode

\* Locks belong to processes that are past the flock, on the file they opened.
Locks ==
  /\ \A p \in Proc : proc[p] \in Locked => lockedBy[fd[p]] = p
  /\ \A i \in Inode, p \in Proc : lockedBy[i] = p => fd[p] = i /\ proc[p] \in Locked

\* Until a file was taken, everybody has the same file open: the one named.
Named == ~taken => \A p \in Proc : fd[p] # NoInode => fd[p] = pidEntry

\* A supervisor's PID is in its own file, and a PID is in no file before the
\* process has written it.
Recorded ==
  /\ \A p \in Proc : proc[p] \in Holding => pidIn[fd[p]] = p
  /\ \A i \in Inode, p \in Proc :
       pidIn[i] = p => proc[p] \in Holding \cup {"unlink", "ended"}

LockInv == LockTypeOK /\ Descriptors /\ Locks /\ Named /\ Recorded

LEMMA LockInitInv == LockInit => LockInv
  BY LockAssumption DEF LockInit, LockInv, LockTypeOK, Descriptors, Locks, Named, Recorded,
     Locked, Holding, ProcStates, Live

\* Types, one conjunct per variable that an action assigns.
LEMMA LockTypeStep == LockInv /\ [LockNext]_lockVars => LockTypeOK'
<1> SUFFICES ASSUME LockInv, [LockNext]_lockVars PROVE LockTypeOK'
  OBVIOUS
<1> USE LockAssumption DEF LockInv, LockTypeOK, ProcStates, Live, Holding, ProcAt, Descriptors, Locked
<1>1. CASE UNCHANGED lockVars
  BY <1>1 DEF lockVars
<1>2. ASSUME NEW p \in Proc,
             StatSocket(p) \/ DialSocket(p) \/ JudgeSocket(p) \/ SweepSocket(p)
      PROVE  LockTypeOK'
  BY <1>2 DEF StatSocket, DialSocket, JudgeSocket, SweepSocket
<1>3. ASSUME NEW p \in Proc, OpenPID(p) \/ TryLock(p)
      PROVE  LockTypeOK'
  BY <1>3 DEF OpenPID, TryLock
<1>4. ASSUME NEW p \in Proc, TruncatePID(p) \/ WritePID(p) \/ LockFails(p)
      PROVE  LockTypeOK'
  BY <1>4 DEF TruncatePID, WritePID, LockFails, Unlocked
<1>5. ASSUME NEW p \in Proc,
             UnlinkSocket(p) \/ BindSocket(p) \/ StartFails(p) \/ StopServer(p)
      PROVE  LockTypeOK'
  BY <1>5 DEF UnlinkSocket, BindSocket, StartFails, StopServer
<1>6. ASSUME NEW p \in Proc, CloseLock(p) \/ RemovePID(p) \/ Die(p)
      PROVE  LockTypeOK'
  BY <1>6 DEF CloseLock, RemovePID, Die, Unlocked
<1> QED
  BY <1>1, <1>2, <1>3, <1>4, <1>5, <1>6 DEF LockNext

\* The steps that only move a process between two states on the same side of
\* open and lock: what the invariant says of descriptors, locks and PIDs is
\* untouched.
LEMMA QuietStep ==
  ASSUME LockInv, NEW p \in Proc,
         \/ StatSocket(p) \/ DialSocket(p) \/ JudgeSocket(p) \/ SweepSocket(p)
         \/ UnlinkSocket(p) \/ BindSocket(p) \/ StartFails(p) \/ StopServer(p)
  PROVE  (Descriptors /\ Locks /\ Named /\ Recorded)'
<1> USE LockAssumption DEF LockInv, LockTypeOK, Descriptors, Locks, Named, Recorded, Locked, Holding, ProcAt
<1>1. CASE StatSocket(p)
  BY <1>1 DEF StatSocket
<1>2. CASE DialSocket(p) \/ JudgeSocket(p) \/ SweepSocket(p)
  BY <1>2 DEF DialSocket, JudgeSocket, SweepSocket
<1>3. CASE UnlinkSocket(p) \/ StartFails(p) \/ StopServer(p)
  BY <1>3 DEF UnlinkSocket, StartFails, StopServer
<1>4. CASE BindSocket(p)
  BY <1>4 DEF BindSocket
<1> QED
  BY <1>1, <1>2, <1>3, <1>4

\* Opening the file: without an entry nobody has a file open, unless one was
\* taken, and the new inode is nobody's.
LEMMA OpenStep ==
  ASSUME LockInv, NEW p \in Proc, OpenPID(p)
  PROVE  (Descriptors /\ Locks /\ Named /\ Recorded)'
<1> USE LockAssumption DEF LockInv, LockTypeOK
<1>1. PICK i \in Inode :
        /\ IF pidEntry # NoInode THEN i = pidEntry ELSE \A q \in Proc : fd[q] # i
        /\ fd' = [fd EXCEPT ![p] = i]
        /\ pidEntry' = i
        /\ pidIn' = IF pidEntry = NoInode THEN [pidIn EXCEPT ![i] = NoProc] ELSE pidIn
  BY DEF OpenPID
<1>2. /\ proc[p] = "open" /\ proc' = [proc EXCEPT ![p] = "flock"]
      /\ lockedBy' = lockedBy /\ taken' = taken
  BY DEF OpenPID, ProcAt
<1>3. fd[p] = NoInode
  BY <1>2 DEF Descriptors, Locked, Holding
<1>4. Descriptors'
  BY <1>1, <1>2 DEF Descriptors, Locked, Holding
<1>5. Locks'
  BY <1>1, <1>2, <1>3 DEF Locks, Locked, Holding
<1>6. Named'
  BY <1>1, <1>2 DEF Named
<1>7. Recorded'
  <2>1. \A q \in Proc : proc'[q] \in Holding => pidIn'[fd'[q]] = q
    BY <1>1, <1>2 DEF Recorded, Holding, Descriptors, Locked
  <2>2. \A j \in Inode, q \in Proc :
          pidIn'[j] = q => proc'[q] \in Holding \cup {"unlink", "ended"}
    BY <1>1, <1>2 DEF Recorded, Holding
  <2> QED
    BY <2>1, <2>2 DEF Recorded
<1> QED
  BY <1>4, <1>5, <1>6, <1>7

\* The flock, and the writes of the process that holds it.
LEMMA LockStep ==
  ASSUME LockInv, NEW p \in Proc, TryLock(p) \/ TruncatePID(p) \/ WritePID(p)
  PROVE  (Descriptors /\ Locks /\ Named /\ Recorded)'
<1> USE LockAssumption DEF LockInv, LockTypeOK, ProcAt, Locked, Holding
<1>1. CASE TryLock(p)
  <2>0. fd[p] \in Inode
    BY <1>1 DEF TryLock, Descriptors
  <2>1. Descriptors' /\ Named'
    BY <1>1, <2>0 DEF TryLock, Descriptors, Named
  <2>2. Locks'
    BY <1>1, <2>0 DEF TryLock, Locks, Descriptors
  <2>3. Recorded'
    BY <1>1, <2>0 DEF TryLock, Recorded
  <2> QED
    BY <2>1, <2>2, <2>3
<1>2. CASE TruncatePID(p) \/ WritePID(p)
  <2>0. fd[p] \in Inode /\ lockedBy[fd[p]] = p
    BY <1>2 DEF TruncatePID, WritePID, Descriptors, Locks
  <2>1. Descriptors' /\ Named' /\ Locks'
    BY <1>2, <2>0 DEF TruncatePID, WritePID, Descriptors, Named, Locks
  <2>2. \A q \in Proc : q # p /\ proc[q] \in Holding => fd[q] # fd[p] /\ fd[q] \in Inode
    BY <2>0 DEF Locks, Descriptors
  <2>3. Recorded'
    BY <1>2, <2>0, <2>2 DEF TruncatePID, WritePID, Recorded
  <2> QED
    BY <2>1, <2>3
<1> QED
  BY <1>1, <1>2

\* A closed descriptor takes its lock along and disturbs nobody else's.
LEMMA CloseStep ==
  ASSUME LockInv, NEW p \in Proc, CloseLock(p) \/ LockFails(p) \/ Die(p)
  PROVE  (Descriptors /\ Locks /\ Named /\ Recorded)'
<1> USE LockAssumption DEF LockInv, LockTypeOK
<1>1. PICK s \in {"unlink", "ended"} : proc' = [proc EXCEPT ![p] = s]
  BY DEF CloseLock, LockFails, Die, ProcAt
<1>2. /\ lockedBy' = [i \in Inode |-> IF lockedBy[i] = p THEN NoProc ELSE lockedBy[i]]
      /\ fd' = [fd EXCEPT ![p] = NoInode]
      /\ pidEntry' = pidEntry /\ pidIn' = pidIn /\ taken' = taken
  BY DEF CloseLock, LockFails, Die, Unlocked
<1>3. Descriptors' /\ Named'
  BY <1>1, <1>2 DEF Descriptors, Named, Locked, Holding
<1>4. Locks'
  BY <1>1, <1>2 DEF Locks, Descriptors, Locked, Holding
<1>5. Recorded'
  BY <1>1, <1>2 DEF Recorded, Holding
<1> QED
  BY <1>3, <1>4, <1>5

\* The unlink: either nobody has the file open, or it is taken.
LEMMA RemoveStep ==
  ASSUME LockInv, NEW p \in Proc, RemovePID(p)
  PROVE  (Descriptors /\ Locks /\ Named /\ Recorded)'
<1> USE LockAssumption DEF LockInv, LockTypeOK, ProcAt, RemovePID
<1>1. Descriptors' /\ Locks'
  BY DEF Descriptors, Locks, Locked, Holding
<1>2. Named'
  BY DEF Named
<1>3. Recorded'
  BY DEF Recorded, Holding
<1> QED
  BY <1>1, <1>2, <1>3

LEMMA LockInvStep == LockInv /\ [LockNext]_lockVars => LockInv'
<1> SUFFICES ASSUME LockInv, [LockNext]_lockVars
             PROVE  (Descriptors /\ Locks /\ Named /\ Recorded)'
  BY LockTypeStep DEF LockInv
<1>1. CASE UNCHANGED lockVars
  BY <1>1 DEF lockVars, LockInv, Descriptors, Locks, Named, Recorded
<1>2. CASE LockNext
  BY <1>2, QuietStep, OpenStep, LockStep, CloseStep, RemoveStep DEF LockNext
<1> QED
  BY <1>1, <1>2

\* The inductive invariant holds of every run of Acquire and Release.
THEOREM LockInvariant == LockSpec => []LockInv
  BY LockInitInv, LockInvStep, PTL DEF LockSpec

\* While no file was taken, whoever is past the flock is alone.
LEMMA Alone ==
  ASSUME LockInv, ~taken, NEW p \in Proc, NEW q \in Proc,
         proc[p] \in Locked, proc[q] \in Locked
  PROVE  p = q
<1>1. fd[p] = pidEntry /\ fd[q] = pidEntry
  BY DEF LockInv, Named, Descriptors
<1>2. lockedBy[fd[p]] = p /\ lockedBy[fd[q]] = q
  BY DEF LockInv, Locks
<1> QED
  BY <1>1, <1>2

\* discovery.go's single instance: until a Release unlinks the PID file under
\* another process, at most one process is past Acquire and before Release.
THEOREM OneSupervisor == LockSpec => []SingleUntilTaken
<1>1. LockInv => SingleUntilTaken
  BY Alone DEF SingleUntilTaken, SingleSupervisor, Supervisors, Locked
<1> QED
  BY <1>1, LockInvariant, PTL

\* The process behind the socket is the one the PID file names and the one that
\* holds its lock, which is what the next Acquire's judgement rests on.
THEOREM AdvertisementIsTrue == LockSpec => []AdvertisedIsRecorded
<1>1. LockInv => AdvertisedIsRecorded
  <2> SUFFICES ASSUME LockInv, ~taken, NEW p \in Proc, proc[p] = "serving"
               PROVE  pidEntry # NoInode /\ lockedBy[pidEntry] = p /\ pidIn[pidEntry] = p
    BY DEF AdvertisedIsRecorded
  <2>1. proc[p] \in Holding /\ proc[p] \in Locked
    BY DEF Locked, Holding
  <2>2. fd[p] # NoInode /\ fd[p] = pidEntry
    BY <2>1 DEF LockInv, Descriptors, Named
  <2> QED
    BY <2>1, <2>2 DEF LockInv, Locks, Recorded
<1> QED
  BY <1>1, LockInvariant, PTL

\* Acquire answers "running" only because of another live process: one that
\* listens, one whose PID is recorded, or one that holds the lock.
THEOREM RefusalsAreCaused == LockSpec => RefusalHasCause
<1> DEFINE Caused == \A p \in Proc : proc'[p] = "refused" /\ proc[p] # "refused"
                       => \E q \in Proc \ {p} : proc[q] \in Live
<1>1. ASSUME LockInv, [LockNext]_lockVars PROVE [Caused]_lockVars
  <2> SUFFICES ASSUME LockNext, NEW p \in Proc, proc'[p] = "refused", proc[p] # "refused"
               PROVE  \E q \in Proc \ {p} : proc[q] \in Live
    BY <1>1
  <2> USE LockAssumption, <1>1 DEF LockInv, LockTypeOK, ProcAt
  <2>1. DialSocket(p) \/ JudgeSocket(p) \/ TryLock(p)
    BY DEF LockNext, StatSocket, DialSocket, JudgeSocket, SweepSocket, OpenPID, TryLock,
           TruncatePID, WritePID, LockFails, UnlinkSocket, BindSocket, StartFails,
           StopServer, CloseLock, RemovePID, Die
  <2>2. CASE DialSocket(p)
    BY <2>2 DEF DialSocket, Answers, Live, Holding
  <2>3. CASE JudgeSocket(p)
    <3>1. ~ShouldReclaim /\ proc[p] = "judge"
      BY <2>3 DEF JudgeSocket
    <3>2. pidEntry \in Inode /\ pidIn[pidEntry] \in Proc /\ proc[pidIn[pidEntry]] \in Live
      BY <3>1 DEF ShouldReclaim
    <3>3. pidIn[pidEntry] # p
      BY <3>1, <3>2 DEF Recorded, Holding
    <3> QED
      BY <3>2, <3>3
  <2>4. CASE TryLock(p)
    <3>1. fd[p] \in Inode /\ lockedBy[fd[p]] \in Proc /\ proc[p] = "flock"
      BY <2>4 DEF TryLock, Descriptors
    <3>2. proc[lockedBy[fd[p]]] \in Locked
      BY <3>1 DEF Locks
    <3> QED
      BY <3>1, <3>2 DEF Locked, Live, Holding
  <2> QED
    BY <2>1, <2>2, <2>3, <2>4
<1> QED
  BY <1>1, LockInvariant, PTL DEF LockSpec, RefusalHasCause

\* Every step of the code is a step of the abstract lock or changes nothing of
\* it; becoming the supervisor is the write of the PID, with the lock held.
LEMMA LockStepRefines ==
  ASSUME LockInv, [LockNext]_lockVars
  PROVE  [Single!SingleNext]_<<Supervisors, taken>>
<1> USE LockAssumption DEF LockInv, LockTypeOK, ProcAt, Supervisors, Holding
<1>1. CASE UNCHANGED lockVars
  BY <1>1 DEF lockVars
<1>2. ASSUME NEW p \in Proc,
             \/ StatSocket(p) \/ DialSocket(p) \/ JudgeSocket(p) \/ SweepSocket(p)
             \/ OpenPID(p) \/ TryLock(p) \/ TruncatePID(p) \/ LockFails(p)
      PROVE  UNCHANGED <<Supervisors, taken>>
  BY <1>2 DEF StatSocket, DialSocket, JudgeSocket, SweepSocket, OpenPID, TryLock,
              TruncatePID, LockFails
<1>3. ASSUME NEW p \in Proc,
             UnlinkSocket(p) \/ BindSocket(p) \/ StartFails(p) \/ StopServer(p)
      PROVE  UNCHANGED <<Supervisors, taken>>
  BY <1>3 DEF UnlinkSocket, BindSocket, StartFails, StopServer
<1>4. ASSUME NEW p \in Proc, WritePID(p) PROVE Single!Become(p)
  <2>1. proc[p] = "write" /\ proc' = [proc EXCEPT ![p] = "acquired"] /\ taken' = taken
    BY <1>4 DEF WritePID
  <2>2. Supervisors = {} \/ taken
    BY <2>1, Alone DEF Locked
  <2>3. Supervisors' = Supervisors \cup {p}
    BY <2>1
  <2> QED
    BY <2>1, <2>2, <2>3 DEF Single!Become
<1>5. ASSUME NEW p \in Proc, CloseLock(p) \/ Die(p) PROVE Single!Leave(p)
  <2>1. taken' = taken /\ Supervisors' = Supervisors \ {p}
    BY <1>5 DEF CloseLock, Die, Live
  <2> QED
    BY <2>1 DEF Single!Leave
<1>6. ASSUME NEW p \in Proc, RemovePID(p)
      PROVE  Single!Break \/ UNCHANGED <<Supervisors, taken>>
  <2>1. Supervisors' = Supervisors
    BY <1>6 DEF RemovePID
  <2>2. taken' = TRUE \/ taken' = taken
    BY <1>6 DEF RemovePID
  <2> QED
    BY <2>1, <2>2 DEF Single!Break
<1> QED
  BY <1>1, <1>2, <1>3, <1>4, <1>5, <1>6 DEF LockNext, Single!SingleNext

\* Acquire and Release implement the abstract lock of SingleInstance.
THEOREM LockRefines == LockSpec => ImplementsSingleInstance
<1>1. LockInit => Single!SingleInit
  BY DEF LockInit, Single!SingleInit, Supervisors, Holding
<1>2. LockInv /\ [LockNext]_lockVars => [Single!SingleNext]_<<Supervisors, taken>>
  BY LockStepRefines
<1> QED
  BY <1>1, <1>2, LockInvariant, PTL DEF LockSpec, ImplementsSingleInstance, Single!SingleSpec

-----------------------------------------------------------------------------
(* HookStop                                                                *)

RunStates == {"none", "started", "passed", "failed", "error", "persisted"}

HookTypeOK ==
  /\ tree \in Nat /\ reported \in Nat
  /\ row \in [HookTask -> {"none", "pending", "passed", "failed"}]
  /\ judged \in [HookTask -> Nat]
  /\ run \in [HookTask -> [at : RunStates, tree : Nat]]

\* Why a run under way when a tool was used leaves no verdict: the tool use takes
\* its row, and a row comes back only when the task has no run.  So a run that
\* finds a row has looked at the tree after the last use that was reported.
HookInv ==
  /\ HookTypeOK
  /\ reported <= tree
  /\ \A t \in HookTask :
       /\ row[t] # "none" /\ run[t].at \in {"passed", "failed"}
            => run[t].tree >= reported
       /\ run[t].at = "passed" => run[t].tree \in GoodTrees
  /\ VerdictsAreCurrent

\* One step of the agent, the hook or a verification keeps it.
LEMMA HookStep == HookInv /\ [HookNext]_hookVars => HookInv'
<1> SUFFICES ASSUME HookInv, [HookNext]_hookVars
             PROVE  HookInv'
  OBVIOUS
<1> USE DEF HookInv, HookTypeOK, RunStates, VerdictsAreCurrent, NoRun
<1>1. CASE ToolUse
  BY <1>1 DEF ToolUse
<1>2. CASE PostToolUse
  BY <1>2 DEF PostToolUse, InvalidateHookVerifications
<1>3. CASE PostToolUseLost
  BY <1>3 DEF PostToolUseLost
<1>4. CASE StopAllowed
  BY <1>4 DEF StopAllowed
<1>5. ASSUME NEW some \in SUBSET {t \in held : NeedsRun(t)}, StartRuns(some),
             UNCHANGED <<tree, reported, judged>>
      PROVE  HookInv'
  <2>1. row' \in [HookTask -> {"none", "pending", "passed", "failed"}]
    BY <1>5 DEF StartRuns
  <2>2. run' \in [HookTask -> [at : RunStates, tree : Nat]]
    BY <1>5 DEF StartRuns
  <2>3. ASSUME NEW t \in HookTask
        PROVE  \/ row'[t] = "pending" /\ run'[t].at = "started"
               \/ row'[t] = row[t] /\ run'[t] = run[t]
    BY <1>5 DEF StartRuns
  <2> QED
    BY <1>5, <2>1, <2>2, <2>3
<1>6. CASE StopRefused \/ StopFails
  <2>1. PICK some \in SUBSET {t \in held : NeedsRun(t)} :
          StartRuns(some) /\ UNCHANGED <<tree, reported, judged>>
    BY <1>6 DEF StopRefused, StopFails
  <2> QED
    BY <2>1, <1>5
<1>7. CASE SupervisorRestart
  BY <1>7 DEF SupervisorRestart
<1>8. ASSUME NEW t \in HookTask, Examine(t)
      PROVE  HookInv'
  BY <1>8 DEF Examine
<1>9. ASSUME NEW t \in HookTask, ExamineFails(t)
      PROVE  HookInv'
  BY <1>9 DEF ExamineFails
<1>10. ASSUME NEW t \in HookTask, Persist(t)
       PROVE  HookInv'
  <2>1. CASE UNCHANGED <<row, judged>>
    BY <1>10, <2>1 DEF Persist
  <2>2. CASE run[t].at = "error" /\ row' = [row EXCEPT ![t] = "none"] /\ judged' = judged
    BY <1>10, <2>2 DEF Persist
  <2>3. CASE /\ run[t].at # "error" /\ row[t] # "none"
             /\ row' = [row EXCEPT ![t] = run[t].at]
             /\ judged' = [judged EXCEPT ![t] = run[t].tree]
    BY <1>10, <2>3 DEF Persist
  <2> QED
    BY <1>10, <2>1, <2>2, <2>3 DEF Persist, SetHookVerificationResult
<1>11. ASSUME NEW t \in HookTask, ReleaseHookRun(t)
       PROVE  HookInv'
  BY <1>11 DEF ReleaseHookRun
<1>12. ASSUME NEW t \in HookTask, LoseTask(t)
       PROVE  HookInv'
  BY <1>12 DEF LoseTask
<1>13. CASE UNCHANGED hookVars
  BY <1>13 DEF hookVars
<1> QED
  BY <1>1, <1>2, <1>3, <1>4, <1>6, <1>7, <1>8, <1>9, <1>10, <1>11, <1>12, <1>13
     DEF HookNext, Verification

\* A verdict that lets the agent stop is never older than the last tool use that
\* was reported, for any number of tasks, edits, losses and restarts.
THEOREM VerdictsStayCurrent == HookSpec => []VerdictsAreCurrent
<1>1. HookInit => HookInv
  BY DEF HookInit, HookInv, HookTypeOK, RunStates, VerdictsAreCurrent, NoRun
<1>2. HookInv => VerdictsAreCurrent
  BY DEF HookInv
<1> QED
  BY <1>1, <1>2, HookStep, PTL DEF HookSpec
=============================================================================
