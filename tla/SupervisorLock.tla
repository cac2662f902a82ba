--------------------------- MODULE SupervisorLock ---------------------------
(* How a supervisor process becomes the only one of a runtime directory and *)
(* stops being it: Acquire and Release of internal/supervisor/discovery.go, *)
(* the flock of flock.go, the bind of ipc.Server.Start and the order of     *)
(* shutdown.  Every system call is a step of its own, because any number of *)
(* processes run this code at once and each may be killed between two calls.*)
(*                                                                          *)
(* A process runs once: a restart is another member of Proc with a PID of   *)
(* its own.  The PID file is a directory entry (pidEntry) of an inode; a    *)
(* lock belongs to the inode, not to the entry.                             *)
EXTENDS FiniteSets

CONSTANTS Proc, Inode, NoProc, NoInode

ASSUME LockAssumption == NoProc \notin Proc /\ NoInode \notin Inode

VARIABLES
  proc,       \* where each process is in Run
  sockEntry,  \* the process that bound the socket file, or NoProc: no file
  pidEntry,   \* the inode the PID file names, or NoInode: no file
  pidIn,      \* per inode, the PID written in it (NoProc: empty)
  lockedBy,   \* per inode, the process that holds its flock
  fd,         \* per process, the inode it has open
  taken       \* some process's PID file was unlinked by another process

lockVars == <<proc, sockEntry, pidEntry, pidIn, lockedBy, fd, taken>>

Holding == {"acquired", "binding", "serving", "stopped"}
Live    == {"dial", "judge", "sweep", "open", "flock", "truncate", "write",
            "unlink"} \cup Holding
ProcStates == {"new", "refused", "ended"} \cup Live

\* acquirePIDLock has returned the lock and Release has not been called.
Supervisors == {p \in Proc : proc[p] \in Holding}

\* A connect is answered by a process that listens, however slowly.
Answers == sockEntry # NoProc /\ proc[sockEntry] = "serving"

ProcAt(p, s) == proc' = [proc EXCEPT ![p] = s]
-----------------------------------------------------------------------------
\* os.Stat of the socket: without a file Acquire goes straight to the lock.
StatSocket(p) ==
  /\ proc[p] = "new"
  /\ ProcAt(p, IF sockEntry = NoProc THEN "open" ELSE "dial")
  /\ UNCHANGED <<sockEntry, pidEntry, pidIn, lockedBy, fd, taken>>

\* ipc.Dial: an answer ends Acquire with ErrSupervisorRunning.
DialSocket(p) ==
  /\ proc[p] = "dial"
  /\ ProcAt(p, IF Answers THEN "refused" ELSE "judge")
  /\ UNCHANGED <<sockEntry, pidEntry, pidIn, lockedBy, fd, taken>>

\* Mutant: only an empty or missing PID file is stale.
ShouldReclaimEmpty == pidEntry = NoInode \/ pidIn[pidEntry] = NoProc

\* shouldReclaim: no PID recorded, or the PID of a process that is gone.
ShouldReclaim ==
  \/ pidEntry = NoInode
  \/ pidIn[pidEntry] = NoProc
  \/ proc[pidIn[pidEntry]] \notin Live

JudgeSocket(p) ==
  /\ proc[p] = "judge"
  /\ ProcAt(p, IF ShouldReclaim THEN "sweep" ELSE "refused")
  /\ UNCHANGED <<sockEntry, pidEntry, pidIn, lockedBy, fd, taken>>

\* Mutant: the sweep takes the PID file of the dead supervisor along.
SweepRuntimeDir(p) ==
  /\ proc[p] = "sweep"
  /\ sockEntry' = NoProc
  /\ pidEntry' = NoInode
  /\ ProcAt(p, "open")
  /\ UNCHANGED <<pidIn, lockedBy, fd, taken>>

\* os.Remove of the socket, whoever has bound it by now.
SweepSocket(p) ==
  /\ proc[p] = "sweep"
  /\ sockEntry' = NoProc
  /\ ProcAt(p, "open")
  /\ UNCHANGED <<pidEntry, pidIn, lockedBy, fd, taken>>

\* Mutant: O_TRUNC empties the file before the lock is held.
OpenPIDTruncating(p) ==
  /\ proc[p] = "open"
  /\ \E i \in Inode :
       /\ IF pidEntry # NoInode THEN i = pidEntry
                                ELSE \A q \in Proc : fd[q] # i
       /\ fd' = [fd EXCEPT ![p] = i]
       /\ pidEntry' = i
       /\ pidIn' = [pidIn EXCEPT ![i] = NoProc]
  /\ ProcAt(p, "flock")
  /\ UNCHANGED <<sockEntry, lockedBy, taken>>

\* os.OpenFile(O_CREATE): the inode of the entry, or a new one nobody has open.
OpenPID(p) ==
  /\ proc[p] = "open"
  /\ \E i \in Inode :
       /\ IF pidEntry # NoInode THEN i = pidEntry
                                ELSE \A q \in Proc : fd[q] # i
       /\ fd' = [fd EXCEPT ![p] = i]
       /\ pidEntry' = i
       /\ pidIn' = IF pidEntry = NoInode THEN [pidIn EXCEPT ![i] = NoProc]
                                         ELSE pidIn
  /\ ProcAt(p, "flock")
  /\ UNCHANGED <<sockEntry, lockedBy, taken>>

\* Mutant: a shared lock never conflicts.
TryLockShared(p) ==
  /\ proc[p] = "flock"
  /\ lockedBy' = [lockedBy EXCEPT ![fd[p]] = p]
  /\ ProcAt(p, "truncate")
  /\ UNCHANGED <<sockEntry, pidEntry, pidIn, fd, taken>>

\* flock(LOCK_EX | LOCK_NB) on the open file.
TryLock(p) ==
  /\ proc[p] = "flock"
  /\ IF lockedBy[fd[p]] = NoProc
       THEN /\ lockedBy' = [lockedBy EXCEPT ![fd[p]] = p]
            /\ ProcAt(p, "truncate")
            /\ UNCHANGED fd
       ELSE /\ fd' = [fd EXCEPT ![p] = NoInode]
            /\ ProcAt(p, "refused")
            /\ UNCHANGED lockedBy
  /\ UNCHANGED <<sockEntry, pidEntry, pidIn, taken>>

TruncatePID(p) ==
  /\ proc[p] = "truncate"
  /\ pidIn' = [pidIn EXCEPT ![fd[p]] = NoProc]
  /\ ProcAt(p, "write")
  /\ UNCHANGED <<sockEntry, pidEntry, lockedBy, fd, taken>>

WritePID(p) ==
  /\ proc[p] = "write"
  /\ pidIn' = [pidIn EXCEPT ![fd[p]] = p]
  /\ ProcAt(p, "acquired")
  /\ UNCHANGED <<sockEntry, pidEntry, lockedBy, fd, taken>>

\* listenEndpoint removes whatever is at the path, then binds.
UnlinkSocket(p) ==
  /\ proc[p] = "acquired"
  /\ sockEntry' = NoProc
  /\ ProcAt(p, "binding")
  /\ UNCHANGED <<pidEntry, pidIn, lockedBy, fd, taken>>

BindSocket(p) ==
  /\ proc[p] = "binding"
  /\ IF sockEntry = NoProc
       THEN sockEntry' = p /\ ProcAt(p, "serving")
       ELSE ProcAt(p, "stopped") /\ UNCHANGED sockEntry
  /\ UNCHANGED <<pidEntry, pidIn, lockedBy, fd, taken>>

\* shutdown: the server first (which unlinks the socket path), then Release.
StopServer(p) ==
  /\ proc[p] = "serving"
  /\ sockEntry' = NoProc
  /\ ProcAt(p, "stopped")
  /\ UNCHANGED <<pidEntry, pidIn, lockedBy, fd, taken>>

\* Run gives up between Acquire and the bind: CreateSession or NewServer fails.
StartFails(p) ==
  /\ proc[p] = "acquired"
  /\ ProcAt(p, "stopped")
  /\ UNCHANGED <<sockEntry, pidEntry, pidIn, lockedBy, fd, taken>>

\* A closed descriptor, by Release or by the end of the process.
Unlocked(p) == [i \in Inode |-> IF lockedBy[i] = p THEN NoProc ELSE lockedBy[i]]

\* Release, first call: closing the file drops the flock.
CloseLock(p) ==
  /\ proc[p] = "stopped"
  /\ lockedBy' = Unlocked(p)
  /\ fd' = [fd EXCEPT ![p] = NoInode]
  /\ ProcAt(p, "unlink")
  /\ UNCHANGED <<sockEntry, pidEntry, pidIn, taken>>

\* Release, second call: os.Remove of the PID file, whoever has it open by now.
RemovePID(p) ==
  /\ proc[p] = "unlink"
  /\ taken' = (taken \/ \E q \in Proc : pidEntry # NoInode /\ fd[q] = pidEntry)
  /\ pidEntry' = NoInode
  /\ ProcAt(p, "ended")
  /\ UNCHANGED <<sockEntry, pidIn, lockedBy, fd>>

\* Truncate or write fails: acquirePIDLock closes the file and returns.
LockFails(p) ==
  /\ proc[p] \in {"truncate", "write"}
  /\ lockedBy' = Unlocked(p)
  /\ fd' = [fd EXCEPT ![p] = NoInode]
  /\ ProcAt(p, "ended")
  /\ UNCHANGED <<sockEntry, pidEntry, pidIn, taken>>

\* The kernel closes what a killed process had open; files stay.
Die(p) ==
  /\ proc[p] \in Live
  /\ lockedBy' = Unlocked(p)
  /\ fd' = [fd EXCEPT ![p] = NoInode]
  /\ ProcAt(p, "ended")
  /\ UNCHANGED <<sockEntry, pidEntry, pidIn, taken>>

LockInit ==
  /\ proc = [p \in Proc |-> "new"]
  /\ sockEntry = NoProc
  /\ pidEntry = NoInode
  /\ pidIn = [i \in Inode |-> NoProc]
  /\ lockedBy = [i \in Inode |-> NoProc]
  /\ fd = [p \in Proc |-> NoInode]
  /\ taken = FALSE

LockNext == \E p \in Proc :
  \/ StatSocket(p) \/ DialSocket(p) \/ JudgeSocket(p) \/ SweepSocket(p)
  \/ OpenPID(p) \/ TryLock(p) \/ TruncatePID(p) \/ WritePID(p) \/ LockFails(p)
  \/ UnlinkSocket(p) \/ BindSocket(p) \/ StartFails(p)
  \/ StopServer(p) \/ CloseLock(p) \/ RemovePID(p) \/ Die(p)

LockSpec == LockInit /\ [][LockNext]_lockVars
-----------------------------------------------------------------------------
LockTypeOK ==
  /\ proc \in [Proc -> ProcStates]
  /\ sockEntry \in Proc \cup {NoProc}
  /\ pidEntry \in Inode \cup {NoInode}
  /\ pidIn \in [Inode -> Proc \cup {NoProc}]
  /\ lockedBy \in [Inode -> Proc \cup {NoProc}]
  /\ fd \in [Proc -> Inode \cup {NoInode}]
  /\ taken \in BOOLEAN

\* Single instance: what the package comment of discovery.go claims of the
\* flock.  It fails: Release drops the lock before it unlinks the file, so a
\* process that has opened or locked the old inode in between keeps a lock no
\* later process can meet.
SingleSupervisor == \A p, q \in Supervisors : p = q

\* Until a Release has unlinked the PID file under another process, Acquire
\* gives the runtime directory to one process at a time, whatever starts
\* together and whoever is killed between two calls.
SingleUntilTaken == ~taken => SingleSupervisor

\* The abstract lock: a supervisor is a holder, and the promise is void once
\* a PID file has been taken away.
Single == INSTANCE SingleInstance WITH holders <- Supervisors, broken <- taken

ImplementsSingleInstance == Single!SingleSpec

\* The socket is the advertisement and the PID file says whose it is: until a
\* file was taken, the process that answers is the one that holds the lock and
\* the one the PID file records, which is what lets another process's Acquire
\* tell a slow supervisor from a dead one.
AdvertisedIsRecorded ==
  ~taken => \A p \in Proc : proc[p] = "serving" =>
              /\ pidEntry # NoInode
              /\ lockedBy[pidEntry] = p
              /\ pidIn[pidEntry] = p

\* Leftovers of a dead supervisor refuse nobody: Acquire says "running" only
\* while another process is on its way to the lock, holds it or answers.
RefusalHasCause ==
  [][\A p \in Proc :
       proc'[p] = "refused" /\ proc[p] # "refused"
         => \E q \in Proc \ {p} : proc[q] \in Live]_lockVars
=============================================================================
