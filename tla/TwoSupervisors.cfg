SPECIFICATION LockSpec
CONSTANTS
  Proc = {q1, q2, q3}
  Inode = {1, 2, 3}
  NoProc = NoProc
  NoInode = NoInode
CHECK_DEADLOCK FALSE
INVARIANTS
  SingleSupervisor
