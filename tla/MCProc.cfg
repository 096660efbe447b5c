SPECIFICATION Spec
CONSTANTS
  NPROC = 4
  NCPU = 2
  MaxPid = 4
  KillPids = {3}
  FaultPids = {}
INVARIANTS RunningOnCpu NoLostWakeup ParentAlive WaitLockHolderRuns
PROPERTY ReapedByParent
