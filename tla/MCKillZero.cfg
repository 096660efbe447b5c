SPECIFICATION Spec
CONSTANTS
  NPROC = 2
  NCPU = 1
  MaxPid = 3
  KillPids = {0}
  FaultPids = {}
INVARIANT FreeSlotsNotKilled
