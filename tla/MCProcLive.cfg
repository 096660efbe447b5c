SPECIFICATION FairSpec
CONSTANTS
  NPROC = 3
  NCPU = 2
  MaxPid = 3
  KillPids = {2, 3}
  FaultPids = {2, 3}
PROPERTIES OrphansReaped WaitReturns KilledExits
