SPECIFICATION FairSpec
CONSTANTS
  Procs = {p1, p2, p3}
  Readers = {p3}
  Allocators = {}
  Blocks = {b1}
  Values = {v0, v1}
  NoBuf = NoBuf
  NoProc = NoProc
  MAXOPBLOCKS = 3
  LOGSIZE = 6
  NLOG = 6
  OPBLOCKS = 1
  MaxCrashes = 1
INVARIANT NoPanic
PROPERTIES SleepersWake RecoveryFinishes
