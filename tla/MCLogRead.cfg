SPECIFICATION Spec
CONSTANTS
  Procs = {p1, p2}
  Readers = {p2}
  Allocators = {p2}
  Blocks = {b1}
  Values = {v0}
  NoBuf = NoBuf
  NoProc = NoProc
  MAXOPBLOCKS = 2
  LOGSIZE = 4
  NLOG = 4
  OPBLOCKS = 1
  MaxCrashes = 0
INVARIANT NoPanic
