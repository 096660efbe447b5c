SPECIFICATION Spec
CONSTANTS
  Procs = {p1, p2, p3}
  Readers = {}
  Allocators = {}
  Blocks = {b1, b2, b3}
  Values = {v0}
  NoBuf = NoBuf
  NoProc = NoProc
  MAXOPBLOCKS = 1
  LOGSIZE = 3
  NLOG = 3
  OPBLOCKS = 1
  MaxCrashes = 0
SYMMETRY SymAll
INVARIANT NoPanic
