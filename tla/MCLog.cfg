SPECIFICATION Spec
CONSTANTS
  Procs = {p1, p2}
  Readers = {p1, p2}
  Allocators = {p1, p2}
  Blocks = {b1, b2}
  Values = {v0, v1}
  NoBuf = NoBuf
  NoProc = NoProc
  MAXOPBLOCKS = 4
  LOGSIZE = 8
  NLOG = 8
  OPBLOCKS = 2
  MaxCrashes = 2
SYMMETRY Sym
INVARIANTS QuiescentDurable DirtyIsPinned PinsBalance SleeperHasWaker
PROPERTY AtomicDiskSpec
CHECK_DEADLOCK FALSE
