SPECIFICATION AllSpec
CONSTANTS
  p1 = p1
  p2 = p2
  p3 = p3
  Procs = {p1, p2, p3}
  Blocks = {b1, b2, b3, b4}
  Vals = {v0, v1}
  Zero = v0
  NoBuf = NoBuf
  MAXOPBLOCKS = 2
  LOGBLOCKS = 4
  OpBlocks = 1
  c1 = c1
  c2 = c2
  c3 = c3
  NULL = NULL
SYMMETRY SpaceSymmetry
INVARIANTS RecyclableIsClean NoLogPanic NoLostSleeper CacheCoherent BuffersExact
PROPERTY AtomicGroups
