SPECIFICATION AllSpec
CONSTANTS
  p1 = p1
  p2 = p2
  p3 = p3
  g1 = g1
  g2 = g2
  g3 = g3
  g4 = g4
  JUNK = JUNK
  i1 = i1
  i2 = i2
  f1 = f1
  f2 = f2
  NULL = NULL
  Procs = {p1, p2, p3}
  initproc = p1
  Frames = {g1, g2, g3, g4}
  Text = {0}
  Guard = {1}
  Stack = {}
  HeapBase = 2
  HeapEnd = 3
  PGSIZE = 2
  Values = {zero, one}
  Zero = zero
SYMMETRY ContentsSymmetry
INVARIANTS RefsExact FileIsFlat BlocksExact TransactionFits PagesExact
PROPERTY MemoryIsPrivate
