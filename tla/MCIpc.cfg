CONSTANTS
  p1 = p1
  p2 = p2
  p3 = p3
  w1 = w1
  w2 = w2
  r1 = r1
  r2 = r2
  a = a
  f1 = f1
  f2 = f2
  f3 = f3
  g1 = g1
  g2 = g2
  NULL = NULL
  Writers = {w1}
  Readers = {r1}
  PIPESIZE = 2
  UINT = 4
  Bytes = {a, b}
  MAXN = 3
SPECIFICATION AllSpec
SYMMETRY IpcSymmetry
INVARIANTS
  ResourcesConserved
  NoLostPost
  NoLostWakeup
  FilesExact
PROPERTIES
  PipeIsFifo
