SPECIFICATION AllSpec
CONSTANTS
  q1 = q1
  q2 = q2
  NULL = NULL
  p1 = p1
  p2 = p2
  x = x
  y = y
  Procs = {p1, p2}
  NoProc = NoProc
  NInodes = 3
  Names = {x, y}
  DOTDOT = DOTDOT
  Programs <- SomePrograms
  MaxLinks = 2
SYMMETRY ProcSymmetry
INVARIANTS InodeRefsExact FsGoesOn LinksEnough SpacesExact
