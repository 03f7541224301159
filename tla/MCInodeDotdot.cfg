\* The parent of a removed current directory.
SPECIFICATION Spec
CONSTANTS
  p1 = p1
  p2 = p2
  x = x
  y = y
  Procs = {p1, p2}
  NoProc = NoProc
  NInodes = 3
  Names = {x, y}
  DOTDOT = DOTDOT
  Programs <- NestedPrograms
  MaxLinks = 2
SYMMETRY ProcSymmetry
INVARIANT NoFsPanic
