SPECIFICATION FairSpec
CONSTANTS
  Slots = {1, 2, 3}
  initproc = 1
  ticks = ticks
  disk = disk
  NULL = NULL
INVARIANTS
  FamilyTree
  NoLostExit
  InitHasShell
PROPERTIES
  ZombieUntilReaped
  KilledExits
