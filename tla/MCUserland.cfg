SPECIFICATION AllSpec
CONSTANTS
  W = 8
  Scalars <- ScalarNames
  Arrays = {"a"}
  SIZE = 2
  MaxSteps = 60
  ALLOCATABLE_REGS <- RegNames
  Programs <- MCPrograms
INVARIANTS
  AssemblyAsWritten
  ParsedAsWritten
  PromptMeansDone
  HeapExact
  ImageConsistent
  LibraryExact
  GrepExact
PROPERTY LineReturns
CHECK_DEADLOCK FALSE
