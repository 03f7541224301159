SPECIFICATION Spec
CONSTANTS
    W = 8
    Scalars <- ScalarNames
    Arrays = {"a"}
    SIZE = 2
    MaxSteps = 60
    ALLOCATABLE_REGS <- RegNames
    Programs <- FoldPrograms
INVARIANT OutputPreserved
CHECK_DEADLOCK FALSE
