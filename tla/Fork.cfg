SPECIFICATION Spec
CONSTANTS
    Space = 32
    StackWords = 4
    Bases = {4, 8}
    ExecBase = 24
    Words = {0, 12}
    ChildPid = 2
INVARIANTS
    StackRelocated
    FaultsAfterExec
PROPERTIES
    ParentUntouched
    ForkReturns
CHECK_DEADLOCK FALSE
