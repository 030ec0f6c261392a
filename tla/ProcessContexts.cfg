SPECIFICATION Spec
CONSTANTS
    MaxProc = 3
    TickHalf = 1
    SleepTimes = {1}
    UserPc = {"a", "b"}
    EntryPc = "a"
INVARIANTS
    TypeOK
    ContextsKept
    Esp0Safe
PROPERTIES
    ReadyRuns
CONSTRAINT UntilMixed
CHECK_DEADLOCK FALSE
