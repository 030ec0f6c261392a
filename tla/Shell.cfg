SPECIFICATION ShellSpec
CONSTANTS
    MaxProc = 5
    TickHalf = 1
    MaxStrays = 1
    SleepTimes = {}
    UserPc = {"entry", "second", "yield", "fork", "wait", "waited", "clear", "child", "exit1", "hello", "call", "rest", "exit"}
    EntryPc = "entry"
INVARIANTS
    SystemStaysUp
    PromptAfterChild
PROPERTIES CommandAnswered ChildrenFinish
CHECK_DEADLOCK FALSE
