SPECIFICATION Spec
CONSTANTS
    MaxProc = 3
    TickHalf = 2
    SleepTimes = {1}
    UserPc = {"a"}
    EntryPc = "a"
INVARIANTS
    NoZombieOnCpu
    PanicMeansNobodyReady
PROPERTIES
    BootLostOnlyAtHandoff
    BlockedWakes
    WokenForAReason
CHECK_DEADLOCK FALSE
