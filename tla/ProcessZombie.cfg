SPECIFICATION Spec
CONSTANTS
    MaxProc = 3
    TickHalf = 4
    SleepTimes = {2}
    UserPc = {"a"}
    EntryPc = "a"
PROPERTY ZombieStaysDead
CHECK_DEADLOCK FALSE
