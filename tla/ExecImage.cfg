SPECIFICATION Spec
CONSTANTS
    InitialMap <- BigMap
    PageSize = 2
    MaxEntries = 24
    AddrLimit = 38
    TablePages = 14
    Tables = 3
    KernelEnd = 2
    FirstTable = 2
    Machines <- AllMachines
    Files <- SomeFiles
    BootFile = "elf_test"
    KStackPages = 2
    StackPage = 41
    MaxProc = 2
    MaxHeap = 3
    MaxNext = 14
INVARIANT RunningImageKept
CHECK_DEADLOCK FALSE
