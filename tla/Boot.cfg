SPECIFICATION Spec
CONSTANTS
    Lists <- SmallLists
    KernelSizes = {1, 3, 4, 6, 7}
    Chunk = 3
    ChunkParas = 6
    SectorParas = 2
    KernelSegment = 4
    SegmentLimit = 64
    WaitTicks = 2
INVARIANTS
    MapAsReported
    KernelInPlace
    InterruptsHandled
PROPERTY
    BootsOrStops
CHECK_DEADLOCK FALSE
