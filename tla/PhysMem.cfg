SPECIFICATION PhysSpec
CONSTANTS
    InitialMap <- PcMap
    PageSize = 2
    MaxEntries = 14
    AddrLimit = 64
INVARIANTS
    TypeOK
    NoOverlap
    FramesExclusive
    Coalesced
    Restored
PROPERTIES
    ZeroMeansFailed
    ImplementsPool
