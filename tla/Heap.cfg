SPECIFICATION Spec
CONSTANTS
    PageSize = 8
    HeaderSize = 1
    Sizes = {1, 3, 7}
    MaxPages = 3
    Exhausts = TRUE
    MaxLive = 4
INVARIANTS
    PiecesExclusive
    BlocksDisjoint
PROPERTY ListKept
CONSTRAINT FewLive
