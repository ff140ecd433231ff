CONSTANTS
    Ab = Ab
    Cd = Cd
    p1 = p1
    p2 = p2
    p3 = p3
    None = None
    Torn = Torn
    NoOid = NoOid
    PageNum = 3
    BlockPageNum = 2
    DiskBlockNum = 2
    Requests = {0, 1}
    Content <- MCContent
    MaxCount = 3
    PagePlace <- MCPagePlace
    OverwriteCount = 2
SPECIFICATION MCSpec
INVARIANTS
    PagesPartitioned
    NeverTwoPages
    NoTornPage
    LastWriteWins
    CountCovers
    ObjWhole
    PatternsRead
    OthersUndamaged
PROPERTIES
    ImplementsPageStore
    ObjIsPageStore
