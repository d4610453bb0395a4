SPECIFICATION FairSpec
CONSTANTS
    k = k
    n = n
    Null = Null
    Open = Open
    Columns <- TwoColumns
    Integral <- TheInteger
    Nullable <- TheInteger
    Singletons <- TwoColumns
    NullLiterals <- NoLiterals
    Rows <- FourRows
    Requests <- SomeRequests
    MaxValue = 1
    Batch = 2
    MaxRange = 2
    U64Max = 2
INVARIANTS TypeOK PageExact WalkIsExact
PROPERTIES EveryQueryAnswers
