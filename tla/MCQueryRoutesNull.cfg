SPECIFICATION Spec
CONSTANTS
    k = k
    n = n
    Null = Null
    Open = Open
    Columns <- TwoColumns
    Integral <- TheInteger
    Nullable <- TheInteger
    Singletons <- TwoColumns
    NullLiterals <- OneIsNull
    Rows <- NullOrZero
    Requests <- RangeRequest
    MaxValue = 1
    Batch = 2
    MaxRange = 2
    U64Max = 2
INVARIANTS RangeRouteExact
