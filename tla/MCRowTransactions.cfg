SPECIFICATION Spec
CONSTANTS
    k = k
    x = x
    a = a
    Null = Null
    Deleted = Deleted
    NoOverlay = NoOverlay
    NoTx = NoTx
    Columns <- TwoColumns
    Values <- OneValue
    Schemas <- Evolving
    BatchSizes <- OneOrTwo
    Limits <- OneOrTwo
    U64Max = 2
    MaxDeltas = 1
    MaxTx = 2
INVARIANTS
    PreparedIsApplicable
PROPERTIES
    ImplementsRowStore
