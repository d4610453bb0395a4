SPECIFICATION Spec
CONSTANTS
    k = k
    x = x
    a = a
    Null = Null
    Deleted = Deleted
    NoOverlay = NoOverlay
    NoTx = NoTx
    Columns <- TwoColumns
    Values <- OneValue
    Schemas <- Evolving
    BatchSizes <- OneOrTwo
    Limits <- OneOrTwo
    U64Max = 2
    MaxDeltas = 2
    MaxTx = 1
INVARIANTS
    LayersTypeOK
    OneVersionPerRow
    IdsBelowMax
    CountsAndNullsAgree
    PagesExact
    HitsExact
    BrowseExact
PROPERTIES
    ImplementsRowStore
