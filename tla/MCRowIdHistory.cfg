SPECIFICATION HistorySpec
CONSTANTS
    k = k
    a = a
    Null = Null
    Deleted = Deleted
    NoOverlay = NoOverlay
    NoTx = NoTx
    Columns <- OneColumn
    Values <- OneValue
    Schemas <- OneSchema
    BatchSizes = {1, 2}
    U64Max = 3
    MaxDeltas = 2
    MaxTx = 1
INVARIANTS
    DeletedIdsStayUnused
