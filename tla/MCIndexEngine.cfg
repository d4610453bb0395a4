SPECIFICATION Spec
CONSTANTS
    Block = 2
    Word = 2
    Gallop = 1
    Columns = 2
    Card <- MCCard
    Tables <- MCTables
    Layouts <- MCLayouts
    PageRows = 2
    GroupRows = 3
    MaxSort = 2
    DriverBatch = 2
    Requests <- MCRequests
INVARIANTS TypeOK SegmentsHoldTable IndexesExact AnswersExact
PROPERTY StreamsEnd
