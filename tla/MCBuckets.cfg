SPECIFICATION Spec
CONSTANTS
    Buckets = {a, b}
    Workers = {w1, w2}
    Rows = {r1, r2, r3}
    Kinds <- AllKinds
    MaxEvents = 3
    MaxVersion = 0
    Nobody = Nobody
    Building = Building
SYMMETRY Symmetric
INVARIANTS TypeOK RowsKept CopiesAccounted WritersExcludeEachOther
CHECK_DEADLOCK FALSE
