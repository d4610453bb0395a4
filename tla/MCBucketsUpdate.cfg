SPECIFICATION Spec
CONSTANTS
    Buckets = {a, b}
    Workers = {w1, w2}
    Rows = {r1, r2, r3}
    Kinds <- TransferKinds
    MaxEvents = 2
    MaxVersion = 1
    Nobody = Nobody
    Building = Building
SYMMETRY Symmetric
INVARIANTS UpdatesKept
CHECK_DEADLOCK FALSE
