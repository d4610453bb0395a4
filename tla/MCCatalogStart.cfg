SPECIFICATION FairSpec
CONSTANTS
    w1 = w1
    w2 = w2
    w3 = w3
    service = service
    cli = cli
    t1 = t1
    t2 = t2
    t3 = t3
    Workers = {w1, w2}
    Pids = {service}
    PidOf <- OneProcess
    Ops = {"initial", "reindex", "import", "parquet", "read", "vacuum", "recover"}
    Writes = {t1, t2}
    InitGens = {}
    RetainChoices = {0}
    ProtectChoices <- NoProtect
    MaxId = 2
    MaxDamage = 1
    NoOne = NoOne
PROPERTIES InitialImportKeepsDataset CallsReturn
