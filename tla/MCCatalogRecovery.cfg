SPECIFICATION Spec
CONSTANTS
    w1 = w1
    w2 = w2
    w3 = w3
    service = service
    cli = cli
    t1 = t1
    t2 = t2
    t3 = t3
    Workers = {w1, w2}
    Pids = {service, cli}
    PidOf <- TwoProcesses
    Ops = {"mutate", "recover"}
    Writes = {t1, t2}
    InitGens = {1}
    RetainChoices = {1}
    ProtectChoices <- NoProtect
    MaxId = 3
    MaxDamage = 0
    NoOne = NoOne
PROPERTIES RecoveryActivatesNewest
