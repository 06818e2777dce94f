CONSTANTS
    Txs = {t1}
    Replicas = {r1, r2}
    Nobody = Nobody
    MaxAttempts = 2
    BatchSize = 1
    HasPassword = TRUE
    Refusable = {}
    Rejectable = {}
    Faults = {"slow"}
    MaxPayments = 4
SPECIFICATION Spec
INVARIANTS DisjointBatches
CHECK_DEADLOCK FALSE
