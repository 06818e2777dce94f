CONSTANTS
    Txs = {t1, t2, t3}
    Replicas = {r1, r2}
    Nobody = Nobody
    MaxAttempts = 3
    BatchSize = 2
    HasPassword = TRUE
    Refusable = {t1}
    Rejectable = {t2}
    Faults = {"downtime", "lost_read"}
    MaxPayments = 6
SPECIFICATION Spec
SYMMETRY ReplicaSymmetry
INVARIANTS TypeOK AtMostOnePayment FailedMeansUnpaid
CHECK_DEADLOCK FALSE
