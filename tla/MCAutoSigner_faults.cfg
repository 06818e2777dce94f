CONSTANTS
    Txs = {t1, t2}
    Replicas = {r1, r2}
    Nobody = Nobody
    MaxAttempts = 2
    BatchSize = 2
    HasPassword = TRUE
    Refusable = {t2}
    Rejectable = {t1}
    Faults = {"crash", "lost_reply", "lost_update"}
    MaxPayments = 4
SPECIFICATION FairSpec
INVARIANTS DisjointBatches ClaimsAreFresh PaymentsBounded SubmittedMeansPaid
PROPERTIES RejectedIsFinal EveryRowEnds
CHECK_DEADLOCK FALSE
