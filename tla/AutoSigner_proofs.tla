-------------------------- MODULE AutoSigner_proofs --------------------------
(***************************************************************************)
(* The auto-signer's claims, for any rows, replicas, batch size and        *)
(* attempts ceiling: types, what is recorded as submitted was paid, and,   *)
(* where no batch outlasts its claims, disjoint batches.                   *)
(***************************************************************************)
EXTENDS AutoSigner, TLAPS

(***************************************************************************)
(* Types                                                                   *)
(***************************************************************************)

(* What SetJob does to the job of every replica and row.                   *)
LEMMA JobSet ==
    ASSUME TypeOK, NEW r \in Replicas, NEW t \in Txs, NEW j \in Job, SetJob(r, t, j)
    PROVE  /\ job' \in [Replicas -> [Txs -> Job]]
           /\ \A q \in Replicas, u \in Txs :
                job'[q][u] = IF q = r /\ u = t THEN j ELSE job[q][u]
BY DEF TypeOK, SetJob

(* Jobs are well typed, and so is each record the actions build.           *)
LEMMA JobsTyped ==
    ASSUME TypeOK
    PROVE  /\ NoJob \in Job
           /\ \A at \in Stage, n \in Nat : [at |-> at, n |-> n] \in Job
           /\ \A r \in Replicas, t \in Txs : job[r][t] \in Job
BY DEF TypeOK, Job, NoJob, Stage

(* TypeOK holds of an empty cluster.                                       *)
LEMMA TypeInit == Init => TypeOK
<1> SUFFICES ASSUME Init PROVE TypeOK
  OBVIOUS
<1>1. NewRow \in Row /\ NoJob \in Job
  BY SignerAssumption DEF NewRow, Row, Status, NoJob, Job, Stage
<1> QED
  BY <1>1 DEF Init, TypeOK

(* Every step of processTx.                                                *)
LEMMA ProcessTyped ==
    ASSUME TypeOK, NEW r \in Replicas, NEW t \in Txs, Process(r, t)
    PROVE  TypeOK'
<1> USE DEF TypeOK
<1>1. CASE Refuse(r, t)
  <2>1. job' \in [Replicas -> [Txs -> Job]]
    BY <1>1, JobSet, JobsTyped DEF Refuse
  <2>2. [row[t] EXCEPT !.status = "pending", !.held = TRUE] \in Row
    BY DEF Row, Status
  <2>3. row' \in [Txs -> Row]
    BY <1>1, <2>2 DEF Refuse
  <2> QED BY <1>1, <2>1, <2>3 DEF Refuse
<1>2. CASE CheckClaim(r, t)
  <2>1. PICK j \in Job : SetJob(r, t, j)
    BY <1>2, JobsTyped DEF CheckClaim, Stage
  <2>2. job' \in [Replicas -> [Txs -> Job]]
    BY <2>1, JobSet
  <2> QED BY <1>2, <2>2 DEF CheckClaim
<1>3. CASE FetchNonceAndSign(r, t)
  <2>1. [at |-> "signed", n |-> nonce] \in Job
    BY JobsTyped DEF Stage
  <2>2. job' \in [Replicas -> [Txs -> Job]]
    BY <1>3, <2>1, JobSet DEF FetchNonceAndSign
  <2> QED BY <1>3, <2>2 DEF FetchNonceAndSign
<1>4. CASE BroadcastAccepted(r, t)
  <2>1. PICK j \in Job : SetJob(r, t, j)
    BY <1>4, JobsTyped DEF BroadcastAccepted, Stage
  <2>2. job' \in [Replicas -> [Txs -> Job]]
    BY <2>1, JobSet
  <2>3. paid' \in [Txs -> Nat] /\ nonce' \in Nat
    BY <1>4 DEF BroadcastAccepted
  <2> QED BY <1>4, <2>2, <2>3 DEF BroadcastAccepted
<1>5. CASE SignOrBroadcastFails(r, t)
  <2>1. [at |-> "failing", n |-> 0] \in Job
    BY JobsTyped DEF Stage
  <2>2. job' \in [Replicas -> [Txs -> Job]]
    BY <1>5, <2>1, JobSet DEF SignOrBroadcastFails
  <2> QED BY <1>5, <2>2 DEF SignOrBroadcastFails
<1>6. CASE RecordHash(r, t)
  <2>1. job' \in [Replicas -> [Txs -> Job]]
    BY <1>6, JobSet, JobsTyped DEF RecordHash
  <2>2. [row[t] EXCEPT !.status = "submitted", !.hash = TRUE] \in Row
    BY DEF Row, Status
  <2>3. row' \in [Txs -> Row]
    BY <1>6, <2>2 DEF RecordHash
  <2> QED BY <1>6, <2>1, <2>3 DEF RecordHash
<1>7. CASE ReadAttempts(r, t)
  <2>1. row[t].attempts + 1 \in Nat
    BY DEF Row
  <2>2. PICK j \in Job : SetJob(r, t, j) /\ j.at # "sent"
    BY <1>7, <2>1, JobsTyped DEF ReadAttempts, Stage
  <2>3. job' \in [Replicas -> [Txs -> Job]]
    BY <1>7, <2>2, JobSet DEF ReadAttempts
  <2> QED BY <1>7, <2>3 DEF ReadAttempts
<1>8. CASE RequeueOrFail(r, t)
  <2>1. job' \in [Replicas -> [Txs -> Job]]
    BY <1>8, JobSet, JobsTyped DEF RequeueOrFail
  <2>2. job[r][t].n \in Nat
    BY DEF Job
  <2>3. /\ [row[t] EXCEPT !.status = "failed", !.attempts = job[r][t].n] \in Row
        /\ [row[t] EXCEPT !.status = "pending", !.held = TRUE,
                           !.attempts = job[r][t].n] \in Row
    BY <2>2 DEF Row, Status
  <2>4. row' \in [Txs -> Row]
    BY <1>8, <2>3 DEF RequeueOrFail
  <2> QED BY <1>8, <2>1, <2>4 DEF RequeueOrFail
<1> QED
  BY <1>1, <1>2, <1>3, <1>4, <1>5, <1>6, <1>7, <1>8 DEF Process

(* Every action keeps TypeOK.                                              *)
LEMMA TypeStep == TypeOK /\ [Next]_vars => TypeOK'
<1> SUFFICES ASSUME TypeOK, [Next]_vars PROVE TypeOK'
  OBVIOUS
<1>1. ASSUME NEW r \in Replicas, ReapStaleClaims(r) PROVE TypeOK'
  <2>1. ASSUME NEW t \in Txs PROVE Reaped(t) \in Row
    <3>1. row[t] \in Row /\ row[t].attempts + 1 \in Nat
      BY DEF TypeOK, Row
    <3>2. (IF row[t].attempts + 1 >= MaxAttempts THEN "failed" ELSE "pending") \in Status
      BY DEF Status
    <3> QED BY <3>1, <3>2 DEF Reaped, Row
  <2> QED BY <1>1, <2>1 DEF ReapStaleClaims, TypeOK
<1>2. ASSUME NEW r \in Replicas, NEW batch \in SUBSET Txs, ClaimBatch(r, batch)
      PROVE  TypeOK'
  <2>1. ASSUME NEW t \in Txs
        PROVE  [row[t] EXCEPT !.status = "approved", !.claim = r, !.stale = FALSE] \in Row
    <3>1. row[t] \in Row
      BY DEF TypeOK
    <3> QED BY <3>1 DEF Row, Status
  <2>2. row' \in [Txs -> Row]
    BY <1>2, <2>1 DEF ClaimBatch, TypeOK
  <2>3. [at |-> "claimed", n |-> 0] \in Job /\ NoJob \in Job
    BY DEF Job, Stage, NoJob
  <2>4. job' \in [Replicas -> [Txs -> Job]]
    BY <1>2, <2>3 DEF ClaimBatch, TypeOK
  <2> QED BY <1>2, <2>2, <2>4 DEF ClaimBatch, TypeOK
<1>3. ASSUME NEW r \in Replicas, Crash(r) PROVE TypeOK'
  BY <1>3, JobsTyped DEF Crash, TypeOK
<1>4. ASSUME NEW t \in Txs,
             RejectTransaction(t) \/ ClaimGoesStale(t) \/ HoldExpires(t) \/ AgesOut(t)
      PROVE  TypeOK'
  <2> DEFINE x == row[t]
  <2>1. /\ [x EXCEPT !.status = "cancelled"] \in Row
        /\ [x EXCEPT !.stale = TRUE] \in Row
        /\ [x EXCEPT !.held = FALSE] \in Row
        /\ [x EXCEPT !.old = TRUE] \in Row
    <3>1. x \in Row
      BY DEF TypeOK
    <3> HIDE DEF x
    <3> QED BY <3>1 DEF Row, Status
  <2>3. row' \in [Txs -> Row]
    BY <1>4, <2>1 DEF TypeOK, RejectTransaction, ClaimGoesStale, HoldExpires, AgesOut
  <2> QED
    BY <1>4, <2>3 DEF TypeOK, RejectTransaction, ClaimGoesStale, HoldExpires, AgesOut
<1>5. CASE UNCHANGED vars
  BY <1>5 DEF TypeOK, vars
<1> QED
  BY <1>1, <1>2, <1>3, <1>4, <1>5, ProcessTyped DEF Next

(* Whatever fails, the table keeps to the statuses its CHECK allows and to *)
(* claims of real replicas.                                                *)
THEOREM TypeCorrect == Spec => []TypeOK
<1> QED BY TypeInit, TypeStep, PTL DEF Spec

(***************************************************************************)
(* Claims                                                                  *)
(***************************************************************************)

(* What is true of one row that replica r is working on.                   *)
Fresh(r, t) ==
    /\ row[t].claim = r /\ ~row[t].stale
    /\ row[t].status \in {"approved", "cancelled"}

(* A step of processTx that leaves the table alone starts no work.         *)
LEMMA OnlyJobs ==
    ASSUME TypeOK, ClaimsAreFresh, UNCHANGED row,
           \A q \in Replicas, u \in Txs : Working(q, u)' => Working(q, u)
    PROVE  ClaimsAreFresh'
BY DEF ClaimsAreFresh

(* A step of processTx that writes the row ends the work on it.            *)
LEMMA WorkEnds ==
    ASSUME TypeOK, ClaimsAreFresh, NEW r \in Replicas, NEW t \in Txs,
           Working(r, t), SetJob(r, t, NoJob),
           \A u \in Txs : u # t => row'[u] = row[u]
    PROVE  ClaimsAreFresh'
<1> SUFFICES ASSUME NEW q \in Replicas, NEW u \in Txs, Working(q, u)'
             PROVE  Fresh(q, u)'
  BY DEF ClaimsAreFresh, Fresh
<1>1. \A p \in Replicas, v \in Txs :
        job'[p][v] = IF p = r /\ v = t THEN NoJob ELSE job[p][v]
  BY JobSet, JobsTyped
<1>2. ~(q = r /\ u = t) /\ Working(q, u)
  BY <1>1 DEF Working
<1>3. u # t
  BY <1>2 DEF ClaimsAreFresh
<1> QED
  BY <1>2, <1>3 DEF ClaimsAreFresh, Fresh

(* Every step of processTx keeps claims fresh.                              *)
LEMMA FreshProcess ==
    ASSUME TypeOK, ClaimsAreFresh, NEW r \in Replicas, NEW t \in Txs, Process(r, t)
    PROVE  ClaimsAreFresh'
<1>1. Working(r, t)
  BY DEF Process, Refuse, CheckClaim, FetchNonceAndSign, BroadcastAccepted,
         SignOrBroadcastFails, RecordHash, ReadAttempts, RequeueOrFail, Working, NoJob
<1>2. ASSUME NEW j \in Job, SetJob(r, t, j), UNCHANGED row
      PROVE  ClaimsAreFresh'
  <2>1. \A q \in Replicas, u \in Txs : Working(q, u)' => Working(q, u)
    BY <1>1, <1>2, JobSet DEF Working
  <2> QED BY <1>2, <2>1, OnlyJobs
<1>3. CASE Refuse(r, t)
  <2>1. \A u \in Txs : u # t => row'[u] = row[u]
    BY <1>3 DEF Refuse, TypeOK
  <2> QED BY <1>1, <1>3, <2>1, WorkEnds DEF Refuse
<1>4. CASE CheckClaim(r, t)
  <2>1. PICK j \in Job : SetJob(r, t, j)
    BY <1>4, JobsTyped DEF CheckClaim, Stage
  <2> QED BY <1>2, <1>4, <2>1 DEF CheckClaim
<1>5. CASE FetchNonceAndSign(r, t)
  <2>1. [at |-> "signed", n |-> nonce] \in Job
    BY JobsTyped DEF Stage, TypeOK
  <2> QED BY <1>2, <1>5, <2>1 DEF FetchNonceAndSign
<1>6. CASE BroadcastAccepted(r, t)
  <2>1. PICK j \in Job : SetJob(r, t, j)
    BY <1>6, JobsTyped DEF BroadcastAccepted, Stage
  <2> QED BY <1>2, <1>6, <2>1 DEF BroadcastAccepted
<1>7. CASE SignOrBroadcastFails(r, t)
  <2>1. [at |-> "failing", n |-> 0] \in Job
    BY JobsTyped DEF Stage
  <2> QED BY <1>2, <1>7, <2>1 DEF SignOrBroadcastFails
<1>8. CASE RecordHash(r, t)
  <2>1. \A u \in Txs : u # t => row'[u] = row[u]
    BY <1>8 DEF RecordHash, TypeOK
  <2> QED BY <1>1, <1>8, <2>1, WorkEnds DEF RecordHash
<1>9. CASE ReadAttempts(r, t)
  <2>1. row[t].attempts + 1 \in Nat
    BY DEF TypeOK, Row
  <2>2. PICK j \in Job : SetJob(r, t, j) /\ j.at # "sent"
    BY <1>9, <2>1, JobsTyped DEF ReadAttempts, Stage
  <2> QED BY <1>2, <1>9, <2>2 DEF ReadAttempts
<1>10. CASE RequeueOrFail(r, t)
  <2>1. \A u \in Txs : u # t => row'[u] = row[u]
    BY <1>10 DEF RequeueOrFail, TypeOK
  <2> QED BY <1>1, <1>10, <2>1, WorkEnds DEF RequeueOrFail
<1> QED
  BY <1>3, <1>4, <1>5, <1>6, <1>7, <1>8, <1>9, <1>10 DEF Process

(* The table moves while replicas work: reaping takes only stale claims,   *)
(* a batch takes only rows nobody works on, and a claim goes stale only    *)
(* when the work is over, unless replicas may be slow.                     *)
LEMMA FreshStep ==
    ASSUME "slow" \notin Faults, TypeOK, TypeOK', ClaimsAreFresh, [Next]_vars
    PROVE  ClaimsAreFresh'
<1>1. ASSUME NEW r \in Replicas, ReapStaleClaims(r) PROVE ClaimsAreFresh'
  <2>1. ASSUME NEW q \in Replicas, NEW u \in Txs, Working(q, u) PROVE row'[u] = row[u]
    BY <1>1, <2>1 DEF ReapStaleClaims, Reapable, ClaimsAreFresh
  <2> QED BY <1>1, <2>1 DEF ReapStaleClaims, ClaimsAreFresh, Working
<1>2. ASSUME NEW r \in Replicas, NEW batch \in SUBSET Txs, ClaimBatch(r, batch)
      PROVE  ClaimsAreFresh'
  <2> SUFFICES ASSUME NEW q \in Replicas, NEW u \in Txs, Working(q, u)'
               PROVE  Fresh(q, u)'
    BY DEF ClaimsAreFresh, Fresh
  <2>1. \A v \in batch : \A p \in Replicas : ~Working(p, v)
    BY <1>2 DEF ClaimBatch, Claimable, ClaimsAreFresh
  <2>2. CASE q = r
    <3>1. u \in batch
      BY <1>2, <2>2 DEF ClaimBatch, Working, TypeOK
    <3>2. row[u] \in Row /\
          row'[u] = [row[u] EXCEPT !.status = "approved", !.claim = r, !.stale = FALSE]
      BY <1>2, <3>1 DEF ClaimBatch, TypeOK
    <3> QED BY <2>2, <3>2 DEF Fresh, Row
  <2>3. CASE q # r
    <3>1. Working(q, u)
      BY <1>2, <2>3 DEF ClaimBatch, Working, TypeOK
    <3>2. u \notin batch
      BY <2>1, <3>1
    <3>3. row'[u] = row[u]
      BY <1>2, <3>2 DEF ClaimBatch
    <3> QED BY <3>1, <3>3 DEF ClaimsAreFresh, Fresh
  <2> QED BY <2>2, <2>3
<1>3. ASSUME NEW r \in Replicas, Crash(r) PROVE ClaimsAreFresh'
  <2>1. \A q \in Replicas, u \in Txs : Working(q, u)' => Working(q, u)
    BY <1>3 DEF Crash, Working, TypeOK
  <2> QED BY <1>3, <2>1, OnlyJobs DEF Crash
<1>4. ASSUME NEW t \in Txs,
             RejectTransaction(t) \/ ClaimGoesStale(t) \/ HoldExpires(t) \/ AgesOut(t)
      PROVE  ClaimsAreFresh'
  <2> SUFFICES ASSUME NEW q \in Replicas, NEW u \in Txs, Working(q, u)'
               PROVE  Fresh(q, u)'
    BY DEF ClaimsAreFresh, Fresh
  <2>1. Working(q, u)
    BY <1>4 DEF RejectTransaction, ClaimGoesStale, HoldExpires, AgesOut, Working
  <2>2. Fresh(q, u)
    BY <2>1 DEF ClaimsAreFresh, Fresh
  <2>3. row \in [Txs -> Row] /\ row[u] \in Row
    BY DEF TypeOK
  <2>4. CASE RejectTransaction(t)
    BY <2>2, <2>3, <2>4 DEF RejectTransaction, Fresh, Row
  <2>5. CASE ClaimGoesStale(t)
    <3>1. u # t
      BY <2>1, <2>5 DEF ClaimGoesStale, Working
    <3> QED BY <2>2, <2>3, <2>5, <3>1 DEF ClaimGoesStale, Fresh
  <2>6. CASE HoldExpires(t)
    BY <2>2, <2>3, <2>6 DEF HoldExpires, Fresh, Row
  <2>7. CASE AgesOut(t)
    BY <2>2, <2>3, <2>7 DEF AgesOut, Fresh, Row
  <2> QED BY <1>4, <2>4, <2>5, <2>6, <2>7
<1>5. CASE UNCHANGED vars
  BY <1>5 DEF vars, ClaimsAreFresh, Working
<1> QED
  BY <1>1, <1>2, <1>3, <1>4, <1>5, FreshProcess DEF Next

(* Nobody works on anything at first.                                      *)
LEMMA FreshInit == Init => ClaimsAreFresh
BY DEF Init, ClaimsAreFresh, Working, NoJob

(* If every batch is done before its claims are three minutes old, a       *)
(* replica works only on rows that carry its own fresh claim, whatever     *)
(* crashes, lost answers, lost updates, rejections and restarts there are. *)
THEOREM FreshClaims == "slow" \notin Faults => (Spec => []ClaimsAreFresh)
<1> SUFFICES ASSUME "slow" \notin Faults PROVE Spec => []ClaimsAreFresh
  OBVIOUS
<1>1. TypeOK /\ TypeOK' /\ ClaimsAreFresh /\ [Next]_vars => ClaimsAreFresh'
  BY FreshStep
<1> QED
  BY <1>1, FreshInit, TypeCorrect, PTL DEF Spec

(* "Two replicas never process the same transaction" (docs/CLUSTER.md:35), *)
(* under the same condition, which the code does not enforce.              *)
THEOREM Disjoint == "slow" \notin Faults => (Spec => []DisjointBatches)
<1> SUFFICES ASSUME "slow" \notin Faults PROVE Spec => []DisjointBatches
  OBVIOUS
<1>1. ClaimsAreFresh => DisjointBatches
  BY DEF ClaimsAreFresh, DisjointBatches
<1> QED
  BY <1>1, FreshClaims, PTL

(***************************************************************************)
(* What is recorded as submitted was paid                                  *)
(***************************************************************************)

(* The strengthening: a replica about to record a hash holds the answer of *)
(* a node that took the payment.                                           *)
SentMeansPaid ==
    \A r \in Replicas, t \in Txs : job[r][t].at = "sent" => paid[t] > 0

PaidInv == SentMeansPaid /\ SubmittedMeansPaid

(* Nothing is recorded, and nobody is about to record, at first.           *)
LEMMA PaidInit == Init => PaidInv
BY DEF Init, PaidInv, SentMeansPaid, SubmittedMeansPaid, NoJob, NewRow

(* Nothing takes a payment back, so a step keeps PaidInv if each row it    *)
(* marks, and each job it moves to "sent", has its payment.                *)
LEMMA PaidKept ==
    ASSUME TypeOK, TypeOK', PaidInv,
           \A t \in Txs : paid'[t] >= paid[t],
           \A r \in Replicas, t \in Txs :
              job'[r][t].at = "sent" => job[r][t].at = "sent" \/ paid'[t] > 0,
           \A t \in Txs : row'[t].status = "submitted" \/ row'[t].hash =>
              row[t].status = "submitted" \/ row[t].hash \/ paid'[t] > 0
    PROVE  PaidInv'
<1>1. \A t \in Txs : paid[t] > 0 => paid'[t] > 0
  BY DEF TypeOK
<1> QED
  BY <1>1 DEF PaidInv, SentMeansPaid, SubmittedMeansPaid

(* A step of processTx records a hash only from an accepted broadcast.     *)
LEMMA PaidProcess ==
    ASSUME TypeOK, TypeOK', PaidInv, NEW r \in Replicas, NEW t \in Txs, Process(r, t)
    PROVE  PaidInv'
<1>1. ASSUME UNCHANGED paid PROVE \A u \in Txs : paid'[u] >= paid[u]
  BY <1>1 DEF TypeOK
<1>2. ASSUME NEW j \in Job, SetJob(r, t, j), j.at # "sent",
             NEW q \in Replicas, NEW u \in Txs, job'[q][u].at = "sent"
      PROVE  job[q][u].at = "sent"
  BY <1>2, JobSet
<1>3. NoJob \in Job /\ NoJob.at # "sent"
  BY JobsTyped DEF NoJob
<1>4. CASE Refuse(r, t)
  <2>1. \A u \in Txs : row'[u].status = "submitted" \/ row'[u].hash =>
                         row[u].status = "submitted" \/ row[u].hash
    <3>1. row \in [Txs -> Row] /\ row[t] \in Row
      BY DEF TypeOK
    <3>2. \A u \in Txs : u # t => row'[u] = row[u]
      BY <1>4, <3>1 DEF Refuse
    <3>3. \/ row'[t] = row[t]
          \/ row'[t] = [row[t] EXCEPT !.status = "pending", !.held = TRUE]
      BY <1>4, <3>1 DEF Refuse
    <3>4. \/ row'[t] = row[t]
          \/ row'[t].status # "submitted" /\ row'[t].hash = row[t].hash
      BY <3>1, <3>3 DEF Row
    <3> QED BY <3>2, <3>4
  <2> QED BY <1>1, <1>2, <1>3, <1>4, <2>1, PaidKept DEF Refuse
<1>5. CASE CheckClaim(r, t)
  <2>1. PICK j \in Job : SetJob(r, t, j) /\ j.at # "sent"
    BY <1>3, <1>5, JobsTyped DEF CheckClaim, Stage
  <2> QED BY <1>1, <1>2, <1>5, <2>1, PaidKept DEF CheckClaim
<1>6. CASE FetchNonceAndSign(r, t)
  <2>1. [at |-> "signed", n |-> nonce] \in Job
    BY JobsTyped DEF Stage, TypeOK
  <2> QED BY <1>1, <1>2, <1>6, <2>1, PaidKept DEF FetchNonceAndSign
<1>7. CASE BroadcastAccepted(r, t)
  <2>1. PICK j \in Job : SetJob(r, t, j)
    BY <1>7, JobsTyped DEF BroadcastAccepted, Stage
  <2>2. /\ \A u \in Txs : paid'[u] >= paid[u]
        /\ paid'[t] > 0
    BY <1>7 DEF BroadcastAccepted, TypeOK
  <2>3. ASSUME NEW q \in Replicas, NEW u \in Txs, job'[q][u].at = "sent"
        PROVE  job[q][u].at = "sent" \/ paid'[u] > 0
    BY <2>1, <2>2, <2>3, JobSet
  <2> QED BY <1>7, <2>2, <2>3, PaidKept DEF BroadcastAccepted
<1>8. CASE SignOrBroadcastFails(r, t)
  <2>1. [at |-> "failing", n |-> 0] \in Job
    BY JobsTyped DEF Stage
  <2> QED BY <1>1, <1>2, <1>8, <2>1, PaidKept DEF SignOrBroadcastFails
<1>9. CASE RecordHash(r, t)
  <2>1. paid[t] > 0 /\ UNCHANGED paid
    BY <1>9 DEF RecordHash, PaidInv, SentMeansPaid
  <2>2. \A u \in Txs : u # t => row'[u] = row[u]
    BY <1>9 DEF RecordHash, TypeOK
  <2> QED BY <1>1, <1>2, <1>3, <1>9, <2>1, <2>2, PaidKept DEF RecordHash
<1>10. CASE ReadAttempts(r, t)
  <2>1. row[t].attempts + 1 \in Nat
    BY DEF TypeOK, Row
  <2>2. PICK j \in Job : SetJob(r, t, j) /\ j.at # "sent"
    BY <1>10, <2>1, JobsTyped DEF ReadAttempts, Stage
  <2> QED BY <1>1, <1>2, <1>10, <2>2, PaidKept DEF ReadAttempts
<1>11. CASE RequeueOrFail(r, t)
  <2>1. \A u \in Txs : row'[u].status = "submitted" \/ row'[u].hash =>
                         row[u].status = "submitted" \/ row[u].hash
    <3>1. row \in [Txs -> Row] /\ row[t] \in Row
      BY DEF TypeOK
    <3>2. \A u \in Txs : u # t => row'[u] = row[u]
      BY <1>11, <3>1 DEF RequeueOrFail
    <3>3. \/ row'[t] = row[t]
          \/ row'[t] = [row[t] EXCEPT !.status = "failed", !.attempts = job[r][t].n]
          \/ row'[t] = [row[t] EXCEPT !.status = "pending", !.held = TRUE,
                                      !.attempts = job[r][t].n]
      BY <1>11, <3>1 DEF RequeueOrFail
    <3>4. \/ row'[t] = row[t]
          \/ row'[t].status # "submitted" /\ row'[t].hash = row[t].hash
      BY <3>1, <3>3 DEF Row
    <3> QED BY <3>2, <3>4
  <2> QED BY <1>1, <1>2, <1>3, <1>11, <2>1, PaidKept DEF RequeueOrFail
<1> QED
  BY <1>4, <1>5, <1>6, <1>7, <1>8, <1>9, <1>10, <1>11 DEF Process

(* Every action keeps PaidInv.                                             *)
LEMMA PaidStep == TypeOK /\ TypeOK' /\ PaidInv /\ [Next]_vars => PaidInv'
<1> SUFFICES ASSUME TypeOK, TypeOK', PaidInv, [Next]_vars PROVE PaidInv'
  OBVIOUS
<1>1. ASSUME UNCHANGED paid,
             \A r \in Replicas, t \in Txs :
                job'[r][t].at = "sent" => job[r][t].at = "sent",
             \A t \in Txs : row'[t].status = "submitted" \/ row'[t].hash =>
                row[t].status = "submitted" \/ row[t].hash
      PROVE  PaidInv'
  <2>1. \A t \in Txs : paid'[t] >= paid[t]
    BY <1>1 DEF TypeOK
  <2> QED BY <1>1, <2>1, PaidKept
<1>2. ASSUME NEW r \in Replicas, ReapStaleClaims(r) PROVE PaidInv'
  <2>1. ASSUME NEW t \in Txs, row'[t].status = "submitted" \/ row'[t].hash
        PROVE  row[t].status = "submitted" \/ row[t].hash
    <3>1. row'[t] = IF Reapable(t) THEN Reaped(t) ELSE row[t]
      BY <1>2 DEF ReapStaleClaims
    <3>2. row[t] \in Row
      BY DEF TypeOK
    <3>3. Reaped(t).hash = row[t].hash /\ Reaped(t).status # "submitted"
      BY <3>2 DEF Reaped, Row
    <3> QED BY <2>1, <3>1, <3>3
  <2> QED BY <1>1, <1>2, <2>1 DEF ReapStaleClaims
<1>3. ASSUME NEW r \in Replicas, NEW batch \in SUBSET Txs, ClaimBatch(r, batch)
      PROVE  PaidInv'
  <2>1. ASSUME NEW t \in Txs, row'[t].status = "submitted" \/ row'[t].hash
        PROVE  row[t].status = "submitted" \/ row[t].hash
    <3>1. row'[t] = IF t \in batch
                    THEN [row[t] EXCEPT !.status = "approved", !.claim = r, !.stale = FALSE]
                    ELSE row[t]
      BY <1>3 DEF ClaimBatch
    <3>2. row[t] \in Row
      BY DEF TypeOK
    <3> QED BY <2>1, <3>1, <3>2 DEF Row
  <2>2. \A q \in Replicas, t \in Txs : job'[q][t].at = "sent" => job[q][t].at = "sent"
    BY <1>3 DEF ClaimBatch, TypeOK, NoJob
  <2> QED BY <1>1, <1>3, <2>1, <2>2 DEF ClaimBatch
<1>4. ASSUME NEW r \in Replicas, Crash(r) PROVE PaidInv'
  <2>1. \A q \in Replicas, t \in Txs : job'[q][t].at = "sent" => job[q][t].at = "sent"
    BY <1>4 DEF Crash, TypeOK, NoJob
  <2> QED BY <1>1, <1>4, <2>1 DEF Crash
<1>5. ASSUME NEW t \in Txs,
             RejectTransaction(t) \/ ClaimGoesStale(t) \/ HoldExpires(t) \/ AgesOut(t)
      PROVE  PaidInv'
  <2>1. UNCHANGED <<job, paid>>
    BY <1>5 DEF RejectTransaction, ClaimGoesStale, HoldExpires, AgesOut
  <2>2. ASSUME NEW u \in Txs, row'[u].status = "submitted" \/ row'[u].hash
        PROVE  row[u].status = "submitted" \/ row[u].hash
    <3>1. row \in [Txs -> Row] /\ row[u] \in Row
      BY DEF TypeOK
    <3> QED BY <1>5, <2>2, <3>1
            DEF RejectTransaction, ClaimGoesStale, HoldExpires, AgesOut, Row
  <2> QED BY <1>1, <2>1, <2>2
<1>6. CASE UNCHANGED vars
  BY <1>1, <1>6 DEF vars
<1> QED
  BY <1>2, <1>3, <1>4, <1>5, <1>6, PaidProcess DEF Next

(* A row is submitted, or carries a hash, only if the chain took a payment *)
(* for it, also where replicas share rows and write over each other.       *)
THEOREM SubmittedPaid == Spec => []SubmittedMeansPaid
<1>1. PaidInv => SubmittedMeansPaid
  BY DEF PaidInv
<1> QED
  BY <1>1, PaidInit, PaidStep, TypeCorrect, PTL DEF Spec

(***************************************************************************)
(* What a step does to one row, its jobs and its payments                  *)
(***************************************************************************)

Same(t) == row'[t] = row[t]

Writes(t, status, hash, attempts) ==
    row'[t].status = status /\ row'[t].hash = hash /\ row'[t].attempts = attempts

(* A step of processTx by replica r: one line for each action, or for what *)
(* two of them have in common.                                             *)
Processed(r, t) ==
    /\ \A q \in Replicas : q # r => job'[q][t] = job[q][t]
    /\ \/ /\ job[r][t].at = "claimed" /\ job'[r][t] = NoJob /\ paid'[t] = paid[t]
          /\ \/ Same(t)
             \/ row[t].status = "approved"
                /\ Writes(t, "pending", row[t].hash, row[t].attempts)
       \/ /\ job[r][t].at = "claimed" /\ job'[r][t].at = "checked"
          /\ paid'[t] = paid[t] /\ Same(t)
       \/ /\ job[r][t].at = "checked" /\ job'[r][t].at = "signed"
          /\ paid'[t] = paid[t] /\ Same(t)
       \/ /\ job[r][t].at = "signed" /\ paid'[t] = paid[t] + 1 /\ Same(t)
          /\ \/ job'[r][t].at = "sent"
             \/ job'[r][t].at = "failing" /\ "lost_reply" \in Faults
       \/ /\ job[r][t].at \in {"checked", "signed"} /\ job'[r][t].at = "failing"
          /\ paid'[t] = paid[t] /\ Same(t)
       \/ /\ job[r][t].at = "sent" /\ job'[r][t] = NoJob /\ paid'[t] = paid[t]
          /\ \/ Writes(t, "submitted", TRUE, row[t].attempts)
             \/ Same(t) /\ "lost_update" \in Faults
       \/ /\ job[r][t].at = "failing" /\ job'[r][t].at = "requeue"
          /\ paid'[t] = paid[t] /\ Same(t)
          /\ job'[r][t].n = row[t].attempts + 1 \/ "lost_read" \in Faults
       \/ /\ job[r][t].at = "requeue" /\ job'[r][t] = NoJob /\ paid'[t] = paid[t]
          /\ \/ Same(t)
             \/ Writes(t, IF job[r][t].n >= MaxAttempts THEN "failed" ELSE "pending",
                       row[t].hash, job[r][t].n)

(* Any other step, and processTx of another row: the row rests or is       *)
(* rejected, is reaped, is claimed, or loses its replica.                  *)
Elsewhere(t) ==
    /\ paid'[t] = paid[t]
    /\ \/ /\ \A q \in Replicas : job'[q][t] = job[q][t]
          /\ \/ Writes(t, row[t].status, row[t].hash, row[t].attempts)
             \/ Writes(t, "cancelled", row[t].hash, row[t].attempts)
       \/ /\ \A q \in Replicas : job'[q][t] = job[q][t]
          /\ row[t].status = "approved" /\ ~row[t].hash /\ row[t].stale
          /\ Writes(t, IF row[t].attempts + 1 >= MaxAttempts THEN "failed" ELSE "pending",
                    FALSE, row[t].attempts + 1)
       \/ /\ row[t].status = "pending" /\ ~row[t].hash /\ row[t].attempts < MaxAttempts
          /\ Writes(t, "approved", FALSE, row[t].attempts)
          /\ \E r \in Replicas :
               /\ job'[r][t].at = "claimed"
               /\ \A q \in Replicas : q # r => job'[q][t] = job[q][t]
       \/ /\ Same(t) /\ "crash" \in Faults
          /\ \A q \in Replicas : job'[q][t] \in {job[q][t], NoJob}

(* A step of processTx by r on t.                                          *)
LEMMA ProcessOne ==
    ASSUME TypeOK, NEW r \in Replicas, NEW t \in Txs, Process(r, t)
    PROVE  Processed(r, t) /\ \A u \in Txs : u # t => Elsewhere(u)
<1>1. ASSUME NEW j \in Job, SetJob(r, t, j),
             \A u \in Txs : u # t => Same(u) /\ paid'[u] = paid[u]
      PROVE  /\ job'[r][t] = j
             /\ \A q \in Replicas : q # r => job'[q][t] = job[q][t]
             /\ \A u \in Txs : u # t => Elsewhere(u)
  <2>1. \A q \in Replicas, u \in Txs : job'[q][u] = IF q = r /\ u = t THEN j ELSE job[q][u]
    BY <1>1, JobSet
  <2> QED BY <1>1, <2>1 DEF Elsewhere, Same, Writes
<1>2. NoJob \in Job /\ row[t] \in Row /\ row \in [Txs -> Row]
  BY JobsTyped DEF TypeOK
<1>3. CASE Refuse(r, t)
  <2>1. SetJob(r, t, NoJob) /\ UNCHANGED paid /\ job[r][t].at = "claimed"
    BY <1>3 DEF Refuse
  <2>2. \A u \in Txs : u # t => Same(u)
    BY <1>2, <1>3 DEF Refuse, Same
  <2>3. \/ Same(t)
        \/ row[t].status = "approved" /\ Writes(t, "pending", row[t].hash, row[t].attempts)
    <3>1. ASSUME row' = [row EXCEPT ![t] = [row[t] EXCEPT !.status = "pending",
                                                          !.held = TRUE]]
          PROVE  Writes(t, "pending", row[t].hash, row[t].attempts)
      <4>1. row'[t] = [row[t] EXCEPT !.status = "pending", !.held = TRUE]
        BY <1>2, <3>1
      <4> QED BY <1>2, <4>1 DEF Writes, Row
    <3> QED BY <1>3, <3>1 DEF Refuse, Same
  <2> QED BY <1>1, <1>2, <2>1, <2>2, <2>3 DEF Processed
<1>4. CASE CheckClaim(r, t)
  <2>1. UNCHANGED <<row, paid>> /\ job[r][t].at = "claimed"
    BY <1>4 DEF CheckClaim
  <2>2. \/ SetJob(r, t, NoJob)
        \/ SetJob(r, t, [at |-> "checked", n |-> 0])
    BY <1>4 DEF CheckClaim
  <2>3. [at |-> "checked", n |-> 0] \in Job
    BY JobsTyped DEF Stage
  <2> QED BY <1>1, <1>2, <2>1, <2>2, <2>3 DEF Processed, Same
<1>5. CASE FetchNonceAndSign(r, t)
  <2>1. [at |-> "signed", n |-> nonce] \in Job
    BY JobsTyped DEF Stage, TypeOK
  <2> QED BY <1>1, <1>5, <2>1 DEF FetchNonceAndSign, Processed, Same
<1>6. CASE BroadcastAccepted(r, t)
  <2>1. /\ UNCHANGED row /\ job[r][t].at = "signed" /\ paid'[t] = paid[t] + 1
        /\ \A u \in Txs : u # t => paid'[u] = paid[u]
    BY <1>6 DEF BroadcastAccepted, TypeOK
  <2>2. \/ SetJob(r, t, [at |-> "sent", n |-> 0])
        \/ SetJob(r, t, [at |-> "failing", n |-> 0]) /\ "lost_reply" \in Faults
    BY <1>6 DEF BroadcastAccepted
  <2>3. [at |-> "sent", n |-> 0] \in Job /\ [at |-> "failing", n |-> 0] \in Job
    BY JobsTyped DEF Stage
  <2> QED BY <1>1, <2>1, <2>2, <2>3 DEF Processed, Same
<1>7. CASE SignOrBroadcastFails(r, t)
  <2>1. [at |-> "failing", n |-> 0] \in Job
    BY JobsTyped DEF Stage
  <2>2. /\ UNCHANGED <<row, paid>> /\ job[r][t].at \in {"checked", "signed"}
        /\ SetJob(r, t, [at |-> "failing", n |-> 0])
    BY <1>7 DEF SignOrBroadcastFails
  <2>3. /\ job'[r][t].at = "failing" /\ \A u \in Txs : u # t => Elsewhere(u)
        /\ \A q \in Replicas : q # r => job'[q][t] = job[q][t]
    BY <1>1, <2>1, <2>2 DEF Same
  <2> QED BY <2>2, <2>3 DEF Processed, Same
<1>8. CASE RecordHash(r, t)
  <2>1. SetJob(r, t, NoJob) /\ UNCHANGED paid /\ job[r][t].at = "sent"
    BY <1>8 DEF RecordHash
  <2>2. \A u \in Txs : u # t => Same(u)
    BY <1>2, <1>8 DEF RecordHash, Same
  <2>3. \/ Writes(t, "submitted", TRUE, row[t].attempts)
        \/ Same(t) /\ "lost_update" \in Faults
    <3>1. ASSUME row' = [row EXCEPT ![t] = [row[t] EXCEPT !.status = "submitted",
                                                          !.hash = TRUE]]
          PROVE  Writes(t, "submitted", TRUE, row[t].attempts)
      <4>1. row'[t] = [row[t] EXCEPT !.status = "submitted", !.hash = TRUE]
        BY <1>2, <3>1
      <4> QED BY <1>2, <4>1 DEF Writes, Row
    <3> QED BY <1>8, <3>1 DEF RecordHash, Same
  <2> QED BY <1>1, <1>2, <2>1, <2>2, <2>3 DEF Processed
<1>9. CASE ReadAttempts(r, t)
  <2>1. row[t].attempts + 1 \in Nat
    BY <1>2 DEF Row
  <2>2. [at |-> "requeue", n |-> row[t].attempts + 1] \in Job
        /\ [at |-> "requeue", n |-> 1] \in Job
    BY <2>1, JobsTyped DEF Stage
  <2>3. UNCHANGED <<row, paid>> /\ job[r][t].at = "failing"
    BY <1>9 DEF ReadAttempts
  <2>4. \/ SetJob(r, t, [at |-> "requeue", n |-> row[t].attempts + 1])
        \/ SetJob(r, t, [at |-> "requeue", n |-> 1]) /\ "lost_read" \in Faults
    BY <1>9 DEF ReadAttempts
  <2> QED BY <1>1, <2>2, <2>3, <2>4 DEF Processed, Same
<1>10. CASE RequeueOrFail(r, t)
  <2>1. SetJob(r, t, NoJob) /\ UNCHANGED paid /\ job[r][t].at = "requeue"
    BY <1>10 DEF RequeueOrFail
  <2>2. \A u \in Txs : u # t => Same(u)
    BY <1>2, <1>10 DEF RequeueOrFail, Same
  <2>3. \/ Same(t)
        \/ Writes(t, IF job[r][t].n >= MaxAttempts THEN "failed" ELSE "pending",
                  row[t].hash, job[r][t].n)
    <3> DEFINE n == job[r][t].n
    <3>1. n \in Nat /\ MaxAttempts \in Nat
      BY JobsTyped, SignerAssumption DEF Job
    <3> HIDE DEF n
    <3>2. \/ Same(t)
          \/ n >= MaxAttempts /\ Writes(t, "failed", row[t].hash, n)
          \/ n < MaxAttempts /\ Writes(t, "pending", row[t].hash, n)
      <4>1. ASSUME row' = [row EXCEPT ![t] = [row[t] EXCEPT !.status = "failed",
                                                            !.attempts = n]]
            PROVE  Writes(t, "failed", row[t].hash, n)
        <5>1. row'[t] = [row[t] EXCEPT !.status = "failed", !.attempts = n]
          BY <1>2, <4>1
        <5> QED BY <1>2, <5>1 DEF Writes, Row
      <4>2. ASSUME row' = [row EXCEPT ![t] = [row[t] EXCEPT !.status = "pending",
                                                            !.held = TRUE,
                                                            !.attempts = n]]
            PROVE  Writes(t, "pending", row[t].hash, n)
        <5>1. row'[t] = [row[t] EXCEPT !.status = "pending", !.held = TRUE, !.attempts = n]
          BY <1>2, <4>2
        <5> QED BY <1>2, <5>1 DEF Writes, Row
      <4> QED BY <1>10, <4>1, <4>2 DEF RequeueOrFail, Same, n
    <3> QED BY <3>1, <3>2 DEF n
  <2> QED BY <1>1, <1>2, <2>1, <2>2, <2>3 DEF Processed
<1> QED
  BY <1>3, <1>4, <1>5, <1>6, <1>7, <1>8, <1>9, <1>10 DEF Process

(* Every step, seen from one row.                                          *)
LEMMA RowStep ==
    ASSUME TypeOK, [Next]_vars, NEW t \in Txs
    PROVE  Elsewhere(t) \/ \E r \in Replicas : Process(r, t) /\ Processed(r, t)
<1>1. row[t] \in Row
  BY DEF TypeOK
<1>2. ASSUME NEW r \in Replicas, ReapStaleClaims(r) PROVE Elsewhere(t)
  <2>1. row'[t] = IF Reapable(t) THEN Reaped(t) ELSE row[t]
    BY <1>2 DEF ReapStaleClaims
  <2>2. CASE Reapable(t)
    <3>1. row[t].attempts + 1 \in Nat /\ ~row[t].hash
      BY <1>1, <2>2 DEF Row, Reapable
    <3>2. Writes(t, IF row[t].attempts + 1 >= MaxAttempts THEN "failed" ELSE "pending",
                 row[t].hash, row[t].attempts + 1)
      BY <1>1, <2>1, <2>2 DEF Reaped, Row, Writes
    <3>3. row[t].hash = FALSE
      BY <1>1, <3>1 DEF Row
    <3> QED BY <1>2, <2>2, <3>2, <3>3 DEF Elsewhere, ReapStaleClaims, Reapable
  <2>3. CASE ~Reapable(t)
    BY <1>2, <2>1, <2>3 DEF Elsewhere, ReapStaleClaims, Writes
  <2> QED BY <2>2, <2>3
<1>3. ASSUME NEW r \in Replicas, NEW batch \in SUBSET Txs, ClaimBatch(r, batch)
      PROVE  Elsewhere(t)
  <2>1. \A q \in Replicas : q # r => job'[q][t] = job[q][t]
    BY <1>3 DEF ClaimBatch, TypeOK
  <2>2. CASE t \in batch
    <3>1. row'[t] = [row[t] EXCEPT !.status = "approved", !.claim = r, !.stale = FALSE]
      BY <1>3, <2>2 DEF ClaimBatch
    <3>2. Claimable(t) /\ row[t].hash = FALSE
      BY <1>1, <1>3, <2>2 DEF ClaimBatch, Claimable, Row
    <3>3. Writes(t, "approved", FALSE, row[t].attempts)
      BY <1>1, <3>1, <3>2 DEF Writes, Row
    <3>4. job'[r][t].at = "claimed"
      BY <1>3, <2>2 DEF ClaimBatch, TypeOK
    <3> QED BY <1>3, <2>1, <3>2, <3>3, <3>4 DEF Elsewhere, Claimable, ClaimBatch
  <2>3. CASE t \notin batch
    <3>1. job'[r][t] = job[r][t] /\ Same(t)
      BY <1>3, <2>3 DEF ClaimBatch, Polling, TypeOK, Same
    <3> QED BY <1>3, <2>1, <3>1 DEF Elsewhere, ClaimBatch, Same, Writes
  <2> QED BY <2>2, <2>3
<1>4. ASSUME NEW r \in Replicas, Crash(r) PROVE Elsewhere(t)
  <2>1. \A q \in Replicas : job'[q][t] \in {job[q][t], NoJob}
    BY <1>4 DEF Crash, TypeOK
  <2> QED BY <1>4, <2>1 DEF Crash, Elsewhere, Same
<1>5. ASSUME NEW u \in Txs,
             RejectTransaction(u) \/ ClaimGoesStale(u) \/ HoldExpires(u) \/ AgesOut(u)
      PROVE  Elsewhere(t)
  <2>1. UNCHANGED <<job, paid>>
    BY <1>5 DEF RejectTransaction, ClaimGoesStale, HoldExpires, AgesOut
  <2>3. \/ Writes(t, row[t].status, row[t].hash, row[t].attempts)
        \/ Writes(t, "cancelled", row[t].hash, row[t].attempts)
    <3>1. row \in [Txs -> Row]
      BY DEF TypeOK
    <3>2. CASE RejectTransaction(u)
      BY <1>1, <3>1, <3>2 DEF RejectTransaction, Writes, Row
    <3>3. CASE ClaimGoesStale(u)
      BY <1>1, <3>1, <3>3 DEF ClaimGoesStale, Writes, Row
    <3>4. CASE HoldExpires(u)
      BY <1>1, <3>1, <3>4 DEF HoldExpires, Writes, Row
    <3>5. CASE AgesOut(u)
      BY <1>1, <3>1, <3>5 DEF AgesOut, Writes, Row
    <3> QED BY <1>5, <3>2, <3>3, <3>4, <3>5
  <2> QED BY <2>1, <2>3 DEF Elsewhere
<1>6. CASE UNCHANGED vars
  BY <1>6 DEF vars, Elsewhere, Writes
<1>7. ASSUME NEW r \in Replicas, NEW u \in Txs, Process(r, u)
      PROVE  Elsewhere(t) \/ \E q \in Replicas : Process(q, t) /\ Processed(q, t)
  BY <1>7, ProcessOne
<1> QED
  BY <1>2, <1>3, <1>4, <1>5, <1>6, <1>7 DEF Next

(* The replica was working on the row.                                     *)
LEMMA ProcessedWorks ==
    ASSUME NEW t \in Txs, NEW r \in Replicas, Processed(r, t)
    PROVE  Working(r, t)
<1>1. job[r][t].at \in {"claimed", "checked", "signed", "sent", "failing", "requeue"}
  <2> DEFINE m == job[r][t].at
  <2>1. \/ m = "claimed" \/ m = "checked" \/ m = "signed"
        \/ m = "sent" \/ m = "failing" \/ m = "requeue"
    <3> HIDE DEF m
    <3> QED BY DEF Processed, m
  <2> QED BY <2>1
<1>2. NoJob.at = "none"
  BY DEF NoJob
<1> QED BY <1>1, <1>2 DEF Working

(***************************************************************************)
(* A rejection of an idle row is final                                     *)
(***************************************************************************)

(* Whatever the step, a cancelled row in nobody's hands rests: the reaper  *)
(* wants 'approved', a claim 'pending', and processTx a batch.             *)
LEMMA RejectedStep ==
    ASSUME TypeOK, [Next]_vars, NEW t \in Txs, Rejected(t)
    PROVE  Rejected(t)' /\ paid'[t] = paid[t]
<1>1. row[t].status = "cancelled" /\ \A r \in Replicas : job[r][t] = NoJob
  BY DEF Rejected
<1>2. CASE Elsewhere(t)
  <2>1. paid'[t] = paid[t] /\ row'[t].status = "cancelled"
    BY <1>1, <1>2 DEF Elsewhere, Writes, Same
  <2>2. \A r \in Replicas : job'[r][t] = NoJob
    BY <1>1, <1>2 DEF Elsewhere
  <2> QED BY <2>1, <2>2 DEF Rejected
<1>3. ASSUME NEW r \in Replicas, Processed(r, t) PROVE FALSE
  BY <1>1, <1>3, ProcessedWorks DEF Working
<1> QED BY <1>2, <1>3, RowStep

(* A signer's rejection of a row no replica has in hand is final, whatever *)
(* fails, and though the row may carry a dead replica's marker, which the  *)
(* SQL leaves on it (RejectTransaction, reapStaleClaims).                  *)
THEOREM RejectionFinal == Spec => RejectedIsFinal
<1>1. TypeOK /\ [Next]_vars =>
        [\A t \in Txs : Rejected(t) => Rejected(t)' /\ paid'[t] = paid[t]]_vars
  BY RejectedStep
<1> QED
  BY <1>1, TypeCorrect, PTL DEF Spec, RejectedIsFinal

(***************************************************************************)
(* At most one payment                                                     *)
(***************************************************************************)

(* The strengthening: a payment that the table does not show yet is in the *)
(* hands of the replica about to record its hash, and a row with a hash is *)
(* in nobody's hands.                                                      *)
PaidOnce(t) ==
    /\ paid[t] <= 1
    /\ row[t].hash => \A r \in Replicas : ~Working(r, t)
    /\ paid[t] > 0 => row[t].hash \/ \E r \in Replicas : job[r][t].at = "sent"
    /\ row[t].status = "failed" => paid[t] = 0

(* A row that nobody works on is paid only if it carries a hash.           *)
LEMMA IdleUnpaid ==
    ASSUME TypeOK, NEW t \in Txs, PaidOnce(t), ~row[t].hash,
           \A r \in Replicas : job[r][t].at # "sent"
    PROVE  paid[t] = 0
<1>1. paid[t] \in Nat
  BY DEF TypeOK
<1> QED BY <1>1 DEF PaidOnce

(* Polls, crashes and handlers pay nothing and take only idle rows.        *)
LEMMA PaidOnceElsewhere ==
    ASSUME "crash" \notin Faults, TypeOK, ClaimsAreFresh, ClaimsAreFresh',
           NEW t \in Txs, PaidOnce(t), Elsewhere(t)
    PROVE  PaidOnce(t)'
<1>1. paid'[t] = paid[t]
  BY DEF Elsewhere
<1>2. ASSUME NEW r \in Replicas PROVE Working(r, t) => ~row[t].stale /\ row[t].status # "pending"
  BY DEF ClaimsAreFresh
<1>3. CASE /\ \A q \in Replicas : job'[q][t] = job[q][t]
           /\ \/ Writes(t, row[t].status, row[t].hash, row[t].attempts)
              \/ Writes(t, "cancelled", row[t].hash, row[t].attempts)
  <2>1. row'[t].hash = row[t].hash /\ row'[t].status \in {row[t].status, "cancelled"}
    BY <1>3 DEF Writes
  <2> QED BY <1>1, <1>3, <2>1 DEF PaidOnce, Working
<1>4. CASE /\ \A q \in Replicas : job'[q][t] = job[q][t]
           /\ row[t].status = "approved" /\ ~row[t].hash /\ row[t].stale
           /\ Writes(t, IF row[t].attempts + 1 >= MaxAttempts THEN "failed" ELSE "pending",
                     FALSE, row[t].attempts + 1)
  <2>1. \A r \in Replicas : job[r][t].at # "sent"
    BY <1>2, <1>4 DEF Working, NoJob
  <2>2. paid[t] = 0 /\ ~row'[t].hash
    BY <1>4, <2>1, IdleUnpaid DEF Writes
  <2> QED BY <1>1, <2>2 DEF PaidOnce
<1>5. CASE /\ row[t].status = "pending" /\ ~row[t].hash
           /\ Writes(t, "approved", FALSE, row[t].attempts)
  <2>1. \A r \in Replicas : job[r][t].at # "sent"
    BY <1>2, <1>5 DEF Working, NoJob
  <2>2. paid[t] = 0 /\ ~row'[t].hash
    BY <1>5, <2>1, IdleUnpaid DEF Writes
  <2> QED BY <1>1, <2>2 DEF PaidOnce
<1> QED
  BY <1>3, <1>4, <1>5 DEF Elsewhere

(* A replica that works on a row works alone, and knows what it paid.      *)
LEMMA PaidOnceProcessed ==
    ASSUME "lost_reply" \notin Faults, "lost_update" \notin Faults,
           TypeOK, ClaimsAreFresh,
           NEW t \in Txs, PaidOnce(t), NEW r \in Replicas, Processed(r, t)
    PROVE  PaidOnce(t)'
<1>1. paid[t] \in Nat /\ row[t].attempts \in Nat
  BY DEF TypeOK, Row
<1>2. Working(r, t)
  BY ProcessedWorks
<1>3. ~row[t].hash /\ row[t].status # "failed"
  BY <1>2 DEF PaidOnce, ClaimsAreFresh
<1>4. \A q \in Replicas : q # r => job[q][t] = NoJob /\ job'[q][t] = NoJob
  BY <1>2 DEF ClaimsAreFresh, Working, Processed
<1>5. job[r][t].at # "sent" => paid[t] = 0
  <2>1. \A q \in Replicas : q # r => job[q][t].at # "sent"
    BY <1>4 DEF NoJob
  <2> QED BY <1>3, <2>1, IdleUnpaid
<1>6. /\ row[t].hash = FALSE
      /\ Same(t) => ~row'[t].hash /\ row'[t].status # "failed"
  <2>1. row[t].hash \in BOOLEAN
    BY DEF TypeOK, Row
  <2> QED BY <1>3, <2>1 DEF Same
<1>7. CASE job[r][t].at = "sent"
  <2>1. /\ paid'[t] = paid[t] /\ job'[r][t] = NoJob
        /\ row'[t].status = "submitted" /\ row'[t].hash
    BY <1>7 DEF Processed, Writes
  <2> QED BY <1>4, <2>1 DEF PaidOnce, Working
<1>8. CASE job[r][t].at = "signed" /\ paid'[t] = paid[t] + 1
  <2>1. job'[r][t].at = "sent" /\ Same(t)
    BY <1>1, <1>8 DEF Processed
  <2> QED BY <1>5, <1>6, <1>8, <2>1 DEF PaidOnce
<1>9. CASE job[r][t].at # "sent" /\ paid'[t] = paid[t]
  <2>1. ~row'[t].hash
    BY <1>6, <1>9 DEF Processed, Writes
  <2> QED BY <1>5, <1>9, <2>1 DEF PaidOnce
<1> QED
  BY <1>7, <1>8, <1>9 DEF Processed

(* Every step keeps PaidOnce.                                              *)
LEMMA PaidOnceStep ==
    ASSUME Faults \cap {"crash", "lost_reply", "lost_update"} = {},
           TypeOK, ClaimsAreFresh, ClaimsAreFresh', [Next]_vars,
           NEW t \in Txs, PaidOnce(t)
    PROVE  PaidOnce(t)'
<1>1. "crash" \notin Faults /\ "lost_reply" \notin Faults /\ "lost_update" \notin Faults
  OBVIOUS
<1> QED
  BY <1>1, RowStep, PaidOnceElsewhere, PaidOnceProcessed

(* Where replicas neither die nor outlast their claims and no answer or    *)
(* UPDATE is lost, PaidOnce holds of every row.                            *)
LEMMA OncePaid ==
    Faults \cap {"slow", "crash", "lost_reply", "lost_update"} = {}
        => (Spec => [](\A t \in Txs : PaidOnce(t)))
<1> SUFFICES ASSUME Faults \cap {"slow", "crash", "lost_reply", "lost_update"} = {}
             PROVE  Spec => [](\A t \in Txs : PaidOnce(t))
  OBVIOUS
<1> DEFINE Inv == \A t \in Txs : PaidOnce(t)
<1>1. Init => Inv
  BY DEF Init, PaidOnce, NewRow
<1>2. Faults \cap {"crash", "lost_reply", "lost_update"} = {} /\ "slow" \notin Faults
  OBVIOUS
<1>3. TypeOK /\ ClaimsAreFresh /\ ClaimsAreFresh' /\ Inv /\ [Next]_vars => Inv'
  BY <1>2, PaidOnceStep
<1> QED
  BY <1>1, <1>2, <1>3, TypeCorrect, FreshClaims, PTL DEF Spec

(* "No double-signing, no double-broadcasting" (cluster.go:12-13), on the  *)
(* conditions it takes: batches end within three minutes, no replica dies  *)
(* between the broadcast and its UPDATE, and neither the node's answer nor *)
(* that UPDATE is lost.  Lost reads, nonce conflicts, refusals, retries,   *)
(* rejections and rows that grow old do not break it.                      *)
THEOREM PaidAtMostOnce ==
    Faults \cap {"slow", "crash", "lost_reply", "lost_update"} = {}
        => (Spec => []AtMostOnePayment)
<1> SUFFICES ASSUME Faults \cap {"slow", "crash", "lost_reply", "lost_update"} = {}
             PROVE  Spec => []AtMostOnePayment
  OBVIOUS
<1>1. (\A t \in Txs : PaidOnce(t)) => AtMostOnePayment
  BY DEF PaidOnce, AtMostOnePayment
<1> QED
  BY <1>1, OncePaid, PTL

(* A row that ended in 'failed' was not paid, on the same conditions.      *)
THEOREM FailedUnpaid ==
    Faults \cap {"slow", "crash", "lost_reply", "lost_update"} = {}
        => (Spec => []FailedMeansUnpaid)
<1> SUFFICES ASSUME Faults \cap {"slow", "crash", "lost_reply", "lost_update"} = {}
             PROVE  Spec => []FailedMeansUnpaid
  OBVIOUS
<1>1. (\A t \in Txs : PaidOnce(t)) => FailedMeansUnpaid
  BY DEF PaidOnce, FailedMeansUnpaid
<1> QED
  BY <1>1, OncePaid, PTL

(***************************************************************************)
(* At most one payment for each attempt                                    *)
(***************************************************************************)

(* The strengthening: a row's payments never pass the attempts it used up, *)
(* or that and the one under way.  Whoever works on the row has an attempt *)
(* left, and requeues it with exactly one more.                            *)
Budget(t) ==
    /\ paid[t] <= MaxAttempts
    /\ row[t].status = "pending" => paid[t] <= row[t].attempts
    /\ row[t].status = "approved" =>
         row[t].attempts < MaxAttempts /\ paid[t] <= row[t].attempts + 1
    /\ \A r \in Replicas : Working(r, t) =>
         /\ row[t].attempts < MaxAttempts /\ paid[t] <= row[t].attempts + 1
         /\ job[r][t].at \in {"claimed", "checked", "signed"} => paid[t] <= row[t].attempts
         /\ job[r][t].at = "requeue" => job[r][t].n = row[t].attempts + 1

(* Polls, crashes and handlers: the reaper counts the attempt of whoever   *)
(* died, and a batch takes rows that have one left.                        *)
LEMMA BudgetElsewhere ==
    ASSUME TypeOK, ClaimsAreFresh, NEW t \in Txs, Budget(t), Elsewhere(t)
    PROVE  Budget(t)'
<1>1. paid[t] \in Nat /\ row[t].attempts \in Nat /\ MaxAttempts \in Nat
  BY SignerAssumption DEF TypeOK, Row
<1>2. paid'[t] = paid[t] /\ paid[t] <= MaxAttempts
  BY DEF Elsewhere, Budget
<1>3. ASSUME NEW r \in Replicas
      PROVE  Working(r, t) => ~row[t].stale /\ row[t].status # "pending"
  BY DEF ClaimsAreFresh
<1>4. CASE /\ \A q \in Replicas : job'[q][t] = job[q][t]
           /\ \/ Writes(t, row[t].status, row[t].hash, row[t].attempts)
              \/ Writes(t, "cancelled", row[t].hash, row[t].attempts)
  <2>1. /\ row'[t].attempts = row[t].attempts
        /\ row'[t].status \in {row[t].status, "cancelled"}
    BY <1>4 DEF Writes
  <2> QED BY <1>2, <1>4, <2>1 DEF Budget, Working
<1>5. CASE /\ \A q \in Replicas : job'[q][t] = job[q][t]
           /\ row[t].status = "approved" /\ ~row[t].hash /\ row[t].stale
           /\ Writes(t, IF row[t].attempts + 1 >= MaxAttempts THEN "failed" ELSE "pending",
                     FALSE, row[t].attempts + 1)
  <2>1. \A r \in Replicas : ~Working(r, t)'
    BY <1>3, <1>5 DEF Working
  <2>2. paid[t] <= row[t].attempts + 1
    BY <1>5 DEF Budget
  <2>3. row'[t].attempts = row[t].attempts + 1 /\ row'[t].status \in {"failed", "pending"}
    BY <1>5 DEF Writes
  <2> QED BY <1>1, <1>2, <2>1, <2>2, <2>3 DEF Budget
<1>6. CASE /\ row[t].status = "pending" /\ ~row[t].hash /\ row[t].attempts < MaxAttempts
           /\ Writes(t, "approved", FALSE, row[t].attempts)
           /\ \E r \in Replicas :
                /\ job'[r][t].at = "claimed"
                /\ \A q \in Replicas : q # r => job'[q][t] = job[q][t]
  <2>1. paid[t] <= row[t].attempts
    BY <1>6 DEF Budget
  <2>2. row'[t].attempts = row[t].attempts /\ row'[t].status = "approved"
    BY <1>6 DEF Writes
  <2>3. \A q \in Replicas : Working(q, t)' => job'[q][t].at = "claimed"
    BY <1>3, <1>6 DEF Working
  <2>4. paid'[t] <= row'[t].attempts + 1 /\ row'[t].attempts < MaxAttempts
    BY <1>1, <1>2, <1>6, <2>1, <2>2
  <2> QED BY <1>2, <2>1, <2>2, <2>3, <2>4 DEF Budget
<1>7. CASE Same(t) /\ \A q \in Replicas : job'[q][t] \in {job[q][t], NoJob}
  BY <1>2, <1>7 DEF Same, Budget, Working
<1> QED
  BY <1>4, <1>5, <1>6, <1>7 DEF Elsewhere

(* A replica pays at most once before it lets the row go.                  *)
LEMMA BudgetProcessed ==
    ASSUME "lost_read" \notin Faults, TypeOK, ClaimsAreFresh,
           NEW t \in Txs, Budget(t), NEW r \in Replicas, Processed(r, t)
    PROVE  Budget(t)'
<1> DEFINE a == row[t].attempts
           m == job[r][t].at
<1>1. paid[t] \in Nat /\ a \in Nat /\ MaxAttempts \in Nat
  BY SignerAssumption DEF TypeOK, Row
<1>2. Working(r, t)
  BY ProcessedWorks
<1>3. \A q \in Replicas : q # r => ~Working(q, t)'
  BY <1>2 DEF ClaimsAreFresh, Working, Processed
<1>4. /\ a < MaxAttempts /\ paid[t] <= a + 1
      /\ m \in {"claimed", "checked", "signed"} => paid[t] <= a
      /\ m = "requeue" => job[r][t].n = a + 1
  BY <1>2 DEF Budget
<1>5. row[t].status # "pending"
  BY <1>2 DEF ClaimsAreFresh
<1>6. ASSUME paid'[t] <= a + 1, Same(t),
             Working(r, t)' =>
               /\ job'[r][t].at \in {"claimed", "checked", "signed"} => paid'[t] <= a
               /\ job'[r][t].at = "requeue" => job'[r][t].n = a + 1
      PROVE  Budget(t)'
  <2>1. row'[t].attempts = a /\ row'[t].status # "pending"
    BY <1>5, <1>6 DEF Same
  <2>2. paid'[t] = paid[t] \/ paid'[t] = paid[t] + 1
    BY DEF Processed
  <2>3. paid'[t] <= MaxAttempts
    BY <1>1, <1>4, <1>6, <2>2
  <2> QED BY <1>3, <1>4, <1>6, <2>1, <2>3 DEF Budget
<1>7. CASE m = "claimed"
  <2>1. paid'[t] = paid[t] /\ paid[t] <= a
    BY <1>4, <1>7 DEF Processed
  <2>2. CASE Same(t)
    <3>1. job'[r][t].at # "requeue"
      BY <1>7 DEF Processed, NoJob
    <3> QED BY <1>1, <1>6, <2>1, <2>2, <3>1
  <2>3. CASE ~Same(t)
    <3>1. Writes(t, "pending", row[t].hash, a) /\ job'[r][t] = NoJob
      BY <1>7, <2>3 DEF Processed
    <3>2. row'[t].attempts = a /\ row'[t].status = "pending" /\ ~Working(r, t)'
      BY <3>1 DEF Writes, Working
    <3> QED BY <1>1, <1>3, <1>4, <2>1, <3>2 DEF Budget
  <2> QED BY <2>2, <2>3
<1>8. CASE m = "checked"
  <2>1. /\ paid'[t] = paid[t] /\ paid[t] <= a /\ Same(t)
        /\ job'[r][t].at # "requeue"
    BY <1>4, <1>8 DEF Processed
  <2> QED BY <1>1, <1>6, <2>1
<1>9. CASE m = "signed"
  <2>1. /\ paid'[t] \in {paid[t], paid[t] + 1} /\ paid[t] <= a /\ Same(t)
        /\ job'[r][t].at \in {"sent", "failing"}
    BY <1>4, <1>9 DEF Processed
  <2> QED BY <1>1, <1>6, <2>1
<1>10. CASE m = "sent"
  <2>1. paid'[t] = paid[t] /\ job'[r][t] = NoJob
    BY <1>10 DEF Processed
  <2>2. CASE Same(t)
    BY <1>4, <1>6, <2>1, <2>2 DEF Working
  <2>3. CASE ~Same(t)
    <3>1. row'[t].status = "submitted" /\ ~Working(r, t)'
      BY <1>10, <2>1, <2>3 DEF Processed, Writes, Working
    <3> QED BY <1>3, <2>1, <3>1 DEF Budget
  <2> QED BY <2>2, <2>3
<1>11. CASE m = "failing"
  <2>1. paid'[t] = paid[t] /\ Same(t)
        /\ job'[r][t].at = "requeue" /\ job'[r][t].n = a + 1
    BY <1>11 DEF Processed
  <2> QED BY <1>4, <1>6, <2>1
<1>12. CASE m = "requeue"
  <2>1. paid'[t] = paid[t] /\ job'[r][t] = NoJob
    BY <1>12 DEF Processed
  <2>2. CASE Same(t)
    BY <1>4, <1>6, <2>1, <2>2 DEF Working
  <2>3. CASE ~Same(t)
    <3>1. /\ row'[t].status \in {"failed", "pending"} /\ row'[t].attempts = a + 1
          /\ ~Working(r, t)'
      BY <1>4, <1>12, <2>1, <2>3 DEF Processed, Writes, Working
    <3> QED BY <1>1, <1>3, <1>4, <2>1, <3>1 DEF Budget
  <2> QED BY <2>2, <2>3
<1> QED
  BY <1>7, <1>8, <1>9, <1>10, <1>11, <1>12 DEF Processed

(* "Bounded by a max-attempts counter" (cluster.go:15-16): whatever dies   *)
(* or is lost on the way, the chain takes at most MaxAttempts payments for *)
(* a row, if batches end within three minutes and the attempts can be read *)
(* back: requeueOrFail starts again from one when it cannot.               *)
THEOREM PaymentsWithinAttempts ==
    Faults \cap {"slow", "lost_read"} = {} => (Spec => []PaymentsBounded)
<1> SUFFICES ASSUME Faults \cap {"slow", "lost_read"} = {}
             PROVE  Spec => []PaymentsBounded
  OBVIOUS
<1> DEFINE Inv == \A t \in Txs : Budget(t)
<1>1. Init => Inv
  BY SignerAssumption DEF Init, Budget, NewRow, Working
<1>2. "slow" \notin Faults /\ "lost_read" \notin Faults
  OBVIOUS
<1>3. TypeOK /\ ClaimsAreFresh /\ Inv /\ [Next]_vars => Inv'
  BY <1>2, RowStep, BudgetElsewhere, BudgetProcessed
<1>4. Inv => PaymentsBounded
  BY DEF Budget, PaymentsBounded
<1> QED
  BY <1>1, <1>2, <1>3, <1>4, TypeCorrect, FreshClaims, PTL DEF Spec

=============================================================================
