----------------------------- MODULE AutoSigner -----------------------------
(***************************************************************************)
(* The MasterWallet auto-signer (src/master_wallet/backend/auto_signer.go) *)
(* as a cluster: every replica polls the shared transactions table, claims *)
(* pending rows, signs and broadcasts them, and recovers the claims of     *)
(* replicas that died.                                                     *)
(*                                                                         *)
(* A claim is a status flip in one statement.  Everything after it is a    *)
(* sequence of separate statements and network calls on the replica's copy *)
(* of the row, and the UPDATEs that end it name only the row's id.  The    *)
(* payments all leave from one sub-wallet address, so they share a nonce.  *)
(* Rows are of an auto-approvable type (the others are never claimed).     *)
(***************************************************************************)
EXTENDS Integers, FiniteSets

CONSTANTS
    Txs,            \* rows of the transactions table
    Replicas,       \* instanceID of each replica; a restart keeps it
    Nobody,         \* no claim marker
    MaxAttempts,    \* MASTER_AUTO_SIGN_MAX_ATTEMPTS
    BatchSize,      \* MASTER_AUTO_SIGN_BATCH
    HasPassword,    \* MASTER_AUTO_SIGN_PASSWORD is set
    Refusable,      \* rows the policy or the guard may refuse
    Rejectable,     \* rows a signer may reject by hand
    Faults,         \* what may go wrong, see FaultKinds
    MaxPayments     \* bound: transactions the chain accepts

(* crash: a replica loses its batch.  slow: a batch outlasts the three     *)
(* minutes after which a claim counts as stale.  lost_reply: the node      *)
(* accepts a transaction and its answer does not arrive.  lost_update: an  *)
(* UPDATE whose error the code ignores fails.  lost_read: a SELECT fails.  *)
(* downtime: a row waits 24 hours, after which no replica claims it.       *)
FaultKinds == {"crash", "slow", "lost_reply", "lost_update", "lost_read", "downtime"}

ASSUME SignerAssumption ==
    /\ Nobody \notin Replicas
    /\ MaxAttempts \in Nat \ {0}
    /\ BatchSize \in Nat \ {0}
    /\ HasPassword \in BOOLEAN
    /\ Refusable \subseteq Txs
    /\ Rejectable \subseteq Txs
    /\ Faults \subseteq FaultKinds
    /\ MaxPayments \in Nat

VARIABLES
    row,        \* the transactions table
    job,        \* what each replica is doing with each row of its batch
    paid,       \* how many transactions the chain accepted for each row
    nonce       \* pending nonce of the sub-wallet address

vars == <<row, job, paid, nonce>>

Status == {"pending", "approved", "submitted", "failed", "cancelled"}

Row ==
    [status : Status, claim : Replicas \cup {Nobody}, stale : BOOLEAN,
     hash : BOOLEAN, held : BOOLEAN, old : BOOLEAN, attempts : Nat]

NewRow ==
    [status |-> "pending", claim |-> Nobody, stale |-> FALSE,
     hash |-> FALSE, held |-> FALSE, old |-> FALSE, attempts |-> 0]

(* n is the nonce once it is fetched, and the attempt count once it is     *)
(* read back to requeue.                                                   *)
Stage == {"none", "claimed", "checked", "signed", "sent", "failing", "requeue"}
Job == [at : Stage, n : Nat]
NoJob == [at |-> "none", n |-> 0]

Polling(r) == \A t \in Txs : job[r][t] = NoJob

SetJob(r, t, j) == job' = [job EXCEPT ![r][t] = j]

(***************************************************************************)
(* pollOnce: reapStaleClaims, then claimBatch                              *)
(***************************************************************************)

(* Mutants of Reapable: any claim; only below the attempts ceiling.        *)
ReapableAtOnce(t) ==
    row[t].status = "approved" /\ ~row[t].hash /\ row[t].claim # Nobody

ReapableBelowCeiling(t) ==
    ReapableAtOnce(t) /\ row[t].stale /\ row[t].attempts + 1 < MaxAttempts

(* Mutant of Reapable: the row's status is not looked at. *)
ReapableAnyStatus(t) ==
    ~row[t].hash /\ row[t].claim # Nobody /\ row[t].stale

(* Rows still approved, without a hash, whose claim is older than three    *)
(* minutes: back to pending, or failed at the attempts ceiling.  The SQL   *)
(* means to take the marker away, but its '-' binds tighter than its '||': *)
(* the marker stays, here and in every statement that gives a row back.    *)
Reapable(t) ==
    row[t].status = "approved" /\ ~row[t].hash /\ row[t].claim # Nobody /\ row[t].stale

(* Mutant of Reaped: the attempt is not counted. *)
ReapedUncounted(t) ==
    [row[t] EXCEPT !.status = "pending"]

Reaped(t) ==
    [row[t] EXCEPT !.status = IF row[t].attempts + 1 >= MaxAttempts
                                THEN "failed" ELSE "pending",
                   !.attempts = row[t].attempts + 1]

ReapStaleClaims(r) ==
    /\ Polling(r)
    /\ \E t \in Txs : Reapable(t)
    /\ row' = [t \in Txs |-> IF Reapable(t) THEN Reaped(t) ELSE row[t]]
    /\ UNCHANGED <<job, paid, nonce>>

Claimable(t) ==
    /\ row[t].status = "pending" /\ ~row[t].hash
    /\ row[t].attempts < MaxAttempts
    /\ ~row[t].held /\ ~row[t].old

(* Mutant of ClaimBatch: rows are selected, not claimed. *)
ClaimBatchUnclaimed(r, batch) ==
    /\ Polling(r)
    /\ batch # {} /\ \A t \in batch : Claimable(t)
    /\ row' = [t \in Txs |-> IF t \in batch THEN [row[t] EXCEPT !.claim = r] ELSE row[t]]
    /\ job' = [job EXCEPT ![r] =
                 [t \in Txs |-> IF t \in batch THEN [at |-> "claimed", n |-> 0] ELSE NoJob]]
    /\ UNCHANGED <<paid, nonce>>

(* SKIP LOCKED: any batch of claimable rows.                               *)
ClaimBatch(r, batch) ==
    /\ Polling(r)
    /\ batch # {} /\ Cardinality(batch) <= BatchSize
    /\ \A t \in batch : Claimable(t)
    /\ row' = [t \in Txs |->
                 IF t \in batch
                 THEN [row[t] EXCEPT !.status = "approved", !.claim = r, !.stale = FALSE]
                 ELSE row[t]]
    /\ job' = [job EXCEPT ![r] =
                 [t \in Txs |-> IF t \in batch THEN [at |-> "claimed", n |-> 0] ELSE NoJob]]
    /\ UNCHANGED <<paid, nonce>>

(***************************************************************************)
(* processTx                                                               *)
(***************************************************************************)

(* The policy, a cap or the guard refuses, or the guard's facts cannot be  *)
(* read.  releaseClaim: only while the row is still this replica's.        *)
Refuse(r, t) ==
    /\ job[r][t].at = "claimed"
    /\ t \in Refusable \/ "lost_read" \in Faults
    /\ \/ /\ row[t].status = "approved" /\ row[t].claim = r
          /\ row' = [row EXCEPT ![t] = [@ EXCEPT !.status = "pending", !.held = TRUE]]
       \/ /\ \/ row[t].status # "approved" \/ row[t].claim # r
             \/ "lost_update" \in Faults
          /\ UNCHANGED row
    /\ SetJob(r, t, NoJob)
    /\ UNCHANGED <<paid, nonce>>

(* The claim is looked at once more: its marker, not the row's status.     *)
(* Without a password processTx ends here.                                 *)
CheckClaim(r, t) ==
    /\ job[r][t].at = "claimed"
    /\ \/ /\ row[t].claim # r \/ "lost_read" \in Faults
          /\ SetJob(r, t, NoJob)
       \/ /\ row[t].claim = r
          /\ SetJob(r, t, IF HasPassword THEN [at |-> "checked", n |-> 0] ELSE NoJob)
    /\ UNCHANGED <<row, paid, nonce>>

FetchNonceAndSign(r, t) ==
    /\ job[r][t].at = "checked"
    /\ SetJob(r, t, [at |-> "signed", n |-> nonce])
    /\ UNCHANGED <<row, paid, nonce>>

(* Mutant of BroadcastAccepted: the answer is always taken for an error. *)
BroadcastAcceptedUnheard(r, t) ==
    /\ job[r][t].at = "signed" /\ job[r][t].n = nonce /\ nonce < MaxPayments
    /\ paid' = [paid EXCEPT ![t] = @ + 1]
    /\ nonce' = nonce + 1
    /\ SetJob(r, t, [at |-> "failing", n |-> 0])
    /\ UNCHANGED row

(* The node takes the transaction if its nonce is the next one.  (It would *)
(* also take one in place of a pending one for a higher fee.)              *)
BroadcastAccepted(r, t) ==
    /\ job[r][t].at = "signed"
    /\ job[r][t].n = nonce
    /\ nonce < MaxPayments
    /\ paid' = [paid EXCEPT ![t] = @ + 1]
    /\ nonce' = nonce + 1
    /\ \/ SetJob(r, t, [at |-> "sent", n |-> 0])
       \/ "lost_reply" \in Faults /\ SetJob(r, t, [at |-> "failing", n |-> 0])
    /\ UNCHANGED row

(* Mutant of SignOrBroadcastFails: the error is not looked at. *)
SignOrBroadcastFailsUnseen(r, t) ==
    /\ job[r][t].at \in {"checked", "signed"}
    /\ SetJob(r, t, [at |-> "sent", n |-> 0])
    /\ UNCHANGED <<row, paid, nonce>>

(* signAndBroadcast returns an error with nothing accepted: no RPC, a      *)
(* refused nonce, a relay that said no.                                    *)
SignOrBroadcastFails(r, t) ==
    /\ job[r][t].at \in {"checked", "signed"}
    /\ SetJob(r, t, [at |-> "failing", n |-> 0])
    /\ UNCHANGED <<row, paid, nonce>>

(* UPDATE ... SET tx_hash, status = 'submitted' WHERE id: whatever the row *)
(* has become.                                                             *)
RecordHash(r, t) ==
    /\ job[r][t].at = "sent"
    /\ \/ row' = [row EXCEPT ![t] = [@ EXCEPT !.status = "submitted", !.hash = TRUE]]
       \/ "lost_update" \in Faults /\ UNCHANGED row
    /\ SetJob(r, t, NoJob)
    /\ UNCHANGED <<paid, nonce>>

(* requeueOrFail: read the attempts (none, if the read fails), then write  *)
(* the row by id.  The error of that UPDATE is ignored; as the type of its *)
(* $3 cannot be inferred inside jsonb_build_object, the model always lets  *)
(* the database refuse it.                                                 *)
ReadAttempts(r, t) ==
    /\ job[r][t].at = "failing"
    /\ \/ SetJob(r, t, [at |-> "requeue", n |-> row[t].attempts + 1])
       \/ "lost_read" \in Faults /\ SetJob(r, t, [at |-> "requeue", n |-> 1])
    /\ UNCHANGED <<row, paid, nonce>>

RequeueOrFail(r, t) ==
    LET attempts == job[r][t].n
    IN  /\ job[r][t].at = "requeue"
        /\ \/ /\ attempts >= MaxAttempts
              /\ row' = [row EXCEPT ![t] =
                          [@ EXCEPT !.status = "failed", !.attempts = attempts]]
           \/ /\ attempts < MaxAttempts
              /\ row' = [row EXCEPT ![t] =
                          [@ EXCEPT !.status = "pending", !.held = TRUE,
                                    !.attempts = attempts]]
           \/ UNCHANGED row
        /\ SetJob(r, t, NoJob)
        /\ UNCHANGED <<paid, nonce>>

(***************************************************************************)
(* The environment, and handlers.go                                        *)
(***************************************************************************)

(* Mutant of RejectTransaction: a status the table does not have. *)
RejectTransactionAsRejected(t) ==
    /\ t \in Rejectable
    /\ row' = [row EXCEPT ![t].status = "rejected"]
    /\ UNCHANGED <<job, paid, nonce>>

(* RejectTransaction: a signer cancels the row, whatever its status; the   *)
(* claim marker is left on it.                                             *)
RejectTransaction(t) ==
    /\ t \in Rejectable
    /\ row' = [row EXCEPT ![t].status = "cancelled"]
    /\ UNCHANGED <<job, paid, nonce>>

(* Three minutes pass since the claim.  Unless replicas may be slow, the   *)
(* claiming replica has finished with the row by then, or died.            *)
ClaimGoesStale(t) ==
    /\ row[t].status = "approved" /\ row[t].claim # Nobody /\ ~row[t].stale
    /\ "slow" \in Faults \/ \A r \in Replicas : job[r][t] = NoJob
    /\ row' = [row EXCEPT ![t].stale = TRUE]
    /\ UNCHANGED <<job, paid, nonce>>

HoldExpires(t) ==
    /\ row[t].held
    /\ row' = [row EXCEPT ![t].held = FALSE]
    /\ UNCHANGED <<job, paid, nonce>>

AgesOut(t) ==
    /\ "downtime" \in Faults
    /\ row[t].status = "pending" /\ ~row[t].old
    /\ row' = [row EXCEPT ![t].old = TRUE]
    /\ UNCHANGED <<job, paid, nonce>>

(* The replica dies and comes back polling, or loses part of its batch: a  *)
(* claimed row that does not scan, a worker whose panic is recovered.      *)
Crash(r) ==
    /\ "crash" \in Faults
    /\ \E lost \in SUBSET {t \in Txs : job[r][t] # NoJob} :
          /\ lost # {}
          /\ job' = [job EXCEPT ![r] =
                       [t \in Txs |-> IF t \in lost THEN NoJob ELSE job[r][t]]]
    /\ UNCHANGED <<row, paid, nonce>>

Init ==
    /\ row = [t \in Txs |-> NewRow]
    /\ job = [r \in Replicas |-> [t \in Txs |-> NoJob]]
    /\ paid = [t \in Txs |-> 0]
    /\ nonce = 0

Process(r, t) ==
    \/ Refuse(r, t)
    \/ CheckClaim(r, t)
    \/ FetchNonceAndSign(r, t)
    \/ BroadcastAccepted(r, t)
    \/ SignOrBroadcastFails(r, t)
    \/ RecordHash(r, t)
    \/ ReadAttempts(r, t)
    \/ RequeueOrFail(r, t)

Next ==
    \/ \E r \in Replicas :
          \/ ReapStaleClaims(r)
          \/ \E batch \in SUBSET Txs : ClaimBatch(r, batch)
          \/ \E t \in Txs : Process(r, t)
          \/ Crash(r)
    \/ \E t \in Txs :
          RejectTransaction(t) \/ ClaimGoesStale(t) \/ HoldExpires(t) \/ AgesOut(t)

Spec == Init /\ [][Next]_vars

(***************************************************************************)
(* Properties: a claim                                                     *)
(***************************************************************************)

TypeOK ==
    /\ row \in [Txs -> Row]
    /\ job \in [Replicas -> [Txs -> Job]]
    /\ paid \in [Txs -> Nat]
    /\ nonce \in Nat

Working(r, t) == job[r][t] # NoJob

(* "N cluster replicas each process a disjoint set" (pollOnce), "Two       *)
(* replicas never process the same transaction" (docs/CLUSTER.md:35): no   *)
(* row is in the hands of two replicas, across crashes, reaping, retries   *)
(* and rejections.  It needs every batch to be done within three minutes.  *)
DisjointBatches ==
    \A r, s \in Replicas, t \in Txs : Working(r, t) /\ Working(s, t) => r = s

(* Why: a replica works only on rows that carry its own fresh claim.       *)
ClaimsAreFresh ==
    \A r \in Replicas, t \in Txs : Working(r, t) =>
        /\ row[t].claim = r /\ ~row[t].stale
        /\ row[t].status \in {"approved", "cancelled"}

(***************************************************************************)
(* Properties: payments                                                    *)
(***************************************************************************)

(* "no double-signing, no double-broadcasting" (cluster.go:12-13): the     *)
(* chain accepts at most one payment for a row, whatever the interleaving  *)
(* of polls, refusals, nonce conflicts, retries and replicas.              *)
AtMostOnePayment == \A t \in Txs : paid[t] <= 1

(* A row that ended in 'failed' with "the real error message"              *)
(* (requeueOrFail) was not paid: its requester may safely ask again.       *)
FailedMeansUnpaid == \A t \in Txs : row[t].status = "failed" => paid[t] = 0

(* A rejected row that no replica has in hand: cancelled, in no batch.     *)
Rejected(t) ==
    row[t].status = "cancelled" /\ \A r \in Replicas : job[r][t] = NoJob

(* A signer's rejection is final once no replica has the row in hand: the  *)
(* row stays cancelled, is never claimed again and never paid again, even  *)
(* though it still carries the marker of a replica that died.  (A          *)
(* rejection of a row in hand may be overwritten by that replica.)         *)
RejectedIsFinal ==
    [][\A t \in Txs : Rejected(t) => Rejected(t)' /\ paid'[t] = paid[t]]_vars

(* "bounded by a max-attempts counter" (cluster.go:15-16): a row is paid   *)
(* at most once for each attempt, through crashes, lost answers and lost   *)
(* updates.                                                                *)
PaymentsBounded == \A t \in Txs : paid[t] <= MaxAttempts

(* A row is 'submitted' with a hash only if the chain took a payment for   *)
(* it, even when a replica writes its result over another's.               *)
SubmittedMeansPaid ==
    \A t \in Txs : row[t].status = "submitted" \/ row[t].hash => paid[t] > 0

(***************************************************************************)
(* Properties: progress                                                    *)
(***************************************************************************)

(* Replicas poll and finish their batches; time passes.  Strong fairness   *)
(* where another replica's poll, or a crash, can keep taking the turn: the *)
(* batch is taken in order of created_at, so a row is not passed over for  *)
(* ever.                                                                   *)
Fairness ==
    /\ \A r \in Replicas, t \in Txs : WF_vars(Process(r, t))
    /\ \A t \in Txs :
          /\ SF_vars(\E r \in Replicas, batch \in SUBSET Txs :
                        t \in batch /\ ClaimBatch(r, batch))
          /\ WF_vars(ClaimGoesStale(t))
          /\ WF_vars(HoldExpires(t))
    /\ SF_vars(\E r \in Replicas : ReapStaleClaims(r))

FairSpec == Spec /\ Fairness

(* "nothing strands silently, nothing loops forever" (docs/CLUSTER.md:49): *)
(* a pending row nobody refuses ends submitted, failed or cancelled.       *)
EveryRowEnds ==
    \A t \in Txs \ Refusable :
        row[t].status = "pending" ~> row[t].status \in {"submitted", "failed", "cancelled"}

=============================================================================
