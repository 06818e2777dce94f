--------------------------- MODULE FinanceWithdraw ---------------------------
(***************************************************************************)
(* The signed withdrawal pipeline of the UserWallet finance plane          *)
(* (src/go/wallet_api/finance_withdraw.go): a request locks its amount,    *)
(* is auto-approved or queued, and a superadmin approves (the locked       *)
(* amount leaves the ledger) or rejects it (the lock is released).         *)
(*                                                                         *)
(* handleAdminApproveWithdrawal and handleAdminRejectWithdrawal read the   *)
(* row FOR UPDATE inside their own transaction, so each is one step.       *)
(***************************************************************************)
EXTENDS FinanceLedger

CONSTANT MaxWithdrawals     \* bound: rows of withdrawal_request

ASSUME WithdrawAssumption == MaxWithdrawals \in Nat

VARIABLES
    withdrawals,        \* withdrawal_request
    withdrawJournal     \* ledger_journal rows that reference a withdrawal

withdrawVars == <<ledgerVars, withdrawals, withdrawJournal>>

WithdrawalIds == 1 .. MaxWithdrawals

(* A decimal as the client wrote it, or as amount::text of NUMERIC(38,18)  *)
(* prints it: with exactly 18 decimals.                                    *)
AmountTexts == {"plain", "numeric18"}

WithdrawStatus == {"none", "queued", "auto_approved", "approved", "rejected"}

Withdrawal ==
    [status : WithdrawStatus, key : Keys, amount : StoredAmounts,
     signedText : AmountTexts]

NoWithdrawal == [status |-> "none"]

WithdrawTask ==
    [op : {"withdraw"}, key : Keys, amount : Amounts, text : AmountTexts,
     auto : BOOLEAN]

Recorded(i) == withdrawals[i].status # "none"

(* The rows whose amount is, as far as the pipeline is concerned, still    *)
(* locked: nothing settles an auto_approved row.                           *)
Undecided(i) == withdrawals[i].status \in {"queued", "auto_approved"}

(***************************************************************************)
(* handleCreateWithdrawal                                                  *)
(***************************************************************************)

(* auto: the USD value is known and under the threshold, and the risk      *)
(* score is under the ceiling.                                             *)
AutoApprovable(usd, risk) == usd = "below_threshold" /\ risk = "below_ceiling"

(* Only an amount that the column can hold has such a text of its own.     *)
BeginWithdraw(w, k, amount, text, usd, risk) ==
    /\ worker[w] = Idle
    /\ text = "numeric18" => amount % Parts = 0
    /\ SwitchEnabled(k[2], "withdraw")
    /\ worker' = [worker EXCEPT ![w] =
                    [op |-> "withdraw", key |-> k, amount |-> amount,
                     text |-> text, auto |-> AutoApprovable(usd, risk)]]
    /\ UNCHANGED <<accounts, posted, dust, off, withdrawals, withdrawJournal>>

(* Mutant of CommitWithdraw: the amount is not locked. *)
CommitWithdrawUnlocked(w, i) ==
    LET t == worker[w]
    IN  /\ t.op = "withdraw"
        /\ ~Recorded(i) /\ \A j \in 1 .. i - 1 : Recorded(j)
        /\ ToColumn(t.amount) > 0
        /\ withdrawals' = [withdrawals EXCEPT ![i] =
                 [status |-> IF t.auto THEN "auto_approved" ELSE "queued",
                  key |-> t.key, amount |-> ToColumn(t.amount), signedText |-> t.text]]
        /\ worker' = [worker EXCEPT ![w] = Idle]
        /\ UNCHANGED <<accounts, posted, dust, off, withdrawJournal>>

(* The lock, the signature and the row, in one transaction.  The signature *)
(* covers the amount as the request spelled it; the row keeps it rounded   *)
(* and has a CHECK (amount > 0).                                           *)
CommitWithdraw(w, i) ==
    LET t == worker[w]
    IN  /\ t.op = "withdraw"
        /\ ~Recorded(i) /\ \A j \in 1 .. i - 1 : Recorded(j)
        /\ ToColumn(t.amount) > 0
        /\ LedgerLock(t.key, t.amount)
        /\ withdrawals' = [withdrawals EXCEPT ![i] =
                 [status |-> IF t.auto THEN "auto_approved" ELSE "queued",
                  key |-> t.key, amount |-> ToColumn(t.amount), signedText |-> t.text]]
        /\ worker' = [worker EXCEPT ![w] = Idle]
        /\ UNCHANGED <<posted, dust, off, withdrawJournal>>

(***************************************************************************)
(* handleAdminApproveWithdrawal and handleAdminRejectWithdrawal            *)
(***************************************************************************)

(* The signature is recomputed over the stored row, whose amount is read   *)
(* back as amount::text.                                                   *)
SignatureMatches(i) == withdrawals[i].signedText = "numeric18"

(* Mutant of ApproveWithdrawal: the status guard is dropped. *)
ApproveWithdrawalAnyStatus(w, i) ==
    /\ worker[w] = Idle
    /\ Recorded(i)
    /\ SignatureMatches(i)
    /\ LedgerSettleLocked(withdrawals[i].key, withdrawals[i].amount)
    /\ withdrawJournal' = [withdrawJournal EXCEPT ![i].withdraw = @ + 1]
    /\ withdrawals' = [withdrawals EXCEPT ![i].status = "approved"]
    /\ UNCHANGED <<posted, dust, off, worker>>

ApproveWithdrawal(w, i) ==
    /\ worker[w] = Idle
    /\ withdrawals[i].status = "queued"
    /\ SignatureMatches(i)
    /\ LedgerSettleLocked(withdrawals[i].key, withdrawals[i].amount)
    /\ withdrawJournal' = [withdrawJournal EXCEPT ![i].withdraw = @ + 1]
    /\ withdrawals' = [withdrawals EXCEPT ![i].status = "approved"]
    /\ UNCHANGED <<posted, dust, off, worker>>

(* Mutant of RejectWithdrawal: the hold is settled, not released. *)
RejectWithdrawalSettling(w, i) ==
    /\ worker[w] = Idle
    /\ withdrawals[i].status = "queued"
    /\ LedgerSettleLocked(withdrawals[i].key, withdrawals[i].amount)
    /\ withdrawJournal' = [withdrawJournal EXCEPT ![i].refund = @ + 1]
    /\ withdrawals' = [withdrawals EXCEPT ![i].status = "rejected"]
    /\ UNCHANGED <<posted, dust, off, worker>>

RejectWithdrawal(w, i) ==
    /\ worker[w] = Idle
    /\ withdrawals[i].status = "queued"
    /\ LedgerUnlock(withdrawals[i].key, withdrawals[i].amount)
    /\ withdrawJournal' = [withdrawJournal EXCEPT ![i].refund = @ + 1]
    /\ withdrawals' = [withdrawals EXCEPT ![i].status = "rejected"]
    /\ UNCHANGED <<posted, dust, off, worker>>

WithdrawInit ==
    /\ LedgerInit
    /\ withdrawals = [i \in WithdrawalIds |-> NoWithdrawal]
    /\ withdrawJournal = [i \in WithdrawalIds |-> [withdraw |-> 0, refund |-> 0]]

WithdrawStep ==
    \/ \E w \in Workers, k \in Keys, a \in Amounts, text \in AmountTexts,
          usd \in {"below_threshold", "above_threshold", "unknown"},
          risk \in {"below_ceiling", "above_ceiling"} :
          BeginWithdraw(w, k, a, text, usd, risk)
    \/ \E w \in Workers, i \in WithdrawalIds :
          \/ CommitWithdraw(w, i)
          \/ ApproveWithdrawal(w, i)
          \/ RejectWithdrawal(w, i)

WithdrawNext ==
    \/ WithdrawStep
    \/ LedgerNext /\ UNCHANGED <<withdrawals, withdrawJournal>>

WithdrawSpec == WithdrawInit /\ [][WithdrawNext]_withdrawVars

(***************************************************************************)
(* Properties                                                              *)
(***************************************************************************)

WithdrawTypeOK ==
    /\ LedgerTypeOK(TransferTask \cup WithdrawTask)
    /\ withdrawals \in [WithdrawalIds -> Withdrawal \cup {NoWithdrawal}]
    /\ withdrawJournal \in [WithdrawalIds -> [withdraw : Nat, refund : Nat]]

(* The amount a withdrawal holds locked on account k. *)
WithdrawHolds(k) ==
    [i \in WithdrawalIds |->
        IF Undecided(i) /\ withdrawals[i].key = k THEN withdrawals[i].amount ELSE 0]

(* "Funds are locked at request time ... so a queued withdrawal can never  *)
(* be double-spent; approval settles the lock, rejection releases it"      *)
(* (finance_withdraw.go:16-18): the locked column of every account is      *)
(* exactly the sum of the undecided withdrawals on it, whatever transfers, *)
(* approvals and rejections ran in between and in whatever order.          *)
WithdrawHoldsCovered ==
    \A k \in Keys : accounts[k].locked = Sum(WithdrawHolds(k), MaxWithdrawals)

(* What approved withdrawals took out of a currency. *)
PaidOut(c) ==
    [i \in WithdrawalIds |->
        IF withdrawals[i].status = "approved" /\ withdrawals[i].key[2] = c
        THEN withdrawals[i].amount ELSE 0]

(* Value in each currency: what the accounts hold plus what approved       *)
(* withdrawals took out is what the accounts were opened with, and one     *)
(* unit for every transfer of so many units and a half.  Requests, holds   *)
(* and decisions, whose amounts are rounded once, make or destroy nothing. *)
WithdrawValueConserved ==
    \A c \in Currencies :
        Held(c) + Sum(PaidOut(c), MaxWithdrawals) = Cardinality(Users) * Opening + DustIn(c)

(* Two superadmins on the same queue, or a double click, decide a request  *)
(* once: its journal row is written once, is the one its status names, and *)
(* the balance moved with it (handleAdminApproveWithdrawal,                *)
(* handleAdminRejectWithdrawal).                                           *)
OneDecisionPerWithdrawal ==
    \A i \in WithdrawalIds :
        withdrawJournal[i] =
            [withdraw |-> IF withdrawals[i].status = "approved" THEN 1 ELSE 0,
             refund |-> IF withdrawals[i].status = "rejected" THEN 1 ELSE 0]

(* What a user can spend changes by exactly what the step is about: an     *)
(* approval takes nothing from the available balance (the amount was taken *)
(* when it was locked), a rejection gives the locked amount back, and      *)
(* nobody else's available balance moves with either.                      *)
DecisionsMoveOnlyTheHold ==
    [][\A i \in WithdrawalIds :
         withdrawals[i].status = "queued" /\ withdrawals'[i].status # "queued" =>
           \A k \in Keys :
             Available(k)' - Available(k) =
               IF withdrawals'[i].status = "rejected" /\ k = withdrawals[i].key
                 THEN withdrawals[i].amount ELSE 0]_withdrawVars

(* "signature mismatch - refusing to approve a tampered request"           *)
(* (finance_withdraw.go:322) and step 2 of the header comment: nothing in  *)
(* the model changes a stored row, so every queued row should verify.      *)
UntamperedVerifies ==
    \A i \in WithdrawalIds : withdrawals[i].status = "queued" => SignatureMatches(i)

=============================================================================
