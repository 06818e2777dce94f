------------------------------- MODULE Payouts -------------------------------
(***************************************************************************)
(* Fee, revenue and treasury money: a payout of the MasterWallet product   *)
(* (src/wl_master_wallet/go/internal/handlers) needs a withdrawal that the *)
(* white-label client asked for and a SuperAdmin co-signed in the license  *)
(* service (withdrawal_approvals).                                         *)
(*                                                                         *)
(* The product asks over HTTP whether the withdrawal is approved, then     *)
(* signs and broadcasts, then reports the hash; nothing is locked from the *)
(* question to the report, and a report that fails is forgotten.           *)
(***************************************************************************)
EXTENDS Integers

CONSTANTS
    Withdrawals,    \* withdrawal_approvals rows
    Jobs,           \* payout requests in flight
    MaxPaid         \* bound: payouts of one withdrawal

ASSUME PayoutAssumption == MaxPaid \in Nat /\ "none" \notin Withdrawals

VARIABLES
    withdrawal,     \* status of each row
    job,            \* per request: the withdrawal it found approved, and how far it is
    paid            \* on chain: the payouts sent for each withdrawal

payoutVars == <<withdrawal, job, paid>>

NoJob == [for |-> "none", at |-> "idle"]

RequestWithdrawal(w) ==
    /\ withdrawal[w] = "none"
    /\ withdrawal' = [withdrawal EXCEPT ![w] = "wl_approved"]
    /\ UNCHANGED <<job, paid>>

SuperAdminApproveWithdrawal(w) ==
    /\ withdrawal[w] = "wl_approved"
    /\ withdrawal' = [withdrawal EXCEPT ![w] = "approved"]
    /\ UNCHANGED <<job, paid>>

(* Mutant of SuperAdminRejectWithdrawal: an approval can be taken back.    *)
RejectApproved(w) ==
    /\ withdrawal[w] \in {"wl_approved", "approved"}
    /\ withdrawal' = [withdrawal EXCEPT ![w] = "rejected"]
    /\ UNCHANGED <<job, paid>>

SuperAdminRejectWithdrawal(w) ==
    /\ withdrawal[w] = "wl_approved"
    /\ withdrawal' = [withdrawal EXCEPT ![w] = "rejected"]
    /\ UNCHANGED <<job, paid>>

(* requireApproval, in manual mode. *)
RequireApproval(j, w) ==
    /\ job[j] = NoJob
    /\ withdrawal[w] = "approved"
    /\ job' = [job EXCEPT ![j] = [for |-> w, at |-> "approved"]]
    /\ UNCHANGED <<withdrawal, paid>>

Pay(w) == paid[w] < MaxPaid /\ paid' = [paid EXCEPT ![w] = @ + 1]

SignAndBroadcast(j) ==
    /\ job[j].at = "approved"
    /\ Pay(job[j].for)
    /\ job' = [job EXCEPT ![j].at = "sent"]
    /\ UNCHANGED withdrawal

(* A wrong password or gas estimate, a node that refuses, or one whose     *)
(* answer is lost after it took the transaction; or the process dies.      *)
BroadcastFails(j) ==
    /\ job[j].at = "approved"
    /\ UNCHANGED paid \/ Pay(job[j].for)
    /\ job' = [job EXCEPT ![j] = NoJob]
    /\ UNCHANGED withdrawal

(* The endpoint takes the word of any white-label or service caller; the   *)
(* one caller there is reports what it has sent.                           *)
MarkWithdrawalExecuted(j) ==
    LET w == job[j].for
    IN  /\ job[j].at = "sent"
        /\ withdrawal' = [withdrawal EXCEPT ![w] = IF @ = "approved" THEN "executed" ELSE @]
        /\ job' = [job EXCEPT ![j] = NoJob]
        /\ UNCHANGED paid

(* Neither the error nor the status of the report is looked at. *)
MarkLost(j) ==
    /\ job[j].at = "sent"
    /\ job' = [job EXCEPT ![j] = NoJob]
    /\ UNCHANGED <<withdrawal, paid>>

PayoutInit ==
    /\ withdrawal = [w \in Withdrawals |-> "none"]
    /\ job = [j \in Jobs |-> NoJob]
    /\ paid = [w \in Withdrawals |-> 0]

PayoutNext ==
    \/ \E w \in Withdrawals :
          \/ RequestWithdrawal(w)
          \/ SuperAdminApproveWithdrawal(w)
          \/ SuperAdminRejectWithdrawal(w)
          \/ \E j \in Jobs : RequireApproval(j, w)
    \/ \E j \in Jobs :
          \/ SignAndBroadcast(j)
          \/ BroadcastFails(j)
          \/ MarkWithdrawalExecuted(j)
          \/ MarkLost(j)

PayoutSpec == PayoutInit /\ [][PayoutNext]_payoutVars

PayoutTypeOK ==
    /\ withdrawal \in [Withdrawals -> {"none", "wl_approved", "approved", "rejected", "executed"}]
    /\ job \in [Jobs -> [for : Withdrawals, at : {"approved", "sent"}] \cup {NoJob}]
    /\ paid \in [Withdrawals -> 0 .. MaxPaid]

(* Money that went out, or is about to, was co-signed and stays so: the    *)
(* withdrawal is approved or executed, never rejected, although the check  *)
(* and the broadcast are two calls apart.  And a withdrawal is executed    *)
(* only if it was paid.                                                    *)
PayoutsCosigned ==
    /\ \A w \in Withdrawals : paid[w] > 0 => withdrawal[w] \in {"approved", "executed"}
    /\ \A w \in Withdrawals : withdrawal[w] = "executed" => paid[w] > 0
    /\ \A j \in Jobs :
          /\ job[j] # NoJob => withdrawal[job[j].for] \in {"approved", "executed"}
          /\ job[j].at = "sent" => paid[job[j].for] > 0

=============================================================================
