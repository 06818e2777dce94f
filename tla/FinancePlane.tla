---------------------------- MODULE FinancePlane ----------------------------
(***************************************************************************)
(* The UserWallet finance plane: transfers, withdrawals and the escrow     *)
(* marketplace on one ledger.  All three lock and move the same            *)
(* (user, currency) row of ledger_account, which keeps one locked total    *)
(* for all the holds on it: a hold has no identity of its own there.       *)
(***************************************************************************)
EXTENDS FinanceWithdraw, FinanceEscrow

planeVars ==
    <<ledgerVars, withdrawals, withdrawJournal, orders, escrowJournal>>

PlaneInit ==
    /\ WithdrawInit
    /\ EscrowInit

PlaneNext ==
    \/ WithdrawStep /\ UNCHANGED <<orders, escrowJournal>>
    \/ EscrowStep /\ UNCHANGED <<withdrawals, withdrawJournal>>
    \/ LedgerNext /\ UNCHANGED <<withdrawals, withdrawJournal, orders, escrowJournal>>

PlaneSpec == PlaneInit /\ [][PlaneNext]_planeVars

(* Superadmins work the queue (each queued request is attended to again    *)
(* and again until it is decided) and the server finishes what it starts.  *)
(* Strong fairness on the decision, because new requests can keep taking   *)
(* the bounded workers.                                                    *)
Decide(i) ==
    /\ \E w \in Workers : ApproveWithdrawal(w, i) \/ RejectWithdrawal(w, i)
    /\ UNCHANGED <<orders, escrowJournal>>

ServerStops(w) ==
    Abort(w) /\ UNCHANGED <<withdrawals, withdrawJournal, orders, escrowJournal>>

PlaneFairSpec ==
    /\ PlaneSpec
    /\ \A i \in WithdrawalIds : SF_planeVars(Decide(i))
    /\ \A w \in Workers : WF_planeVars(ServerStops(w))

(* The one locked total of an account is exactly the sum of the            *)
(* withdrawals and escrow orders that hold it (requests served one at a    *)
(* time).                                                                  *)
PlaneHoldsCovered ==
    \A k \in Keys :
        accounts[k].locked = Sum(WithdrawHolds(k), MaxWithdrawals)
                           + Sum(EscrowHolds(k), MaxOrders)

(* A queued withdrawal can always be decided, whatever else happened to    *)
(* the account since it was locked: rejecting it needs its amount to be    *)
(* still locked (ledgerUnlock), so a hold that an escrow order, another    *)
(* withdrawal or a transfer used up would leave it in the queue for good   *)
(* (requests served one at a time).                                        *)
QueuedIsDecided ==
    \A i \in WithdrawalIds :
        withdrawals[i].status = "queued" ~> withdrawals[i].status \in {"approved", "rejected"}

(***************************************************************************)
(* The escrow promise                                                      *)
(***************************************************************************)

(* What withdrawal i set aside of account k: its amount, unless it was     *)
(* rejected.                                                               *)
SetAsideBy(k) ==
    [i \in WithdrawalIds |->
        IF withdrawals[i].status \notin {"none", "rejected"} /\ withdrawals[i].key = k
        THEN withdrawals[i].amount ELSE 0]

Promise == INSTANCE EscrowPromise WITH
    Amounts <- StoredAmounts,
    DealIds <- OrderIds,
    spendable <- [k \in Keys |-> Available(k)],
    withdrawn <- [k \in Keys |-> Sum(SetAsideBy(k), MaxWithdrawals)],
    deal <- [i \in OrderIds |-> DealOf(i)]

(* The plane implements the escrow promise (requests served one at a       *)
(* time): what each user can spend changes only as EscrowPromise says, so  *)
(* an amount that was held comes back once, to a buyer or to the seller,   *)
(* and a second payout or refund, whoever's lock it would take, is no step *)
(* of it.                                                                  *)
ImplementsPromise == Promise!Spec

=============================================================================
