---------------------------- MODULE FinanceEscrow ----------------------------
(***************************************************************************)
(* The escrowed P2P marketplace of the UserWallet finance plane            *)
(* (src/go/wallet_api/finance_p2p.go).                                     *)
(*                                                                         *)
(* accept, paid and dispute are one guarded UPDATE each.  release, cancel  *)
(* and resolve begin a transaction and then read the order through         *)
(* escrowTransition, which runs on the connection pool and not in that     *)
(* transaction: its FOR UPDATE lock is gone when it returns.  They are two *)
(* steps, Read... with the check on what was read, and Commit... which     *)
(* acts on it.  The UPDATE that sets the final status has no status guard. *)
(***************************************************************************)
EXTENDS FinanceLedger

CONSTANTS
    MaxOrders,      \* bound: rows of p2p_escrow_order
    Nobody          \* buyer_id IS NULL

ASSUME EscrowAssumption == MaxOrders \in Nat /\ Nobody \notin Users

VARIABLES
    orders,         \* p2p_escrow_order
    escrowJournal   \* ledger_journal rows that reference an order

escrowVars == <<ledgerVars, orders, escrowJournal>>

OrderIds == 1 .. MaxOrders

ActiveStatus == {"open", "escrowed", "paid", "disputed"}
FinalStatus == {"released", "cancelled", "resolved"}

Order ==
    [status : ActiveStatus \cup FinalStatus, seller : Users,
     buyer : Users \cup {Nobody}, currency : Currencies, amount : StoredAmounts]

NoOrder == [status |-> "none"]

EscrowTask ==
    [op : {"open"}, key : Keys, amount : Amounts]
    \cup [op : {"accept"}, order : OrderIds, buyer : Users]
    \cup [op : {"release", "cancel", "resolve_buyer", "resolve_seller"},
          order : OrderIds, seen : Order]

SellerKey(o) == <<o.seller, o.currency>>
BuyerKey(o) == <<o.buyer, o.currency>>

Start(w, task) ==
    /\ worker[w] = Idle
    /\ worker' = [worker EXCEPT ![w] = task]
    /\ UNCHANGED <<accounts, posted, dust, off, orders, escrowJournal>>

Finish(w) == worker' = [worker EXCEPT ![w] = Idle]

(***************************************************************************)
(* handleP2POpenEscrow                                                     *)
(***************************************************************************)

BeginOpen(w, k, amount) ==
    /\ SwitchEnabled(k[2], "p2p")
    /\ k[1] \in KycVerified
    /\ Start(w, [op |-> "open", key |-> k, amount |-> amount])

CommitOpen(w, i) ==
    LET t == worker[w]
    IN  /\ t.op = "open"
        /\ orders[i] = NoOrder /\ \A j \in 1 .. i - 1 : orders[j] # NoOrder
        /\ ToColumn(t.amount) > 0
        /\ LedgerLock(t.key, t.amount)
        /\ orders' = [orders EXCEPT ![i] =
                [status |-> "open", seller |-> t.key[1], buyer |-> Nobody,
                 currency |-> t.key[2], amount |-> ToColumn(t.amount)]]
        /\ Finish(w)
        /\ UNCHANGED <<posted, dust, off, escrowJournal>>

(***************************************************************************)
(* handleP2PAcceptEscrow, handleP2PMarkPaid, handleP2PDispute: the UPDATE  *)
(* checks the row it changes.                                              *)
(***************************************************************************)

BeginAccept(w, i, u) ==
    /\ u \in KycVerified
    /\ Start(w, [op |-> "accept", order |-> i, buyer |-> u])

(* Mutant of CommitAccept: the status guard is dropped. *)
CommitAcceptAnyStatus(w) ==
    LET t == worker[w]
    IN  /\ t.op = "accept"
        /\ orders[t.order] # NoOrder /\ orders[t.order].seller # t.buyer
        /\ orders' = [orders EXCEPT ![t.order].buyer = t.buyer,
                                    ![t.order].status = "escrowed"]
        /\ Finish(w)
        /\ UNCHANGED <<accounts, posted, dust, off, escrowJournal>>

CommitAccept(w) ==
    LET t == worker[w]
    IN  /\ t.op = "accept"
        /\ orders[t.order].status = "open"
        /\ orders[t.order].seller # t.buyer
        /\ orders' = [orders EXCEPT ![t.order].buyer = t.buyer,
                                    ![t.order].status = "escrowed"]
        /\ Finish(w)
        /\ UNCHANGED <<accounts, posted, dust, off, escrowJournal>>

MarkPaid(w, i) ==
    /\ worker[w] = Idle
    /\ orders[i].status = "escrowed"
    /\ orders' = [orders EXCEPT ![i].status = "paid"]
    /\ UNCHANGED <<ledgerVars, escrowJournal>>

(* Mutant of Dispute: any order can be disputed. *)
DisputeAnyStatus(w, i) ==
    /\ worker[w] = Idle
    /\ orders[i] # NoOrder
    /\ orders' = [orders EXCEPT ![i].status = "disputed"]
    /\ UNCHANGED <<ledgerVars, escrowJournal>>

Dispute(w, i) ==
    /\ worker[w] = Idle
    /\ orders[i].status \in {"escrowed", "paid"}
    /\ orders' = [orders EXCEPT ![i].status = "disputed"]
    /\ UNCHANGED <<ledgerVars, escrowJournal>>

(***************************************************************************)
(* handleP2PRelease, handleP2PCancel, handleAdminP2PResolve                *)
(***************************************************************************)

(* escrowTransition, and the caller's check of the status it returned.     *)
ReadOrder(w, i, op, expected) ==
    /\ orders[i].status = expected
    /\ Start(w, [op |-> op, order |-> i, seen |-> orders[i]])

(* Mutants of PayBuyer: the hold is unlocked instead of settled; the       *)
(* seller gets the payout.                                                 *)
PayBuyerUnlocking(t) ==
    LET k == SellerKey(t.seen)
    IN  /\ accounts[k].locked >= t.seen.amount
        /\ accounts' = [accounts EXCEPT ![k].locked = @ - t.seen.amount,
                                        ![BuyerKey(t.seen)].balance = @ + t.seen.amount]
        /\ escrowJournal' = [escrowJournal EXCEPT ![t.order].payout = @ + 1]

PayBuyerToSeller(t) ==
    /\ LedgerUnlock(SellerKey(t.seen), t.seen.amount)
    /\ escrowJournal' = [escrowJournal EXCEPT ![t.order].payout = @ + 1]

(* The seller's hold is settled and the buyer credited; one journal row,   *)
(* no entries.                                                             *)
PayBuyer(t) ==
    LET seen == t.seen
        paid == Settled(SellerKey(seen), seen.amount)
    IN  /\ accounts[SellerKey(seen)].locked >= seen.amount
        /\ accounts' = [paid EXCEPT ![BuyerKey(seen)].balance = @ + seen.amount]
        /\ escrowJournal' = [escrowJournal EXCEPT ![t.order].payout = @ + 1]

RefundSeller(t) ==
    /\ LedgerUnlock(SellerKey(t.seen), t.seen.amount)
    /\ escrowJournal' = [escrowJournal EXCEPT ![t.order].refund = @ + 1]

CloseOrder(w, status) ==
    /\ orders' = [orders EXCEPT ![worker[w].order].status = status]
    /\ Finish(w)
    /\ UNCHANGED <<posted, dust, off>>

ReadRelease(w, i) == ReadOrder(w, i, "release", "paid")
ReadCancel(w, i) == ReadOrder(w, i, "cancel", "open")
ReadResolve(w, i, winner) ==
    ReadOrder(w, i, IF winner = "buyer" THEN "resolve_buyer" ELSE "resolve_seller",
              "disputed")

CommitRelease(w) ==
    /\ worker[w].op = "release"
    /\ PayBuyer(worker[w])
    /\ CloseOrder(w, "released")

CommitCancel(w) ==
    /\ worker[w].op = "cancel"
    /\ RefundSeller(worker[w])
    /\ CloseOrder(w, "cancelled")

CommitResolve(w) ==
    /\ \/ worker[w].op = "resolve_buyer" /\ PayBuyer(worker[w])
       \/ worker[w].op = "resolve_seller" /\ RefundSeller(worker[w])
    /\ CloseOrder(w, "resolved")

EscrowInit ==
    /\ LedgerInit
    /\ orders = [i \in OrderIds |-> NoOrder]
    /\ escrowJournal = [i \in OrderIds |-> [payout |-> 0, refund |-> 0]]

EscrowStep ==
    \/ \E w \in Workers, k \in Keys, a \in Amounts : BeginOpen(w, k, a)
    \/ \E w \in Workers, i \in OrderIds :
          \/ CommitOpen(w, i)
          \/ \E u \in Users : BeginAccept(w, i, u)
          \/ MarkPaid(w, i)
          \/ Dispute(w, i)
          \/ ReadRelease(w, i)
          \/ ReadCancel(w, i)
          \/ \E winner \in {"buyer", "seller"} : ReadResolve(w, i, winner)
    \/ \E w \in Workers :
          CommitAccept(w) \/ CommitRelease(w) \/ CommitCancel(w) \/ CommitResolve(w)

EscrowNext ==
    \/ EscrowStep
    \/ LedgerNext /\ UNCHANGED <<orders, escrowJournal>>

EscrowSpec == EscrowInit /\ [][EscrowNext]_escrowVars

(***************************************************************************)
(* Properties that hold for any number of requests in flight               *)
(***************************************************************************)

EscrowTypeOK ==
    /\ LedgerTypeOK(TransferTask \cup EscrowTask)
    /\ orders \in [OrderIds -> Order \cup {NoOrder}]
    /\ escrowJournal \in [OrderIds -> [payout : Nat, refund : Nat]]

Opened(i) == orders[i] # NoOrder

(* However release, cancel and resolve race, they move value and never     *)
(* make or destroy it: PayBuyer takes from the seller what it gives.  The  *)
(* only units that appear are those of transfers that end in half a unit.  *)
EscrowValueConserved ==
    \A c \in Currencies : Held(c) = Cardinality(Users) * Opening + DustIn(c)

(* A snapshot taken by escrowTransition may be stale, but only in its      *)
(* status: a payout decided on it goes from the order's seller to the      *)
(* order's buyer, in the order's amount.                                   *)
SnapshotNamesTheParties ==
    \A w \in Workers :
        worker[w].op \in {"release", "resolve_buyer"} =>
            LET t == worker[w]
            IN  /\ t.seen.buyer \in Users \ {t.seen.seller}
                /\ t.seen = [orders[t.order] EXCEPT !.status = t.seen.status]

(* An order is closed if and only if money moved for it, and once closed   *)
(* it is never open to a party again (the guarded UPDATEs of accept, paid  *)
(* and dispute cannot revive what an unguarded one closed).                *)
ClosedIffMoved ==
    \A i \in OrderIds :
        orders[i].status \in FinalStatus
            <=> escrowJournal[i].payout + escrowJournal[i].refund > 0

(***************************************************************************)
(* Properties that hold when requests are served one at a time             *)
(***************************************************************************)

EscrowHolds(k) ==
    [i \in OrderIds |->
        IF Opened(i) /\ orders[i].status \in ActiveStatus /\ SellerKey(orders[i]) = k
        THEN orders[i].amount ELSE 0]

(* The amount a deal holds and where it went, read off the status and the  *)
(* journal.                                                                *)
DealOf(i) ==
    IF ~Opened(i) THEN [state |-> "none"]
    ELSE [state |-> IF orders[i].status \in ActiveStatus THEN "held"
                    ELSE IF escrowJournal[i].payout > 0 THEN "paid_out" ELSE "refunded",
          seller |-> SellerKey(orders[i]), amount |-> orders[i].amount]

(***************************************************************************)
(* What the source says of concurrent requests                             *)
(***************************************************************************)

(* "Every state transition is guarded (status + party checked in one       *)
(* UPDATE ... WHERE status=... FOR UPDATE), so no double-release is        *)
(* possible" (finance_p2p.go:15-16).                                       *)
NoDoubleRelease == \A i \in OrderIds : escrowJournal[i].payout <= 1

=============================================================================
