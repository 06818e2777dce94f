---------------------------- MODULE EscrowPromise ----------------------------
(***************************************************************************)
(* What an escrow promises its users, without its statuses, requests and   *)
(* tables (finance_p2p.go:5-16): an amount leaves what the seller can      *)
(* spend when a deal is made, and comes back exactly once, to a buyer or   *)
(* to the seller.  What else moves on the same accounts is named, so that  *)
(* nothing can pass for it: a transfer takes from one user what it gives   *)
(* another, and a withdrawal sets aside what it takes and gives back what  *)
(* it set aside.  FinancePlane is shown to implement it.                   *)
(***************************************************************************)
EXTENDS Integers

CONSTANTS Users, Currencies, Amounts, Opening, DealIds

VARIABLES
    spendable,  \* what each user can spend in each currency
    withdrawn,  \* what withdrawals set aside of it
    dust,       \* the half units that transfers left with their senders
    deal        \* the amount each deal holds, and where it went

vars == <<spendable, withdrawn, dust, deal>>

NoDeal == [state |-> "none"]

(* A transfer of so many units gives the receiver what the sender loses;   *)
(* one that ends in half a unit gives the receiver the unit above, and     *)
(* leaves the sender the half.                                             *)
Transfer(from, to, c, units, half) ==
    /\ from # to
    /\ spendable[<<from, c>>] >= units
    /\ spendable' = [spendable EXCEPT ![<<from, c>>] = @ - units,
                                      ![<<to, c>>] = @ + units + half]
    /\ dust' = [dust EXCEPT ![<<from, c>>] = @ + half]
    /\ UNCHANGED <<withdrawn, deal>>

SetAside(k, amount) ==
    /\ spendable[k] >= amount
    /\ spendable' = [spendable EXCEPT ![k] = @ - amount]
    /\ withdrawn' = [withdrawn EXCEPT ![k] = @ + amount]
    /\ UNCHANGED <<dust, deal>>

GiveBack(k, amount) ==
    /\ withdrawn[k] >= amount
    /\ spendable' = [spendable EXCEPT ![k] = @ + amount]
    /\ withdrawn' = [withdrawn EXCEPT ![k] = @ - amount]
    /\ UNCHANGED <<dust, deal>>

Hold(i, k, amount) ==
    /\ deal[i] = NoDeal
    /\ spendable[k] >= amount
    /\ spendable' = [spendable EXCEPT ![k] = @ - amount]
    /\ deal' = [deal EXCEPT ![i] = [state |-> "held", seller |-> k, amount |-> amount]]
    /\ UNCHANGED <<withdrawn, dust>>

(* The held amount goes to k and the deal is over. *)
Finish(i, k, outcome) ==
    /\ deal[i].state = "held"
    /\ spendable' = [spendable EXCEPT ![k] = @ + deal[i].amount]
    /\ deal' = [deal EXCEPT ![i].state = outcome]
    /\ UNCHANGED <<withdrawn, dust>>

PayOut(i, buyer) ==
    LET seller == deal[i].seller
    IN  /\ deal[i].state = "held"
        /\ buyer # seller[1]
        /\ Finish(i, <<buyer, seller[2]>>, "paid_out")

Refund(i) ==
    /\ deal[i].state = "held"
    /\ Finish(i, deal[i].seller, "refunded")

Init ==
    /\ spendable = [k \in Users \X Currencies |-> Opening]
    /\ withdrawn = [k \in Users \X Currencies |-> 0]
    /\ dust = [k \in Users \X Currencies |-> 0]
    /\ deal = [i \in DealIds |-> NoDeal]

Next ==
    \/ \E from, to \in Users, c \in Currencies, half \in {0, 1} :
          \E units \in 0 .. spendable[<<from, c>>] : Transfer(from, to, c, units, half)
    \/ \E k \in Users \X Currencies, a \in Amounts : SetAside(k, a) \/ GiveBack(k, a)
    \/ \E i \in DealIds, k \in Users \X Currencies, a \in Amounts : Hold(i, k, a)
    \/ \E i \in DealIds : Refund(i) \/ \E u \in Users : PayOut(i, u)

Spec == Init /\ [][Next]_vars

=============================================================================
