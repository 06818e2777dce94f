--------------------------- MODULE FinanceConvert ---------------------------
(***************************************************************************)
(* The instant convert engine of the UserWallet finance plane              *)
(* (src/go/wallet_api/finance_convert.go): a user converts an amount at    *)
(* the rate an admin set for the pair.                                     *)
(*                                                                         *)
(* The rate is read inside the transaction without a lock, so an admin may *)
(* change or delete it between that read and the commit: the read and the  *)
(* rest of the transaction are two steps.                                  *)
(***************************************************************************)
EXTENDS FinanceLedger

CONSTANT Rates      \* rates admins set, in units of the target per unit of the source

ASSUME ConvertAssumption == Rates \subseteq Nat \ {0}

VARIABLES
    rate,           \* convert_rate; 0 when the pair has no row
    converted,      \* to_amount less from_amount over convert_order, per currency
    answer          \* how the last conversion request was answered

convertVars == <<ledgerVars, rate, converted, answer>>

Pairs == {p \in Currencies \X Currencies : p[1] # p[2]}

Answers ==
    {"none", "converted", "no_rate", "does_not_balance", "insufficient_funds",
     "not_recorded"}

ConvertTask ==
    [op : {"convert", "convert_at"}, user : Users, pair : Pairs,
     amount : Amounts, rate : Rates \cup {0}]

Answered(w, a) ==
    /\ answer' = a
    /\ worker' = [worker EXCEPT ![w] = Idle]

BeginConvert(w, u, p, amount) ==
    /\ worker[w] = Idle
    /\ SwitchEnabled(p[1], "convert") /\ SwitchEnabled(p[2], "convert")
    /\ worker' = [worker EXCEPT ![w] =
            [op |-> "convert", user |-> u, pair |-> p, amount |-> amount, rate |-> 0]]
    /\ UNCHANGED <<accounts, posted, dust, off, rate, converted, answer>>

ReadRate(w) ==
    LET t == worker[w]
    IN  /\ t.op = "convert"
        /\ \/ /\ rate[t.pair] = 0
              /\ Answered(w, "no_rate")
           \/ /\ rate[t.pair] # 0
              /\ worker' = [worker EXCEPT ![w].op = "convert_at",
                                          ![w].rate = rate[t.pair]]
              /\ UNCHANGED answer
        /\ UNCHANGED <<accounts, posted, dust, off, rate, converted>>

(* The CHECK constraints of convert_order, after rounding.                 *)
Recordable(debit, credit) == ToColumn(debit.amount) > 0 /\ ToColumn(credit.amount) > 0

(* Mutant of CommitConvert: the order is recorded at the rate read again.  *)
CommitConvertRereading(w) ==
    LET t == worker[w]
        debit == [key |-> <<t.user, t.pair[1]>>, amount |-> t.amount]
        credit == [key |-> <<t.user, t.pair[2]>>, amount |-> t.amount * t.rate]
    IN  /\ t.op = "convert_at"
        /\ LedgerPost(debit, credit)
        /\ Recordable(debit, credit)
        /\ converted' = [converted EXCEPT ![t.pair[1]] = @ - ToColumn(debit.amount),
                                          ![t.pair[2]] = @ + ToColumn(t.amount * rate[t.pair])]
        /\ Answered(w, "converted")
        /\ UNCHANGED <<off, rate>>

(* The journal with its two legs, the convert_order row and the commit, or *)
(* the error of ledgerPost or of the INSERT.  Amount times rate is not     *)
(* rounded; the columns it is written to are.                              *)
CommitConvert(w) ==
    LET t == worker[w]
        debit == [key |-> <<t.user, t.pair[1]>>, amount |-> t.amount]
        credit == [key |-> <<t.user, t.pair[2]>>, amount |-> t.amount * t.rate]
    IN  /\ t.op = "convert_at"
        /\ \/ /\ LedgerPost(debit, credit)
              /\ Recordable(debit, credit)
              /\ converted' = [converted EXCEPT ![t.pair[1]] = @ - ToColumn(debit.amount),
                                                ![t.pair[2]] = @ + ToColumn(credit.amount)]
              /\ Answered(w, "converted")
           \/ /\ ~BalancedLegs(debit, credit)
              /\ Answered(w, "does_not_balance")
              /\ UNCHANGED <<accounts, posted, dust, converted>>
           \/ /\ BalancedLegs(debit, credit)
              /\ ~RowOK(Debited(debit.key, debit.amount)[debit.key])
              /\ Answered(w, "insufficient_funds")
              /\ UNCHANGED <<accounts, posted, dust, converted>>
           \/ /\ BalancedLegs(debit, credit)
              /\ RowOK(Debited(debit.key, debit.amount)[debit.key])
              /\ ~Recordable(debit, credit)
              /\ Answered(w, "not_recorded")
              /\ UNCHANGED <<accounts, posted, dust, converted>>
        /\ UNCHANGED <<off, rate>>

(* handleAdminSetConvertRate and handleAdminDeleteConvertRate. *)
SetConvertRate(p, r) ==
    /\ rate' = [rate EXCEPT ![p] = r]
    /\ UNCHANGED <<ledgerVars, converted, answer>>

DeleteConvertRate(p) ==
    /\ rate[p] # 0
    /\ rate' = [rate EXCEPT ![p] = 0]
    /\ UNCHANGED <<ledgerVars, converted, answer>>

ConvertInit ==
    /\ LedgerInit
    /\ rate = [p \in Pairs |-> 0]
    /\ converted = [c \in Currencies |-> 0]
    /\ answer = "none"

ConvertStep ==
    \/ \E w \in Workers, u \in Users, p \in Pairs, a \in Amounts :
          BeginConvert(w, u, p, a)
    \/ \E w \in Workers : ReadRate(w) \/ CommitConvert(w)
    \/ \E p \in Pairs : DeleteConvertRate(p) \/ \E r \in Rates : SetConvertRate(p, r)

ConvertNext ==
    \/ ConvertStep
    \/ LedgerNext /\ UNCHANGED <<rate, converted, answer>>

ConvertSpec == ConvertInit /\ [][ConvertNext]_convertVars

ConvertTypeOK ==
    /\ LedgerTypeOK(TransferTask \cup ConvertTask)
    /\ rate \in [Pairs -> Rates \cup {0}]
    /\ converted \in [Currencies -> Int]
    /\ answer \in Answers

(* What the accounts of a currency hold is what they were opened with plus *)
(* what the recorded conversions brought in and took out, and the half     *)
(* units that debits kept: a conversion that raced a rate change, a        *)
(* transfer or another conversion is either recorded with the amounts it   *)
(* moved or leaves no trace (handleConvert is one transaction), and        *)
(* rounding on the way can add the half unit of a debit and nothing else.  *)
OrdersExplainBalances ==
    \A c \in Currencies :
        Held(c) = Cardinality(Users) * Opening + converted[c] + DustIn(c)

(* "A conversion is one atomic journal: debit the source currency, credit  *)
(* amount*rate of the target currency" (finance_convert.go:7-8): such a    *)
(* journal is one the ledger accepts.                                      *)
ConvertJournalBalances == answer # "does_not_balance"

=============================================================================
