---------------------------- MODULE FinanceLedger ----------------------------
(***************************************************************************)
(* The double-entry ledger of the UserWallet finance plane                 *)
(* (src/go/wallet_api/finance_ledger.go): the ledger_account table, the    *)
(* four helpers every money-moving handler goes through, the per-token     *)
(* switches, and the internal transfer.                                    *)
(*                                                                         *)
(* A handler runs on a worker.  Its gate (switch, KYC) is read on the      *)
(* connection pool before its transaction begins, so a gated handler is    *)
(* two steps: Begin... reads the gate and parks the request on the worker, *)
(* Commit... is the whole transaction.  Row locks and re-evaluated WHERE   *)
(* clauses make the statements of one transaction equivalent to one step   *)
(* at its commit.  Abort is every way a transaction ends without one: a    *)
(* refused UPDATE, a CHECK, a database error, a client that went away.     *)
(*                                                                         *)
(* Requests name decimals of any length; every column they reach is        *)
(* NUMERIC(38,18) and rounds what it is given.  The amounts of requests    *)
(* are therefore counted in parts of the ledger's unit (the last decimal   *)
(* of the columns) and those of rows in units.                             *)
(***************************************************************************)
EXTENDS Integers, FiniteSets, Sums

CONSTANTS
    Users,          \* users(id)
    KycVerified,    \* users the listing service reports as verified
    Currencies,
    Parts,          \* how many parts of the ledger's unit a request can name
    Amounts,        \* request amounts, in those parts
    Opening,        \* opening balance of every account, in units (nothing
                    \* under wallet_api writes a deposit journal)
    Tolerance,      \* the float slack of validateLegs, in parts
    MaxDust,        \* bound: half units an account keeps in a debit
    Features,       \* switch columns a run exercises
    Workers         \* requests the server works on at one time

ASSUME LedgerAssumption ==
    /\ IsFiniteSet(Users)
    /\ KycVerified \subseteq Users
    /\ Parts \in Nat \ {0}
    /\ Amounts \subseteq Nat \ {0}
    /\ Opening \in Nat
    /\ Tolerance \in Nat
    /\ MaxDust \in Nat

VARIABLES
    accounts,       \* ledger_account: [balance, locked] for each user, currency
    posted,         \* sum of the ledger_entry amounts of each account
    dust,           \* history: debits of each account that ended in exactly
                    \* half a unit
    off,            \* token_switch: the features turned off for each currency
    worker          \* what each worker is in the middle of

ledgerVars == <<accounts, posted, dust, off, worker>>

Keys == Users \X Currencies

Idle == [op |-> "idle"]

TransferTask ==
    {t \in [op : {"transfer"}, from : Users, to : Users, currency : Currencies,
            amount : Amounts] : t.from # t.to}

(***************************************************************************)
(* The helpers                                                             *)
(***************************************************************************)

(* What a NUMERIC(38,18) column keeps of x parts: the nearest unit, and    *)
(* away from zero from half way.                                           *)
ToColumn(x) ==
    IF x >= 0 THEN (2 * x + Parts) \div (2 * Parts)
              ELSE -((Parts - 2 * x) \div (2 * Parts))

(* The amounts that a column with CHECK (amount > 0) can hold. *)
StoredAmounts == {ToColumn(a) : a \in Amounts} \ {0}

(* One when a amounts to so many units and a half. *)
HalfUnit(a) == IF 2 * (a % Parts) = Parts THEN 1 ELSE 0

(* The CHECK constraints of ledger_account. *)
RowOK(row) == row.balance >= 0 /\ row.locked >= 0 /\ row.locked <= row.balance

Available(k) == accounts[k].balance - accounts[k].locked

(* validateLegs for one debit and one credit, all that any caller passes:  *)
(* each currency must net to zero, up to the float tolerance.              *)
BalancedLegs(debit, credit) ==
    /\ debit.amount > 0 /\ credit.amount > 0
    /\ IF debit.key[2] = credit.key[2]
         THEN /\ debit.amount - credit.amount <= Tolerance
              /\ credit.amount - debit.amount <= Tolerance
         ELSE debit.amount <= Tolerance /\ credit.amount <= Tolerance

(* balance + (-amount)::numeric, and balance + amount::numeric: the sum is  *)
(* rounded, so a debit that ends in half a unit leaves that half in the    *)
(* account, while a credit of the same amount is rounded up.               *)
Debited(k, amount) ==
    [accounts EXCEPT ![k].balance = ToColumn(Parts * @ - amount)]
Credited(acc, k, amount) ==
    [acc EXCEPT ![k].balance = ToColumn(Parts * @ + amount)]

(* The entries of the two legs, whose amounts round on their own.          *)
Entered(debit, credit) ==
    /\ posted' = [posted EXCEPT ![debit.key] = @ - ToColumn(debit.amount),
                                ![credit.key] = @ + ToColumn(credit.amount)]
    /\ dust' = [dust EXCEPT ![debit.key] = @ + HalfUnit(debit.amount)]
    /\ dust'[debit.key] <= MaxDust

(* Mutants of LedgerPost: no CHECK on the debited row; the entry of the    *)
(* credit leg forgotten.                                                   *)
LedgerPostUnchecked(debit, credit) ==
    /\ BalancedLegs(debit, credit)
    /\ accounts' = Credited(Debited(debit.key, debit.amount), credit.key, credit.amount)
    /\ Entered(debit, credit)

LedgerPostOneLeg(debit, credit) ==
    LET debited == Debited(debit.key, debit.amount)
    IN  /\ BalancedLegs(debit, credit)
        /\ RowOK(debited[debit.key])
        /\ accounts' = Credited(debited, credit.key, credit.amount)
        /\ Entered(debit, [credit EXCEPT !.amount = 0])

(* ledgerPost: the legs are entered and the balances moved, or the CHECK   *)
(* on the debited row refuses the whole transaction.                       *)
LedgerPost(debit, credit) ==
    LET debited == Debited(debit.key, debit.amount)
    IN  /\ BalancedLegs(debit, credit)
        /\ RowOK(debited[debit.key])
        /\ accounts' = Credited(debited, credit.key, credit.amount)
        /\ Entered(debit, credit)

(* Mutant of LedgerLock: the balance is not looked at. *)
LedgerLockUnchecked(k, amount) ==
    accounts' = [accounts EXCEPT ![k].locked = @ + ToColumn(amount)]

(* ledgerLock: available -> locked, for the amount of a request. *)
LedgerLock(k, amount) ==
    /\ Parts * Available(k) >= amount
    /\ accounts' = [accounts EXCEPT ![k].locked = @ + ToColumn(amount)]

(* ledgerUnlock: locked -> available, for the amount of a row. *)
LedgerUnlock(k, amount) ==
    /\ accounts[k].locked >= amount
    /\ accounts' = [accounts EXCEPT ![k].locked = @ - amount]

(* Mutant of Settled: the lock stays. *)
SettledKeepingLock(k, amount) == [accounts EXCEPT ![k].balance = @ - amount]

(* ledgerSettleLocked: the locked amount leaves the account.  No           *)
(* ledger_entry is written.                                                *)
Settled(k, amount) ==
    [accounts EXCEPT ![k] = [balance |-> @.balance - amount, locked |-> @.locked - amount]]

LedgerSettleLocked(k, amount) ==
    /\ accounts[k].locked >= amount
    /\ accounts' = Settled(k, amount)

(* switchEnabled: no row means enabled. *)
SwitchEnabled(c, feature) == feature \notin off[c]

(***************************************************************************)
(* handleFinanceTransfer and handleAdminSetSwitch                          *)
(***************************************************************************)

BeginTransfer(w, from, to, c, amount) ==
    /\ worker[w] = Idle
    /\ SwitchEnabled(c, "p2p")
    /\ from \in KycVerified
    /\ to # from
    /\ to \in KycVerified
    /\ worker' = [worker EXCEPT ![w] =
                    [op |-> "transfer", from |-> from, to |-> to,
                     currency |-> c, amount |-> amount]]
    /\ UNCHANGED <<accounts, posted, dust, off>>

CommitTransfer(w) ==
    LET t == worker[w]
    IN  /\ t.op = "transfer"
        /\ LedgerPost([key |-> <<t.from, t.currency>>, amount |-> t.amount],
                      [key |-> <<t.to, t.currency>>, amount |-> t.amount])
        /\ worker' = [worker EXCEPT ![w] = Idle]
        /\ UNCHANGED off

Abort(w) ==
    /\ worker[w] # Idle
    /\ worker' = [worker EXCEPT ![w] = Idle]
    /\ UNCHANGED <<accounts, posted, dust, off>>

(* handleAdminSetSwitch: one upsert overwrites all the columns of a token. *)
SetSwitch(c, disabled) ==
    /\ off' = [off EXCEPT ![c] = disabled]
    /\ UNCHANGED <<accounts, posted, dust, worker>>

LedgerInit ==
    /\ accounts = [k \in Keys |-> [balance |-> Opening, locked |-> 0]]
    /\ posted = [k \in Keys |-> Opening]
    /\ dust = [k \in Keys |-> 0]
    /\ off = [c \in Currencies |-> {}]
    /\ worker = [w \in Workers |-> Idle]

LedgerNext ==
    \/ \E w \in Workers, from, to \in Users, c \in Currencies, a \in Amounts :
          BeginTransfer(w, from, to, c, a)
    \/ \E w \in Workers : CommitTransfer(w) \/ Abort(w)
    \/ \E c \in Currencies, d \in SUBSET Features : SetSwitch(c, d)

(***************************************************************************)
(* What the ledger promises                                                *)
(***************************************************************************)

Account == [balance : Nat, locked : Nat]

LedgerTypeOK(Task) ==
    /\ accounts \in [Keys -> Account]
    /\ posted \in [Keys -> Int]
    /\ dust \in [Keys -> Nat]
    /\ off \in [Currencies -> SUBSET Features]
    /\ worker \in [Workers -> {Idle} \cup Task]

(* "balances can never go negative" and "locked funds can never exceed     *)
(* balance" (finance_ledger.go:10-11): the settle, unlock and credit       *)
(* UPDATEs carry weaker WHERE clauses than the CHECK constraints, so no    *)
(* step may rely on a constraint it could trip.                            *)
LedgerOK == \A k \in Keys : RowOK(accounts[k])

(* What the users hold in a currency, and the half units its debits kept.  *)
Held(c) == SetSum([u \in Users |-> accounts[<<u, c>>].balance], Users)
DustIn(c) == SetSum([u \in Users |-> dust[<<u, c>>]], Users)

(* The entries of an account add up to its balance, but for the half units *)
(* its debits kept: a debit of so many units and a half is entered rounded *)
(* up and taken rounded down.  Nothing else, in any order of transfers and *)
(* conversions, parts the two ("every balance movement is a journal with   *)
(* >= 2 legs that nets to zero per currency", finance_ledger.go:8-9).      *)
EntriesExplainBalances ==
    \A k \in Keys : accounts[k].balance = posted[k] + dust[k]

=============================================================================
