------------------------ MODULE FinanceLedger_proofs ------------------------
(***************************************************************************)
(* What the ledger helpers preserve: each of them keeps every account      *)
(* typed and within its CHECK constraints, and what rounding to the columns *)
(* of the tables does to the amounts.  The proofs of the modules built on  *)
(* the ledger cite these lemmas, one per helper.                           *)
(***************************************************************************)
EXTENDS FinanceLedger, Sums_proofs, TLAPS

(***************************************************************************)
(* What NUMERIC(38,18) columns keep                                        *)
(***************************************************************************)

(* Division with remainder.                                                *)
LEMMA DivDef ==
    ASSUME NEW n \in Nat \ {0}, NEW x \in Nat
    PROVE  /\ x \div n \in Nat /\ x % n \in 0 .. n - 1
           /\ x = n * (x \div n) + (x % n)
OBVIOUS

(* A multiple that falls within one step of another is not above it.       *)
LEMMA Between ==
    ASSUME NEW n \in Nat \ {0}, NEW p \in Int, NEW q \in Int, n * p < n * q + n
    PROVE p <= q
<1>1. SUFFICES ASSUME p >= q + 1 PROVE FALSE
  OBVIOUS
<1>2. n * p >= n * (q + 1)
  BY <1>1
<1>3. n * (q + 1) = n * q + n
  OBVIOUS
<1> QED BY <1>2, <1>3

(* The quotient is the only one that fits.                                 *)
LEMMA Unique ==
    ASSUME NEW n \in Nat \ {0}, NEW x \in Nat, NEW q \in Int,
           n * q <= x, x < n * q + n
    PROVE x \div n = q
<1>1. /\ x \div n \in Nat /\ n * (x \div n) <= x /\ x < n * (x \div n) + n
  BY DivDef
<1> DEFINE p == x \div n
<1>2. p \in Int /\ n * p \in Int /\ n * q \in Int
  BY <1>1
<1>3. n * p < n * q + n /\ n * q < n * p + n
  BY <1>1, <1>2
<1> HIDE DEF p
<1>4. p <= q /\ q <= p
  BY <1>2, <1>3, Between
<1> QED BY <1>2, <1>4 DEF p

(* A column keeps q of q units and r parts, or q + 1 from half a unit on.  *)
LEMMA ColumnOf ==
    ASSUME NEW q \in Int, NEW r \in 0 .. Parts - 1,
           NEW x \in Nat, x = Parts * q + r
    PROVE  ToColumn(x) = IF 2 * r >= Parts THEN q + 1 ELSE q
<1> DEFINE n == 2 * Parts
           y == 2 * x + Parts
<1>1. n \in Nat \ {0} /\ y \in Nat
  BY LedgerAssumption
<1>2. Parts * q \in Int /\ n * q = 2 * (Parts * q) /\ n * (q + 1) = 2 * (Parts * q) + 2 * Parts
  BY LedgerAssumption
<1>3. ToColumn(x) = y \div n
  BY DEF ToColumn
<1>4. CASE 2 * r >= Parts
  <2>1. n * (q + 1) <= y /\ y < n * (q + 1) + n
    BY <1>2, <1>4, LedgerAssumption
  <2> HIDE DEF n, y
  <2>2. y \div n = q + 1
    BY <1>1, <2>1, Unique
  <2> QED BY <1>3, <1>4, <2>2
<1>5. CASE 2 * r < Parts
  <2>1. n * q <= y /\ y < n * q + n
    BY <1>2, <1>5, LedgerAssumption
  <2> HIDE DEF n, y
  <2>2. y \div n = q
    BY <1>1, <2>1, Unique
  <2> QED BY <1>3, <1>5, <2>2, LedgerAssumption
<1> QED BY <1>4, <1>5, LedgerAssumption

(* A balance of b units to which a parts are added grows by what a column  *)
(* keeps of a (finance_ledger.go:278-282 for a positive delta).             *)
LEMMA ColumnCredit ==
    ASSUME NEW b \in Nat, NEW a \in Nat
    PROVE  ToColumn(Parts * b + a) = b + ToColumn(a) /\ ToColumn(a) \in Nat
<1> DEFINE q == a \div Parts
           r == a % Parts
<1>2. q \in Nat /\ r \in 0 .. Parts - 1 /\ a = Parts * q + r
  BY LedgerAssumption, DivDef
<1> HIDE DEF q, r
<1>3. Parts * (b + q) = Parts * b + Parts * q /\ Parts * b \in Nat /\ Parts * q \in Nat
  BY <1>2, LedgerAssumption
<1>4. ToColumn(a) = IF 2 * r >= Parts THEN q + 1 ELSE q
  <2>1. q \in Int /\ a \in Nat
    BY <1>2
  <2> QED BY <1>2, <2>1, ColumnOf, Zenon
<1>5. ToColumn(Parts * b + a) = IF 2 * r >= Parts THEN b + q + 1 ELSE b + q
  <2>1. Parts * b + a = Parts * (b + q) + r /\ b + q \in Int /\ Parts * b + a \in Nat
    BY <1>2, <1>3
  <2> QED BY <1>2, <2>1, ColumnOf, Zenon
<1> QED BY <1>2, <1>4, <1>5

(* A balance of b units from which a parts are taken falls by what a column *)
(* keeps of a, or by one unit less when a ends in exactly half a unit      *)
(* (finance_ledger.go:278-282 for a negative delta).                        *)
LEMMA ColumnDebit ==
    ASSUME NEW b \in Nat, NEW a \in Nat, ToColumn(Parts * b - a) >= 0
    PROVE  ToColumn(Parts * b - a) = b - ToColumn(a) + HalfUnit(a)
<1> DEFINE q == a \div Parts
           r == a % Parts
<1>2. q \in Nat /\ r \in 0 .. Parts - 1 /\ a = Parts * q + r
  BY LedgerAssumption, DivDef
<1>3. HalfUnit(a) = IF 2 * r = Parts THEN 1 ELSE 0
  BY <1>2 DEF HalfUnit
<1> HIDE DEF q, r
<1>4. /\ Parts * (b - q) = Parts * b - Parts * q /\ Parts * b \in Nat /\ Parts * q \in Nat
      /\ Parts * (b - q - 1) = Parts * b - Parts * q - Parts
  BY <1>2, LedgerAssumption
<1>5. ToColumn(a) = IF 2 * r >= Parts THEN q + 1 ELSE q
  <2>1. q \in Int /\ a \in Nat
    BY <1>2
  <2> QED BY <1>2, <2>1, ColumnOf, Zenon
<1>6. CASE r = 0 /\ Parts * b - a >= 0
  <2>1. Parts * b - a = Parts * (b - q) + r /\ Parts * b - a \in Nat /\ b - q \in Int
    BY <1>2, <1>4, <1>6
  <2>2. ToColumn(Parts * b - a) = IF 2 * r >= Parts THEN b - q + 1 ELSE b - q
    BY <1>2, <2>1, ColumnOf, ZenonT(30)
  <2> QED BY <1>2, <1>3, <1>5, <1>6, <2>2, LedgerAssumption
<1>7. CASE r # 0 /\ Parts * b - a >= 0
  <2>1. Parts * b - a = Parts * (b - q - 1) + (Parts - r) /\ Parts - r \in 0 .. Parts - 1
        /\ Parts * b - a \in Nat
    BY <1>2, <1>4, <1>7, LedgerAssumption
  <2>2. ToColumn(Parts * b - a) = IF 2 * (Parts - r) >= Parts THEN b - q - 1 + 1 ELSE b - q - 1
    <3>1. b - q - 1 \in Int
      BY <1>2
    <3> QED BY <1>7, <2>1, <3>1, ColumnOf
  <2> QED BY <1>2, <1>3, <1>5, <1>7, <2>2, LedgerAssumption
<1>8. CASE Parts * b - a < 0
  <2> DEFINE n == 2 * Parts
             y == Parts - 2 * (Parts * b - a)
  <2>1. n \in Nat \ {0} /\ y \in Nat /\ Parts * b \in Int
    BY <1>8, LedgerAssumption
  <2>2. ToColumn(Parts * b - a) = -(y \div n)
    BY <1>8, <2>1 DEF ToColumn
  <2>3. y < n /\ y \div n = 0
    <3> HIDE DEF n, y
    <3>1. y \div n \in Nat /\ y % n \in 0 .. n - 1 /\ y = n * (y \div n) + (y % n)
      BY <2>1, DivDef
    <3>2. y \div n = 0
      BY <2>2, <3>1
    <3> QED BY <2>1, <3>1, <3>2
  <2>4. 2 * (a - Parts * b) < Parts /\ a - Parts * b > 0
    <3>1. Parts - 2 * (Parts * b - a) < 2 * Parts
      BY <2>3
    <3> QED BY <1>8, <2>1, <3>1, LedgerAssumption
  <2>5. a \div Parts = b
    <3>1. Parts * b <= a /\ a < Parts * b + Parts
      BY <2>1, <2>4, LedgerAssumption
    <3> QED BY <3>1, LedgerAssumption, Unique
  <2>6. q = b /\ r = a - Parts * b /\ 2 * r < Parts
    <3>1. q = b
      BY <2>5 DEF q
    <3> QED BY <1>2, <2>1, <2>4, <3>1
  <2> QED BY <1>2, <1>3, <1>5, <2>2, <2>3, <2>6, LedgerAssumption
<1> QED BY <1>2, <1>4, <1>6, <1>7, <1>8

(* A balance that covers a parts covers what a column keeps of them.       *)
LEMMA ColumnFits ==
    ASSUME NEW b \in Nat, NEW a \in Nat, Parts * b >= a
    PROVE  ToColumn(a) <= b
<1> DEFINE q == a \div Parts
           r == a % Parts
<1>2. q \in Nat /\ r \in 0 .. Parts - 1 /\ a = Parts * q + r
  BY LedgerAssumption, DivDef
<1> HIDE DEF q, r
<1>3. ToColumn(a) = IF 2 * r >= Parts THEN q + 1 ELSE q
  <2>1. q \in Int /\ a \in Nat
    BY <1>2
  <2> QED BY <1>2, <2>1, ColumnOf, Zenon
<1>4. Parts * q \in Nat /\ Parts * b \in Nat /\ Parts \in Nat \ {0}
  BY <1>2, LedgerAssumption
<1>5. CASE r = 0
  <2>1. Parts * q < Parts * b + Parts
    BY <1>2, <1>4, <1>5
  <2> QED BY <1>2, <1>3, <1>4, <1>5, <2>1, Between
<1>6. CASE r # 0
  <2>1. Parts * (q + 1) < Parts * b + Parts
    <3>1. Parts * (q + 1) = Parts * q + Parts
      BY <1>2, LedgerAssumption
    <3> QED BY <1>2, <1>4, <1>6, <3>1
  <2>2. q + 1 <= b
    BY <1>2, <1>4, <2>1, Between
  <2> QED BY <1>2, <1>3, <2>2
<1> QED BY <1>5, <1>6

(* An amount of so many units and a half is rounded up.                    *)
LEMMA HalfUnitUp ==
    ASSUME NEW a \in Nat
    PROVE  HalfUnit(a) \in {0, 1} /\ HalfUnit(a) <= ToColumn(a)
<1> DEFINE q == a \div Parts
           r == a % Parts
<1>2. q \in Nat /\ r \in 0 .. Parts - 1 /\ a = Parts * q + r
  BY LedgerAssumption, DivDef
<1>3. HalfUnit(a) = IF 2 * r = Parts THEN 1 ELSE 0
  BY <1>2 DEF HalfUnit
<1> HIDE DEF q, r
<1>4. ToColumn(a) = IF 2 * r >= Parts THEN q + 1 ELSE q
  <2>1. q \in Int /\ a \in Nat
    BY <1>2
  <2> QED BY <1>2, <2>1, ColumnOf, Zenon
<1> QED BY <1>2, <1>3, <1>4, LedgerAssumption

(***************************************************************************)
(* The helpers keep the accounts sound                                     *)
(***************************************************************************)

Sound == accounts \in [Keys -> Account] /\ LedgerOK

(* The accounts a journal leaves when its debit, and then its credit, has  *)
(* been applied.                                                           *)
PostDebited(debit) ==
    [accounts EXCEPT ![debit.key].balance =
        @ - ToColumn(debit.amount) + HalfUnit(debit.amount)]
PostCredited(debit, credit) ==
    [PostDebited(debit) EXCEPT ![credit.key].balance = @ + ToColumn(credit.amount)]

(* A step that leaves the accounts alone keeps them sound. *)
LEMMA AccountsUnchanged ==
    ASSUME Sound, UNCHANGED accounts
    PROVE  Sound'
BY DEF Sound, LedgerOK, RowOK

(* What a column keeps of an amount is an amount.                          *)
LEMMA RowAmount ==
    ASSUME NEW amount \in Nat
    PROVE  ToColumn(amount) \in Nat
<1>1. 0 \in Nat /\ ToColumn(Parts * 0 + amount) = 0 + ToColumn(amount) /\ ToColumn(amount) \in Nat
  BY ColumnCredit
<1> QED
  BY <1>1

(* A hold is taken from the available balance. *)
LEMMA LockSound ==
    ASSUME NEW k \in Keys, NEW amount \in Nat, Sound, LedgerLock(k, amount)
    PROVE  Sound'
<1>1. /\ accounts[k] \in Account /\ accounts[k].locked <= accounts[k].balance
      /\ Available(k) \in Nat
  BY DEF Sound, LedgerOK, RowOK, Available, Account
<1>2. ToColumn(amount) \in Nat /\ ToColumn(amount) <= Available(k)
  BY <1>1, RowAmount, ColumnFits DEF LedgerLock
<1> QED
  BY <1>1, <1>2 DEF Sound, LedgerOK, RowOK, LedgerLock, Available, Account

(* A hold is released. *)
LEMMA UnlockSound ==
    ASSUME NEW k \in Keys, NEW amount \in Nat, Sound, LedgerUnlock(k, amount)
    PROVE  Sound'
BY DEF Sound, LedgerOK, RowOK, LedgerUnlock, Account

(* A hold leaves the account: the UPDATE checks only the locked column,    *)
(* and the balance stays non-negative because locked <= balance before.    *)
LEMMA SettleSound ==
    ASSUME NEW k \in Keys, NEW amount \in Nat, Sound, LedgerSettleLocked(k, amount)
    PROVE  Sound'
<1> DEFINE row == accounts[k]
<1>1. row \in Account /\ RowOK(row) /\ row.locked >= amount
  BY DEF Sound, LedgerOK, LedgerSettleLocked
<1>2. accounts' = [accounts EXCEPT ![k] = [balance |-> row.balance - amount,
                                           locked |-> row.locked - amount]]
  BY DEF Sound, LedgerSettleLocked, Settled, Account
<1>3. /\ row.balance - amount \in Nat /\ row.locked - amount \in Nat
      /\ row.locked - amount <= row.balance - amount
  BY <1>1 DEF RowOK, Account
<1> QED
  BY <1>2, <1>3 DEF Sound, LedgerOK, RowOK, Account

(* What a journal of two legs does to its accounts and its entries.        *)
LEMMA PostMoves ==
    ASSUME NEW debit \in [key : Keys, amount : Nat],
           NEW credit \in [key : Keys, amount : Nat],
           Sound, LedgerPost(debit, credit)
    PROVE  /\ ToColumn(debit.amount) \in Nat /\ ToColumn(credit.amount) \in Nat
           /\ HalfUnit(debit.amount) \in {0, 1}
           /\ Debited(debit.key, debit.amount) = PostDebited(debit)
           /\ accounts' = PostCredited(debit, credit)
           /\ RowOK(PostDebited(debit)[debit.key])
<1> DEFINE row == accounts[debit.key]
           fall == ToColumn(Parts * row.balance - debit.amount)
           rest == PostDebited(debit)[credit.key]
<1>1. accounts \in [Keys -> Account] /\ row \in Account
  BY DEF Sound
<1>2. /\ debit.key \in Keys /\ credit.key \in Keys
      /\ debit.amount \in Nat /\ credit.amount \in Nat /\ row.balance \in Nat
  BY <1>1 DEF Account
<1>3. /\ ToColumn(debit.amount) \in Nat /\ ToColumn(credit.amount) \in Nat
      /\ HalfUnit(debit.amount) \in {0, 1}
  BY <1>2, RowAmount DEF HalfUnit
<1>4. Debited(debit.key, debit.amount) = [accounts EXCEPT ![debit.key].balance = fall]
  BY DEF Debited
<1>5. RowOK(Debited(debit.key, debit.amount)[debit.key])
  BY DEF LedgerPost
<1> HIDE DEF fall
<1>6. fall >= 0
  BY <1>1, <1>2, <1>4, <1>5 DEF RowOK
<1>7. fall = row.balance - ToColumn(debit.amount) + HalfUnit(debit.amount)
  BY <1>2, <1>6, ColumnDebit DEF fall
<1>8. Debited(debit.key, debit.amount) = PostDebited(debit)
  BY <1>4, <1>7 DEF PostDebited
<1>9. rest.balance \in Nat
  <2>1. PostDebited(debit)[debit.key].balance = fall /\ fall \in Nat
    BY <1>1, <1>2, <1>3, <1>6, <1>7 DEF PostDebited, Account
  <2>2. \A q \in Keys : q # debit.key => PostDebited(debit)[q] = accounts[q]
    BY <1>1, <1>2 DEF PostDebited
  <2>3. CASE credit.key = debit.key
    BY <2>1, <2>3
  <2>4. CASE credit.key # debit.key
    BY <1>1, <1>2, <2>2, <2>4 DEF Account
  <2> QED BY <2>3, <2>4
<1>10. ToColumn(Parts * rest.balance + credit.amount) = rest.balance + ToColumn(credit.amount)
  BY <1>2, <1>9, ColumnCredit
<1>11. accounts' = [PostDebited(debit) EXCEPT ![credit.key].balance =
                       ToColumn(Parts * rest.balance + credit.amount)]
  BY <1>8 DEF LedgerPost, Credited
<1>12. accounts' = PostCredited(debit, credit)
  BY <1>10, <1>11 DEF PostCredited
<1> QED
  BY <1>3, <1>5, <1>8, <1>12

(* Writing the balance of a row leaves its lock.                           *)
LEMMA WriteBalance ==
    ASSUME NEW acc \in [Keys -> Account], NEW k \in Keys, NEW v
    PROVE  [acc EXCEPT ![k].balance = v]
             = [acc EXCEPT ![k] = [balance |-> v, locked |-> @.locked]]
<1>1. acc[k] \in Account
  OBVIOUS
<1>2. [acc[k] EXCEPT !.balance = v] = [balance |-> v, locked |-> acc[k].locked]
  BY <1>1 DEF Account
<1> QED
  BY <1>2

(* A journal of two legs keeps the accounts sound. *)
LEMMA PostSound ==
    ASSUME NEW debit \in [key : Keys, amount : Nat],
           NEW credit \in [key : Keys, amount : Nat],
           Sound, LedgerPost(debit, credit)
    PROVE  Sound'
<1> DEFINE debited == PostDebited(debit)
<1>1. /\ ToColumn(debit.amount) \in Nat /\ ToColumn(credit.amount) \in Nat
      /\ HalfUnit(debit.amount) \in {0, 1}
      /\ accounts' = PostCredited(debit, credit)
      /\ RowOK(debited[debit.key])
  BY PostMoves
<1>2. debited \in [Keys -> Account] /\ \A q \in Keys : RowOK(debited[q])
  <2>1. debited = [accounts EXCEPT ![debit.key] =
                     [balance |-> @.balance - ToColumn(debit.amount) + HalfUnit(debit.amount),
                      locked |-> @.locked]]
    BY WriteBalance DEF PostDebited, Sound
  <2>2. debited[debit.key] =
          [balance |-> accounts[debit.key].balance - ToColumn(debit.amount)
                         + HalfUnit(debit.amount),
           locked |-> accounts[debit.key].locked]
    BY <2>1 DEF Sound
  <2>3. debited[debit.key] \in Account
    BY <1>1, <2>2 DEF RowOK, Sound, Account
  <2> QED BY <1>1, <2>1, <2>3 DEF Sound, LedgerOK
<1>3. accounts' = [debited EXCEPT ![credit.key] =
                     [balance |-> @.balance + ToColumn(credit.amount), locked |-> @.locked]]
  <2>1. accounts' = [debited EXCEPT ![credit.key].balance = @ + ToColumn(credit.amount)]
    BY <1>1 DEF PostCredited
  <2> HIDE DEF debited
  <2> QED BY <1>2, <2>1, WriteBalance
<1> HIDE DEF debited
<1>4. \A q \in Keys : accounts'[q] \in Account /\ RowOK(accounts'[q])
  BY <1>1, <1>2, <1>3 DEF RowOK, Account
<1>5. accounts' \in [Keys -> Account]
  BY <1>2, <1>3, <1>4
<1> QED
  BY <1>4, <1>5 DEF Sound, LedgerOK

(* What each helper does to the locked column and to the available         *)
(* balance of every account.                                               *)
LEMMA LockMoves ==
    ASSUME NEW k \in Keys, NEW amount \in Nat, Sound, LedgerLock(k, amount),
           NEW q \in Keys
    PROVE  /\ accounts'[q].locked =
                accounts[q].locked + (IF q = k THEN ToColumn(amount) ELSE 0)
           /\ accounts'[q].balance = accounts[q].balance
BY DEF Sound, LedgerLock, Account

(* ledgerUnlock adds to the available amount what it takes off the lock.   *)
LEMMA UnlockMoves ==
    ASSUME NEW k \in Keys, NEW amount \in Nat, Sound, LedgerUnlock(k, amount),
           NEW q \in Keys
    PROVE  /\ accounts'[q].locked = accounts[q].locked - (IF q = k THEN amount ELSE 0)
           /\ accounts'[q].balance = accounts[q].balance
BY DEF Sound, LedgerUnlock, Account

(* ledgerSettleLocked leaves the available amount alone.                   *)
LEMMA SettleMoves ==
    ASSUME NEW k \in Keys, NEW amount \in Nat, Sound, LedgerSettleLocked(k, amount),
           NEW q \in Keys
    PROVE  /\ accounts'[q].locked = accounts[q].locked - (IF q = k THEN amount ELSE 0)
           /\ accounts'[q].balance = accounts[q].balance - (IF q = k THEN amount ELSE 0)
BY DEF Sound, LedgerSettleLocked, Settled, Account

(* ledgerPost moves no lock, takes off the debited account what a column   *)
(* keeps of the debit, less a half unit it cannot take, and puts on the    *)
(* credited one what a column keeps of the credit.                         *)
LEMMA PostBalances ==
    ASSUME NEW debit \in [key : Keys, amount : Nat],
           NEW credit \in [key : Keys, amount : Nat],
           Sound, LedgerPost(debit, credit), NEW q \in Keys
    PROVE  /\ accounts'[q].locked = accounts[q].locked
           /\ accounts'[q].balance = accounts[q].balance
                - (IF q = debit.key THEN ToColumn(debit.amount) - HalfUnit(debit.amount) ELSE 0)
                + (IF q = credit.key THEN ToColumn(credit.amount) ELSE 0)
<1> DEFINE d == ToColumn(debit.amount)
           h == HalfUnit(debit.amount)
           e == ToColumn(credit.amount)
           debited == PostDebited(debit)
<1>1. d \in Nat /\ e \in Nat /\ h \in {0, 1} /\ accounts' = PostCredited(debit, credit)
  BY PostMoves
<1>2. accounts[q] \in Account /\ accounts \in [Keys -> Account]
  BY DEF Sound
<1>3. /\ debited = [accounts EXCEPT ![debit.key].balance = @ - d + h]
      /\ accounts' = [debited EXCEPT ![credit.key].balance = @ + e]
  BY <1>1 DEF PostDebited, PostCredited
<1> HIDE DEF d, h, e, debited
<1>4. /\ debited[q].locked = accounts[q].locked
      /\ debited[q].balance = IF q = debit.key THEN accounts[q].balance - d + h
                                               ELSE accounts[q].balance
  BY <1>2, <1>3 DEF Account
<1>5. DOMAIN debited = Keys /\ DOMAIN debited[q] = {"balance", "locked"}
  BY <1>2, <1>3 DEF Account
<1>6. /\ accounts'[q].locked = debited[q].locked
      /\ accounts'[q].balance = IF q = credit.key THEN debited[q].balance + e
                                                  ELSE debited[q].balance
  BY <1>3, <1>5
<1>7. accounts[q].balance \in Nat
  BY <1>2 DEF Account
<1> QED
  BY <1>1, <1>4, <1>6, <1>7 DEF d, h, e

(* The entries of a journal are typed, and so is what its debit kept.      *)
LEMMA PostEntries ==
    ASSUME NEW debit \in [key : Keys, amount : Nat],
           NEW credit \in [key : Keys, amount : Nat],
           posted \in [Keys -> Int], dust \in [Keys -> Nat], LedgerPost(debit, credit)
    PROVE  /\ posted' \in [Keys -> Int] /\ dust' \in [Keys -> Nat]
           /\ \A q \in Keys :
                /\ posted'[q] = posted[q]
                     - (IF q = debit.key THEN ToColumn(debit.amount) ELSE 0)
                     + (IF q = credit.key THEN ToColumn(credit.amount) ELSE 0)
                /\ dust'[q] = dust[q]
                     + (IF q = debit.key THEN HalfUnit(debit.amount) ELSE 0)
<1> DEFINE d == ToColumn(debit.amount)
           e == ToColumn(credit.amount)
           h == HalfUnit(debit.amount)
<1>1. d \in Nat /\ e \in Nat /\ h \in {0, 1}
  BY RowAmount DEF HalfUnit
<1>2. /\ posted' = [posted EXCEPT ![debit.key] = @ - d, ![credit.key] = @ + e]
      /\ dust' = [dust EXCEPT ![debit.key] = @ + h]
  BY DEF LedgerPost, Entered
<1> HIDE DEF d, e, h
<1>3. posted' \in [Keys -> Int] /\ dust' \in [Keys -> Nat]
  BY <1>1, <1>2
<1>4. ASSUME NEW q \in Keys
      PROVE  /\ posted'[q] = posted[q] - (IF q = debit.key THEN d ELSE 0)
                                       + (IF q = credit.key THEN e ELSE 0)
             /\ dust'[q] = dust[q] + (IF q = debit.key THEN h ELSE 0)
  BY <1>1, <1>2
<1> QED
  BY <1>3, <1>4 DEF d, e, h

(* A journal whose two legs are entered as they are moved parts the        *)
(* entries of an account from its balance by the half units alone.         *)
LEMMA PostKeepsEntries ==
    ASSUME NEW debit \in [key : Keys, amount : Nat],
           NEW credit \in [key : Keys, amount : Nat],
           Sound, posted \in [Keys -> Int], dust \in [Keys -> Nat],
           EntriesExplainBalances, LedgerPost(debit, credit)
    PROVE  EntriesExplainBalances'
<1>1. SUFFICES ASSUME NEW q \in Keys
               PROVE  accounts'[q].balance = posted'[q] + dust'[q]
  BY DEF EntriesExplainBalances
<1> DEFINE d == ToColumn(debit.amount)
           e == ToColumn(credit.amount)
           h == HalfUnit(debit.amount)
<1>2. d \in Nat /\ e \in Nat /\ h \in {0, 1}
  BY PostMoves
<1>3. accounts'[q].balance = accounts[q].balance - (IF q = debit.key THEN d - h ELSE 0)
                                                 + (IF q = credit.key THEN e ELSE 0)
  BY PostBalances
<1>4. /\ posted'[q] = posted[q] - (IF q = debit.key THEN d ELSE 0)
                                + (IF q = credit.key THEN e ELSE 0)
      /\ dust'[q] = dust[q] + (IF q = debit.key THEN h ELSE 0)
  BY PostEntries
<1>5. accounts[q].balance = posted[q] + dust[q] /\ posted[q] \in Int /\ dust[q] \in Nat
  BY DEF EntriesExplainBalances
<1> HIDE DEF d, e, h
<1> QED
  BY <1>2, <1>3, <1>4, <1>5

(***************************************************************************)
(* What the users hold in a currency                                       *)
(***************************************************************************)

(* A quantity of each account, added over the users of a currency.         *)
TotalIn(f, c) == SetSum([u \in Users |-> f[<<u, c>>]], Users)

(* Such a total is an integer.                                             *)
LEMMA TotalType ==
    ASSUME NEW f \in [Keys -> Int], NEW c \in Currencies
    PROVE  TotalIn(f, c) \in Int
<1> DEFINE h == [u \in Users |-> f[<<u, c>>]]
<1>1. \A u \in Users : h[u] \in Int
  BY DEF Keys
<1> HIDE DEF h
<1>2. SetSum(h, Users) \in Int
  BY <1>1, SetSumType, LedgerAssumption
<1> QED
  BY <1>2 DEF TotalIn, h

(* Writing one account moves the total of its currency by what it moves    *)
(* the account.                                                            *)
LEMMA TotalUpdate ==
    ASSUME NEW f \in [Keys -> Int], NEW g \in [Keys -> Int], NEW k \in Keys,
           \A q \in Keys : q # k => g[q] = f[q],
           NEW c \in Currencies
    PROVE  TotalIn(g, c) = TotalIn(f, c) + (IF k[2] = c THEN g[k] - f[k] ELSE 0)
<1> DEFINE h == [u \in Users |-> f[<<u, c>>]]
           i == [u \in Users |-> g[<<u, c>>]]
<1>1. /\ \A u \in Users : <<u, c>> \in Keys
      /\ k[1] \in Users /\ k = <<k[1], k[2]>>
  BY DEF Keys
<1>2. \A u \in Users : h[u] \in Int /\ i[u] \in Int
  BY <1>1
<1>3. IsFiniteSet(Users) /\ SetSum(h, Users) \in Int
  <2>1. IsFiniteSet(Users)
    BY LedgerAssumption
  <2> HIDE DEF h, i
  <2> QED BY <1>2, <2>1, SetSumType
<1>4. CASE k[2] = c
  <2>1. \A u \in Users : u # k[1] => i[u] = h[u]
    BY <1>1, <1>4
  <2>2. i[k[1]] = g[k] /\ h[k[1]] = f[k]
    BY <1>1, <1>4
  <2>3. SetSum(i, Users) = SetSum(h, Users) + i[k[1]] - h[k[1]]
    <3> HIDE DEF h, i
    <3> QED BY <1>1, <1>2, <1>3, <2>1, SetSumUpdate
  <2>4. SetSum(i, Users) = SetSum(h, Users) + (g[k] - f[k])
    <3> HIDE DEF h, i
    <3> QED BY <1>3, <2>2, <2>3
  <2> QED
    BY <1>4, <2>4 DEF TotalIn
<1>5. CASE k[2] # c
  <2>1. \A u \in Users : i[u] = h[u]
    BY <1>1, <1>5
  <2>2. SetSum(i, Users) = SetSum(h, Users)
    <3> HIDE DEF h, i
    <3> QED BY <1>2, <1>3, <2>1, SetSumEqual
  <2>3. SetSum(i, Users) = SetSum(h, Users) + 0
    <3> HIDE DEF h, i
    <3> QED BY <1>3, <2>2
  <2> QED
    BY <1>5, <2>3 DEF TotalIn
<1> QED
  BY <1>4, <1>5

Balances(acc) == [q \in Keys |-> acc[q].balance]

(* What the users hold and the half units their debits kept are totals.    *)
LEMMA HeldIsTotal ==
    ASSUME NEW c \in Currencies
    PROVE  /\ Held(c) = TotalIn(Balances(accounts), c)
           /\ DustIn(c) = TotalIn(dust, c)
<1>1. \A u \in Users : Balances(accounts)[<<u, c>>] = accounts[<<u, c>>].balance
  BY DEF Balances, Keys
<1>2. [u \in Users |-> Balances(accounts)[<<u, c>>]]
        = [u \in Users |-> accounts[<<u, c>>].balance]
  BY <1>1
<1> QED
  BY <1>2 DEF Held, DustIn, TotalIn

(* The same of the next state.                                             *)
LEMMA HeldIsTotalNext ==
    ASSUME NEW c \in Currencies
    PROVE  /\ Held(c)' = TotalIn(Balances(accounts'), c)
           /\ DustIn(c)' = TotalIn(dust', c)
<1>1. \A u \in Users : Balances(accounts')[<<u, c>>] = accounts'[<<u, c>>].balance
  BY DEF Balances, Keys
<1>2. [u \in Users |-> Balances(accounts')[<<u, c>>]]
        = [u \in Users |-> accounts'[<<u, c>>].balance]
  BY <1>1
<1> QED
  BY <1>2 DEF Held, DustIn, TotalIn

(* What the users of a currency hold that does not come from half units.   *)
Own(c) == Held(c) - DustIn(c)

(* The balances of sound accounts are numbers.                             *)
LEMMA SoundBalances ==
    ASSUME NEW acc \in [Keys -> Account]
    PROVE  Balances(acc) \in [Keys -> Int] /\ \A q \in Keys : Balances(acc)[q] = acc[q].balance
BY DEF Balances, Account

(* What is held is a number, with and without the half units.              *)
LEMMA OwnType ==
    ASSUME Sound, dust \in [Keys -> Nat], NEW c \in Currencies
    PROVE  Held(c) \in Int /\ DustIn(c) \in Int /\ Own(c) \in Int
<1>1. Balances(accounts) \in [Keys -> Int] /\ dust \in [Keys -> Int]
  BY SoundBalances DEF Sound
<1> QED
  BY <1>1, TotalType, HeldIsTotal DEF Own

(* Every account opens with the same amount, and no half unit.             *)
LEMMA OwnInit ==
    ASSUME LedgerInit, NEW c \in Currencies
    PROVE  Own(c) = Cardinality(Users) * Opening
<1> DEFINE h == [u \in Users |-> accounts[<<u, c>>].balance]
           d == [u \in Users |-> dust[<<u, c>>]]
<1>1. IsFiniteSet(Users) /\ Opening \in Int /\ Cardinality(Users) \in Nat
  BY LedgerAssumption, FS_CardinalityType
<1>2. \A u \in Users : h[u] = Opening /\ d[u] = 0
  BY DEF LedgerInit, Keys
<1>3. /\ SetSum(h, Users) = Cardinality(Users) * Opening
      /\ SetSum(d, Users) = Cardinality(Users) * 0
  <2> HIDE DEF h, d
  <2> QED BY <1>1, <1>2, SetSumConstant
<1>4. Held(c) = Cardinality(Users) * Opening /\ DustIn(c) = Cardinality(Users) * 0
  BY <1>3 DEF Held, DustIn
<1> QED
  BY <1>1, <1>4 DEF Own

(* A step that moves no balance moves nothing.                             *)
LEMMA OwnSame ==
    ASSUME Sound, Sound', dust' = dust,
           \A q \in Keys : accounts'[q].balance = accounts[q].balance,
           NEW c \in Currencies
    PROVE  Own(c)' = Own(c)
<1> DEFINE h == [u \in Users |-> accounts[<<u, c>>].balance]
           g == [u \in Users |-> accounts'[<<u, c>>].balance]
<1>1. \A u \in Users : h[u] \in Int /\ g[u] = h[u]
  BY DEF Sound, Account, Keys
<1>2. SetSum(g, Users) = SetSum(h, Users)
  <2> HIDE DEF h, g
  <2> QED BY <1>1, SetSumEqual, LedgerAssumption
<1>3. Held(c)' = Held(c) /\ DustIn(c)' = DustIn(c)
  BY <1>2 DEF Held, DustIn
<1> QED
  BY <1>3 DEF Own

(* ledgerSettleLocked takes the amount out of its currency.                *)
LEMMA SettleOwn ==
    ASSUME NEW k \in Keys, NEW amount \in Nat, Sound, LedgerSettleLocked(k, amount),
           dust \in [Keys -> Nat], dust' = dust, NEW c \in Currencies
    PROVE  Own(c)' = Own(c) - (IF k[2] = c THEN amount ELSE 0)
<1> DEFINE f == Balances(accounts)
           g == Balances(accounts')
<1>1. Sound'
  BY SettleSound
<1>2. /\ f \in [Keys -> Int] /\ g \in [Keys -> Int]
      /\ \A q \in Keys : f[q] = accounts[q].balance /\ g[q] = accounts'[q].balance
  BY <1>1, SoundBalances DEF Sound
<1>3. \A q \in Keys : accounts'[q].balance = accounts[q].balance - (IF q = k THEN amount ELSE 0)
  BY SettleMoves
<1>4. Held(c) = TotalIn(f, c) /\ Held(c)' = TotalIn(g, c) /\ DustIn(c)' = DustIn(c)
  BY HeldIsTotal, HeldIsTotalNext
<1> HIDE DEF f, g
<1>5. (\A q \in Keys : q # k => g[q] = f[q]) /\ g[k] = f[k] - amount
  BY <1>2, <1>3
<1>6. TotalIn(g, c) = TotalIn(f, c) + (IF k[2] = c THEN g[k] - f[k] ELSE 0)
  BY <1>2, <1>5, TotalUpdate
<1>7. f[k] \in Int /\ Held(c) \in Int /\ DustIn(c) \in Int
  BY <1>2, OwnType
<1> QED
  BY <1>4, <1>5, <1>6, <1>7 DEF Own

(* A journal takes its debit out of one currency and puts its credit into  *)
(* another or the same, each as a column keeps it: a transfer conserves    *)
(* all but half units, a conversion does not.                              *)
LEMMA PostOwn ==
    ASSUME NEW debit \in [key : Keys, amount : Nat],
           NEW credit \in [key : Keys, amount : Nat],
           Sound, posted \in [Keys -> Int], dust \in [Keys -> Nat],
           LedgerPost(debit, credit), NEW c \in Currencies
    PROVE  Own(c)' = Own(c)
             - (IF debit.key[2] = c THEN ToColumn(debit.amount) ELSE 0)
             + (IF credit.key[2] = c THEN ToColumn(credit.amount) ELSE 0)
<1> DEFINE d == ToColumn(debit.amount)
           e == ToColumn(credit.amount)
           n == HalfUnit(debit.amount)
           f == Balances(accounts)
           mid == [f EXCEPT ![debit.key] = @ - (d - n)]
           g == Balances(accounts')
<1>0. debit.key \in Keys /\ credit.key \in Keys
  OBVIOUS
<1>1. d \in Nat /\ e \in Nat /\ n \in {0, 1}
  BY PostMoves
<1>2. /\ f \in [Keys -> Int] /\ g \in [Keys -> Int]
      /\ \A q \in Keys : f[q] = accounts[q].balance /\ g[q] = accounts'[q].balance
  BY PostSound, SoundBalances DEF Sound
<1>3. \A q \in Keys : accounts'[q].balance = accounts[q].balance
          - (IF q = debit.key THEN d - n ELSE 0) + (IF q = credit.key THEN e ELSE 0)
  BY PostBalances
<1>4. /\ dust' \in [Keys -> Nat]
      /\ \A q \in Keys : dust'[q] = dust[q] + (IF q = debit.key THEN n ELSE 0)
  BY PostEntries
<1>5. /\ Held(c) = TotalIn(f, c) /\ Held(c)' = TotalIn(g, c)
      /\ DustIn(c) = TotalIn(dust, c) /\ DustIn(c)' = TotalIn(dust', c)
  BY HeldIsTotal, HeldIsTotalNext
<1> HIDE DEF d, e, n, f, g
<1>6. /\ mid \in [Keys -> Int] /\ mid[debit.key] = f[debit.key] - (d - n)
      /\ \A q \in Keys : q # debit.key => mid[q] = f[q]
  BY <1>0, <1>1, <1>2
<1> HIDE DEF mid
<1>7. /\ g[credit.key] = mid[credit.key] + e
      /\ \A q \in Keys : q # credit.key => g[q] = mid[q]
  BY <1>0, <1>1, <1>2, <1>3, <1>6
<1>8. TotalIn(mid, c) = TotalIn(f, c)
        + (IF debit.key[2] = c THEN mid[debit.key] - f[debit.key] ELSE 0)
  <2>1. f \in [Keys -> Int] /\ mid \in [Keys -> Int]
    BY <1>2, <1>6
  <2>2. \A q \in Keys : q # debit.key => mid[q] = f[q]
    BY <1>6
  <2> QED BY <1>0, <2>1, <2>2, TotalUpdate
<1>9. TotalIn(g, c) = TotalIn(mid, c)
        + (IF credit.key[2] = c THEN g[credit.key] - mid[credit.key] ELSE 0)
  <2>1. mid \in [Keys -> Int] /\ g \in [Keys -> Int]
    BY <1>2, <1>6
  <2>2. \A q \in Keys : q # credit.key => g[q] = mid[q]
    BY <1>7
  <2> QED BY <1>0, <2>1, <2>2, TotalUpdate
<1>10. TotalIn(dust', c) = TotalIn(dust, c)
        + (IF debit.key[2] = c THEN dust'[debit.key] - dust[debit.key] ELSE 0)
  <2>1. dust \in [Keys -> Int] /\ dust' \in [Keys -> Int]
    BY <1>4
  <2>2. \A q \in Keys : q # debit.key => dust'[q] = dust[q]
    BY <1>4
  <2> QED BY <1>0, <2>1, <2>2, TotalUpdate
<1>11. /\ f[debit.key] \in Int /\ mid[credit.key] \in Int /\ dust[debit.key] \in Int
       /\ dust'[debit.key] = dust[debit.key] + n
       /\ Held(c) \in Int /\ DustIn(c) \in Int
  BY <1>0, <1>2, <1>4, <1>6, OwnType
<1>12. Held(c)' = Held(c) - (IF debit.key[2] = c THEN d - n ELSE 0)
                          + (IF credit.key[2] = c THEN e ELSE 0)
  BY <1>1, <1>5, <1>6, <1>7, <1>8, <1>9, <1>11
<1>13. DustIn(c)' = DustIn(c) + (IF debit.key[2] = c THEN n ELSE 0)
  BY <1>1, <1>5, <1>10, <1>11
<1>14. Own(c)' = Own(c) - (IF debit.key[2] = c THEN d ELSE 0)
                        + (IF credit.key[2] = c THEN e ELSE 0)
  BY <1>1, <1>11, <1>12, <1>13 DEF Own
<1> QED
  BY <1>14 DEF d, e

(***************************************************************************)
(* The ledger's own steps, whatever else the workers do                    *)
(***************************************************************************)

(* The requests of a module that extends the ledger: transfers are among   *)
(* them, and are told by their op.                                         *)
ServesTransfers(Task) ==
    /\ TransferTask \subseteq Task
    /\ \A t \in Task : t.op = "transfer" => t \in TransferTask

LedgerInv(Task) == LedgerTypeOK(Task) /\ LedgerOK

(* What a transfer moves: a balance to another account of its currency.    *)
LEMMA TransferMoves ==
    ASSUME NEW Task, ServesTransfers(Task), LedgerInv(Task),
           NEW w \in Workers, CommitTransfer(w)
    PROVE  /\ LedgerInv(Task)'
           /\ \A q \in Keys : accounts'[q].locked = accounts[q].locked
           /\ \A c \in Currencies : Own(c)' = Own(c)
           /\ EntriesExplainBalances => EntriesExplainBalances'
<1> DEFINE t == worker[w]
           debit == [key |-> <<t.from, t.currency>>, amount |-> t.amount]
           credit == [key |-> <<t.to, t.currency>>, amount |-> t.amount]
<1>1. Sound /\ posted \in [Keys -> Int] /\ dust \in [Keys -> Nat]
  BY DEF LedgerInv, LedgerTypeOK, Sound
<1>2. t \in TransferTask
  BY DEF LedgerInv, LedgerTypeOK, ServesTransfers, CommitTransfer, Idle
<1>3. debit \in [key : Keys, amount : Nat] /\ credit \in [key : Keys, amount : Nat]
  BY <1>2, LedgerAssumption DEF TransferTask, Keys
<1>4. debit.amount = credit.amount /\ debit.key[2] = credit.key[2]
  OBVIOUS
<1>5. LedgerPost(debit, credit)
  BY DEF CommitTransfer
<1>6. worker' \in [Workers -> {Idle} \cup Task] /\ off' = off
  BY DEF LedgerInv, LedgerTypeOK, CommitTransfer
<1> HIDE DEF debit, credit
<1>7. Sound' /\ posted' \in [Keys -> Int] /\ dust' \in [Keys -> Nat]
  BY <1>1, <1>3, <1>5, PostSound, PostEntries
<1>8. \A q \in Keys : accounts'[q].locked = accounts[q].locked
  BY <1>1, <1>3, <1>5, PostBalances
<1>9. ASSUME NEW c \in Currencies PROVE Own(c)' = Own(c)
  <2>1. Own(c)' = Own(c) - (IF debit.key[2] = c THEN ToColumn(debit.amount) ELSE 0)
                         + (IF credit.key[2] = c THEN ToColumn(credit.amount) ELSE 0)
    BY <1>1, <1>3, <1>5, PostOwn
  <2>2. Own(c) \in Int /\ ToColumn(debit.amount) \in Int
    BY <1>1, <1>3, <1>5, OwnType, PostMoves
  <2> QED BY <1>4, <2>1, <2>2
<1>10. EntriesExplainBalances => EntriesExplainBalances'
  BY <1>1, <1>3, <1>5, PostKeepsEntries
<1> QED
  BY <1>6, <1>7, <1>8, <1>9, <1>10 DEF LedgerInv, LedgerTypeOK, Sound

(* The ledger's own steps keep its invariant, the locks and what the users *)
(* hold, and give a worker nothing but a transfer or rest.                 *)
LEMMA LedgerStep ==
    ASSUME NEW Task, ServesTransfers(Task), LedgerInv(Task), LedgerNext
    PROVE  /\ LedgerInv(Task)'
           /\ \A q \in Keys : accounts'[q].locked = accounts[q].locked
           /\ \A c \in Currencies : Own(c)' = Own(c)
           /\ EntriesExplainBalances => EntriesExplainBalances'
           /\ \A v \in Workers : worker'[v] = worker[v]
                                 \/ worker'[v] \in {Idle} \cup TransferTask
<1> DEFINE Goal == /\ LedgerInv(Task)'
                   /\ \A q \in Keys : accounts'[q].locked = accounts[q].locked
                   /\ \A c \in Currencies : Own(c)' = Own(c)
                   /\ EntriesExplainBalances => EntriesExplainBalances'
                   /\ \A v \in Workers : worker'[v] = worker[v]
                                         \/ worker'[v] \in {Idle} \cup TransferTask
<1>1. ASSUME UNCHANGED <<accounts, posted, dust>>,
             worker' \in [Workers -> {Idle} \cup Task],
             off' \in [Currencies -> SUBSET Features],
             \A v \in Workers : worker'[v] = worker[v]
                                \/ worker'[v] \in {Idle} \cup TransferTask
      PROVE  Goal
  <2>1. \A c \in Currencies : Own(c)' = Own(c)
    BY <1>1 DEF Own, Held, DustIn
  <2>2. LedgerInv(Task)' /\ (EntriesExplainBalances => EntriesExplainBalances')
    BY <1>1 DEF LedgerInv, LedgerTypeOK, LedgerOK, RowOK, EntriesExplainBalances
  <2> QED BY <1>1, <2>1, <2>2
<1>2. /\ worker \in [Workers -> {Idle} \cup Task]
      /\ off \in [Currencies -> SUBSET Features]
  BY DEF LedgerInv, LedgerTypeOK
<1> HIDE DEF Goal
<1>3. ASSUME NEW w \in Workers, NEW from \in Users, NEW to \in Users,
             NEW c \in Currencies, NEW a \in Amounts, BeginTransfer(w, from, to, c, a)
      PROVE  Goal
  <2>1. [op |-> "transfer", from |-> from, to |-> to, currency |-> c, amount |-> a]
          \in TransferTask
    BY <1>3 DEF TransferTask, BeginTransfer
  <2>2. worker' \in [Workers -> {Idle} \cup Task]
    BY <1>2, <1>3, <2>1 DEF BeginTransfer, ServesTransfers
  <2>3. \A v \in Workers : worker'[v] = worker[v] \/ worker'[v] \in {Idle} \cup TransferTask
    BY <1>2, <1>3, <2>1 DEF BeginTransfer
  <2> QED BY <1>1, <1>2, <1>3, <2>2, <2>3 DEF BeginTransfer
<1>4. ASSUME NEW w \in Workers, CommitTransfer(w) PROVE Goal
  <2>1. \A v \in Workers : worker'[v] = worker[v] \/ worker'[v] \in {Idle} \cup TransferTask
    BY <1>2, <1>4 DEF CommitTransfer
  <2> QED BY <1>4, <2>1, TransferMoves DEF Goal
<1>5. ASSUME NEW w \in Workers, Abort(w) PROVE Goal
  BY <1>1, <1>2, <1>5 DEF Abort
<1>6. ASSUME NEW c \in Currencies, NEW d \in SUBSET Features, SetSwitch(c, d) PROVE Goal
  BY <1>1, <1>2, <1>6 DEF SetSwitch
<1>7. Goal
  BY <1>3, <1>4, <1>5, <1>6 DEF LedgerNext
<1> QED
  BY <1>7 DEF Goal

=============================================================================
