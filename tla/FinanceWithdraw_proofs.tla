----------------------- MODULE FinanceWithdraw_proofs -----------------------
(***************************************************************************)
(* The withdrawal pipeline, for any users, currencies, amounts, workers    *)
(* and number of requests: types, the CHECK constraints of ledger_account, *)
(* one decision per request, holds that are exactly covered, and value     *)
(* that is conserved.                                                      *)
(*                                                                         *)
(* What a step of the pipeline does is stated for any set of requests that *)
(* has the pipeline's among them, so that the proofs about the whole       *)
(* finance plane can cite it.                                              *)
(***************************************************************************)
EXTENDS FinanceWithdraw, FinanceLedger_proofs

ServesWithdrawals(Task) ==
    /\ ServesTransfers(Task)
    /\ WithdrawTask \subseteq Task
    /\ \A t \in Task : t.op = "withdraw" => t \in WithdrawTask

WithdrawRows ==
    /\ withdrawals \in [WithdrawalIds -> Withdrawal \cup {NoWithdrawal}]
    /\ withdrawJournal \in [WithdrawalIds -> [withdraw : Nat, refund : Nat]]

WithdrawInv(Task) == LedgerInv(Task) /\ WithdrawRows

TypeInv == WithdrawInv(TransferTask \cup WithdrawTask)

(***************************************************************************)
(* Rows and requests                                                       *)
(***************************************************************************)

(* The pipeline's own requests are told apart by their op.                 *)
LEMMA OwnRequests == ServesWithdrawals(TransferTask \cup WithdrawTask)
BY DEF ServesWithdrawals, ServesTransfers, TransferTask, WithdrawTask

(* The request parked on a worker is of the operation its op names.        *)
LEMMA ParkedTask ==
    ASSUME NEW Task, ServesWithdrawals(Task), LedgerInv(Task), NEW w \in Workers,
           worker[w].op = "withdraw"
    PROVE  /\ worker[w] \in WithdrawTask
           /\ worker[w].key \in Keys /\ worker[w].amount \in Amounts
           /\ worker[w].amount \in Nat
<1>1. worker[w] \in WithdrawTask
  BY DEF LedgerInv, LedgerTypeOK, ServesWithdrawals, Idle
<1> QED
  BY <1>1, LedgerAssumption DEF WithdrawTask

(* The amount of a row is a number, and one that is not zero.              *)
LEMMA StoredAmount == StoredAmounts \subseteq Nat \ {0}
BY RowAmount, LedgerAssumption DEF StoredAmounts

(* A row that has a status other than "none" is a withdrawal.              *)
LEMMA RecordedRow ==
    ASSUME WithdrawRows, NEW i \in WithdrawalIds, withdrawals[i].status # "none"
    PROVE  /\ withdrawals[i] \in Withdrawal
           /\ withdrawals[i].key \in Keys /\ withdrawals[i].amount \in Nat
<1>1. withdrawals[i] \in Withdrawal
  BY DEF WithdrawRows, NoWithdrawal
<1> QED
  BY <1>1, StoredAmount DEF Withdrawal

(* The rows, as the functions that Sum adds.                               *)
LEMMA RowAmounts ==
    ASSUME WithdrawRows
    PROVE  /\ \A k \in Keys : WithdrawHolds(k) \in [1 .. MaxWithdrawals -> Int]
           /\ \A c \in Currencies : PaidOut(c) \in [1 .. MaxWithdrawals -> Int]
<1>1. \A i \in WithdrawalIds : withdrawals[i].status # "none" => withdrawals[i].amount \in Nat
  BY RecordedRow
<1> QED
  BY <1>1 DEF WithdrawHolds, PaidOut, Undecided, WithdrawalIds

(* A step that changes one row changes each sum by the change of that row. *)
LEMMA RowUpdate ==
    ASSUME WithdrawRows, WithdrawRows', NEW i \in WithdrawalIds,
           \A j \in WithdrawalIds : j # i => withdrawals'[j] = withdrawals[j]
    PROVE  /\ \A k \in Keys :
                Sum(WithdrawHolds(k), MaxWithdrawals)' =
                  Sum(WithdrawHolds(k), MaxWithdrawals)
                    + WithdrawHolds(k)'[i] - WithdrawHolds(k)[i]
           /\ \A c \in Currencies :
                Sum(PaidOut(c), MaxWithdrawals)' =
                  Sum(PaidOut(c), MaxWithdrawals) + PaidOut(c)'[i] - PaidOut(c)[i]
<1>1. /\ \A k \in Keys : /\ WithdrawHolds(k) \in [1 .. MaxWithdrawals -> Int]
                         /\ WithdrawHolds(k)' \in [1 .. MaxWithdrawals -> Int]
      /\ \A c \in Currencies : /\ PaidOut(c) \in [1 .. MaxWithdrawals -> Int]
                               /\ PaidOut(c)' \in [1 .. MaxWithdrawals -> Int]
  <2>1. ASSUME NEW j \in WithdrawalIds, withdrawals'[j].status # "none"
        PROVE  withdrawals'[j].amount \in Nat
    <3>1. withdrawals'[j] \in Withdrawal
      BY <2>1 DEF WithdrawRows, NoWithdrawal
    <3> QED
      BY <3>1, StoredAmount DEF Withdrawal
  <2>2. /\ \A k \in Keys : WithdrawHolds(k)' \in [1 .. MaxWithdrawals -> Int]
        /\ \A c \in Currencies : PaidOut(c)' \in [1 .. MaxWithdrawals -> Int]
    BY <2>1 DEF WithdrawHolds, PaidOut, Undecided, WithdrawalIds
  <2> QED
    BY <2>2, RowAmounts
<1>2. i \in 1 .. MaxWithdrawals /\ MaxWithdrawals \in Nat
  BY WithdrawAssumption DEF WithdrawalIds
<1>3. ASSUME NEW k \in Keys
      PROVE  Sum(WithdrawHolds(k)', MaxWithdrawals) =
               Sum(WithdrawHolds(k), MaxWithdrawals)
                 + WithdrawHolds(k)'[i] - WithdrawHolds(k)[i]
  <2>1. \A j \in 1 .. MaxWithdrawals : j # i => WithdrawHolds(k)'[j] = WithdrawHolds(k)[j]
    BY DEF WithdrawHolds, Undecided, WithdrawalIds
  <2> QED BY <1>1, <1>2, <2>1, SumUpdate
<1>4. ASSUME NEW c \in Currencies
      PROVE  Sum(PaidOut(c)', MaxWithdrawals) =
               Sum(PaidOut(c), MaxWithdrawals) + PaidOut(c)'[i] - PaidOut(c)[i]
  <2>1. \A j \in 1 .. MaxWithdrawals : j # i => PaidOut(c)'[j] = PaidOut(c)[j]
    BY DEF PaidOut, WithdrawalIds
  <2> QED BY <1>1, <1>2, <2>1, SumUpdate
<1> QED
  BY <1>3, <1>4

(***************************************************************************)
(* What the steps of the pipeline move                                     *)
(***************************************************************************)

LockFollowsHolds(k) ==
    \E d \in Int :
        /\ accounts'[k].locked = accounts[k].locked + d
        /\ Sum(WithdrawHolds(k), MaxWithdrawals)' = Sum(WithdrawHolds(k), MaxWithdrawals) + d

ValueFollowsPayouts(c) ==
    \E d \in Int :
        /\ Own(c)' = Own(c) - d
        /\ Sum(PaidOut(c), MaxWithdrawals)' = Sum(PaidOut(c), MaxWithdrawals) + d

(* A step keeps the types, changes each lock by what it changes the holds, *)
(* and what the users hold by what it changes the amounts paid out.        *)
Moves(Task) ==
    /\ WithdrawInv(Task)'
    /\ \A k \in Keys : LockFollowsHolds(k)
    /\ \A c \in Currencies : ValueFollowsPayouts(c)
    /\ \A v \in Workers : worker'[v] = worker[v] \/ worker'[v] \in {Idle} \cup WithdrawTask

(* The numbers that Moves compares.                                        *)
LEMMA Numbers ==
    ASSUME NEW Task, WithdrawInv(Task)
    PROVE  /\ Sound /\ dust \in [Keys -> Nat]
           /\ \A k \in Keys : /\ accounts[k].locked \in Int
                              /\ Sum(WithdrawHolds(k), MaxWithdrawals) \in Int
           /\ \A c \in Currencies : /\ Held(c) \in Int /\ DustIn(c) \in Int /\ Own(c) \in Int
                                    /\ Sum(PaidOut(c), MaxWithdrawals) \in Int
<1>1. Sound /\ dust \in [Keys -> Nat]
  BY DEF WithdrawInv, LedgerInv, LedgerTypeOK, Sound
<1>2. \A k \in Keys : accounts[k].locked \in Int
  BY <1>1 DEF Sound, Account
<1>3. \A k \in Keys : Sum(WithdrawHolds(k), MaxWithdrawals) \in Int
  BY RowAmounts, SumType, WithdrawAssumption DEF WithdrawInv
<1>4. \A c \in Currencies : Sum(PaidOut(c), MaxWithdrawals) \in Int
  BY RowAmounts, SumType, WithdrawAssumption DEF WithdrawInv
<1>5. \A c \in Currencies : Held(c) \in Int /\ DustIn(c) \in Int /\ Own(c) \in Int
  BY <1>1, OwnType
<1> QED
  BY <1>1, <1>2, <1>3, <1>4, <1>5

(* What is held in the next state is a number too.                         *)
LEMMA NumbersNext ==
    ASSUME NEW Task, WithdrawInv(Task)', NEW c \in Currencies
    PROVE  Held(c)' \in Int /\ DustIn(c)' \in Int
<1>1. accounts' \in [Keys -> Account] /\ dust' \in [Keys -> Int]
  BY DEF WithdrawInv, LedgerInv, LedgerTypeOK
<1>2. Balances(accounts') \in [Keys -> Int]
  BY <1>1, SoundBalances
<1> QED
  BY <1>1, <1>2, TotalType, HeldIsTotalNext

(* Where nothing moves, the lock follows the holds and the value the       *)
(* payouts.                                                                *)
LEMMA NothingMoves ==
    ASSUME NEW Task, WithdrawInv(Task),
           \A q \in Keys : /\ accounts'[q].locked = accounts[q].locked
                           /\ WithdrawHolds(q)' = WithdrawHolds(q),
           \A c \in Currencies : Own(c)' = Own(c) /\ PaidOut(c)' = PaidOut(c)
    PROVE  /\ \A q \in Keys : LockFollowsHolds(q)
           /\ \A c \in Currencies : ValueFollowsPayouts(c)
<1>1. ASSUME NEW q \in Keys PROVE LockFollowsHolds(q)
  <2>1. /\ accounts'[q].locked = accounts[q].locked + 0
        /\ Sum(WithdrawHolds(q), MaxWithdrawals)' = Sum(WithdrawHolds(q), MaxWithdrawals) + 0
    BY Numbers
  <2> QED BY <2>1 DEF LockFollowsHolds
<1>2. ASSUME NEW c \in Currencies PROVE ValueFollowsPayouts(c)
  <2>1. /\ Own(c)' = Own(c) - 0
        /\ Sum(PaidOut(c), MaxWithdrawals)' = Sum(PaidOut(c), MaxWithdrawals) + 0
    BY Numbers
  <2> QED BY <2>1 DEF ValueFollowsPayouts
<1> QED
  BY <1>1, <1>2

(* A request is parked: nothing moves.                                     *)
LEMMA BeginMoves ==
    ASSUME NEW Task, ServesWithdrawals(Task), WithdrawInv(Task),
           NEW w \in Workers, NEW k \in Keys, NEW a \in Amounts, NEW text \in AmountTexts,
           NEW usd, NEW risk, BeginWithdraw(w, k, a, text, usd, risk)
    PROVE  Moves(Task)
<1>1. [op |-> "withdraw", key |-> k, amount |-> a, text |-> text,
       auto |-> AutoApprovable(usd, risk)] \in WithdrawTask
  BY DEF WithdrawTask, AutoApprovable
<1>2. /\ worker' \in [Workers -> {Idle} \cup Task]
      /\ \A v \in Workers : worker'[v] = worker[v] \/ worker'[v] \in {Idle} \cup WithdrawTask
  BY <1>1 DEF BeginWithdraw, WithdrawInv, LedgerInv, LedgerTypeOK, ServesWithdrawals
<1>3. UNCHANGED <<accounts, posted, dust, off, withdrawals, withdrawJournal>>
  BY DEF BeginWithdraw
<1>4. WithdrawInv(Task)'
  BY <1>2, <1>3 DEF WithdrawInv, WithdrawRows, LedgerInv, LedgerTypeOK, LedgerOK, RowOK
<1>5. /\ \A q \in Keys : WithdrawHolds(q)' = WithdrawHolds(q)
      /\ \A c \in Currencies : Own(c)' = Own(c) /\ PaidOut(c)' = PaidOut(c)
  BY <1>3 DEF WithdrawHolds, Undecided, PaidOut, Own, Held, DustIn
<1>6. /\ \A q \in Keys : LockFollowsHolds(q)
      /\ \A c \in Currencies : ValueFollowsPayouts(c)
  BY <1>3, <1>5, NothingMoves
<1> QED
  BY <1>2, <1>4, <1>6 DEF Moves

(* A new request locks what it holds.                                      *)
LEMMA CommitMoves ==
    ASSUME NEW Task, ServesWithdrawals(Task), WithdrawInv(Task),
           NEW w \in Workers, NEW i \in WithdrawalIds, CommitWithdraw(w, i)
    PROVE  Moves(Task)
<1> DEFINE t == worker[w]
           a == ToColumn(t.amount)
<1>1. t \in WithdrawTask /\ t.key \in Keys /\ t.amount \in Amounts /\ t.amount \in Nat
  BY ParkedTask DEF CommitWithdraw, WithdrawInv
<1>0. a \in StoredAmounts /\ a \in Nat
  BY <1>1, RowAmount DEF CommitWithdraw, StoredAmounts
<1>2. Sound /\ LedgerLock(t.key, t.amount)
  BY Numbers DEF CommitWithdraw
<1>3. Sound'
  BY <1>1, <1>2, LockSound
<1>4. \A q \in Keys :
        /\ accounts'[q].locked = accounts[q].locked + (IF q = t.key THEN a ELSE 0)
        /\ accounts'[q].balance = accounts[q].balance
  BY <1>1, <1>2, LockMoves
<1>5. [status |-> IF t.auto THEN "auto_approved" ELSE "queued", key |-> t.key,
       amount |-> a, signedText |-> t.text] \in Withdrawal
  BY <1>0, <1>1 DEF Withdrawal, WithdrawStatus, WithdrawTask
<1>6. /\ withdrawals'[i].key = t.key /\ withdrawals'[i].amount = a
      /\ withdrawals'[i].status \in {"queued", "auto_approved"}
      /\ \A j \in WithdrawalIds : j # i => withdrawals'[j] = withdrawals[j]
      /\ withdrawals[i].status = "none"
  BY DEF CommitWithdraw, WithdrawInv, WithdrawRows, Recorded
<1>7. WithdrawRows'
  BY <1>5 DEF CommitWithdraw, WithdrawInv, WithdrawRows
<1>8. /\ worker' \in [Workers -> {Idle} \cup Task]
      /\ \A v \in Workers : worker'[v] = worker[v] \/ worker'[v] \in {Idle} \cup WithdrawTask
  BY DEF CommitWithdraw, WithdrawInv, LedgerInv, LedgerTypeOK
<1>9. WithdrawInv(Task)'
  BY <1>3, <1>7, <1>8 DEF CommitWithdraw, WithdrawInv, LedgerInv, LedgerTypeOK, Sound
<1>10. ASSUME NEW k \in Keys
       PROVE  LockFollowsHolds(k)
  <2>1. Sum(WithdrawHolds(k), MaxWithdrawals)' =
          Sum(WithdrawHolds(k), MaxWithdrawals) + WithdrawHolds(k)'[i] - WithdrawHolds(k)[i]
    BY <1>6, <1>7, RowUpdate DEF WithdrawInv
  <2>2. /\ WithdrawHolds(k)[i] = 0
        /\ WithdrawHolds(k)'[i] = IF k = t.key THEN a ELSE 0
    BY <1>6 DEF WithdrawHolds, Undecided
  <2>3. accounts[k].locked \in Int /\ Sum(WithdrawHolds(k), MaxWithdrawals) \in Int
    BY Numbers
  <2> DEFINE d == IF k = t.key THEN a ELSE 0
  <2>4. /\ d \in Int /\ accounts'[k].locked = accounts[k].locked + d
        /\ Sum(WithdrawHolds(k), MaxWithdrawals)' = Sum(WithdrawHolds(k), MaxWithdrawals) + d
    BY <1>0, <1>4, <2>1, <2>2, <2>3
  <2> QED BY <2>4 DEF LockFollowsHolds
<1>11. ASSUME NEW c \in Currencies
       PROVE  ValueFollowsPayouts(c)
  <2>1. Sum(PaidOut(c), MaxWithdrawals)' =
          Sum(PaidOut(c), MaxWithdrawals) + PaidOut(c)'[i] - PaidOut(c)[i]
    BY <1>6, <1>7, RowUpdate DEF WithdrawInv
  <2>2. PaidOut(c)[i] = 0 /\ PaidOut(c)'[i] = 0
    BY <1>6 DEF PaidOut
  <2>3. Sum(PaidOut(c), MaxWithdrawals) \in Int
    BY Numbers
  <2>4. Own(c)' = Own(c)
    BY <1>2, <1>3, <1>4, OwnSame DEF CommitWithdraw
  <2>5. /\ Own(c)' = Own(c) - 0
        /\ Sum(PaidOut(c), MaxWithdrawals)' = Sum(PaidOut(c), MaxWithdrawals) + 0
    BY <2>1, <2>2, <2>3, <2>4, Numbers
  <2> QED BY <2>5 DEF ValueFollowsPayouts
<1> QED
  BY <1>8, <1>9, <1>10, <1>11 DEF Moves

(* A decision ends the hold of its row, and the lock and the balance move  *)
(* with it.                                                                *)
LEMMA DecidedMoves ==
    ASSUME NEW Task, WithdrawInv(Task), NEW i \in WithdrawalIds,
           NEW s \in {"approved", "rejected"}, NEW journal,
           withdrawals[i].status = "queued",
           IF s = "approved"
             THEN LedgerSettleLocked(withdrawals[i].key, withdrawals[i].amount)
             ELSE LedgerUnlock(withdrawals[i].key, withdrawals[i].amount),
           withdrawals' = [withdrawals EXCEPT ![i].status = s],
           withdrawJournal' \in [WithdrawalIds -> [withdraw : Nat, refund : Nat]],
           UNCHANGED <<posted, dust, off, worker>>
    PROVE  Moves(Task)
<1> DEFINE k0 == withdrawals[i].key
           a == withdrawals[i].amount
<1>1. withdrawals[i] \in Withdrawal /\ k0 \in Keys /\ a \in Nat
  BY RecordedRow DEF WithdrawInv
<1>2. Sound /\ dust \in [Keys -> Nat]
  BY Numbers
<1>3. Sound'
  BY <1>1, <1>2, SettleSound, UnlockSound
<1>4. \A q \in Keys : accounts'[q].locked = accounts[q].locked - (IF q = k0 THEN a ELSE 0)
  BY <1>1, <1>2, SettleMoves, UnlockMoves
<1>5. /\ withdrawals'[i].status = s /\ withdrawals'[i].key = k0
      /\ withdrawals'[i].amount = a
      /\ \A j \in WithdrawalIds : j # i => withdrawals'[j] = withdrawals[j]
  BY <1>1 DEF WithdrawInv, WithdrawRows, Withdrawal
<1>6. WithdrawRows'
  BY <1>1 DEF WithdrawInv, WithdrawRows, Withdrawal, WithdrawStatus
<1>7. WithdrawInv(Task)'
  BY <1>3, <1>6 DEF WithdrawInv, LedgerInv, LedgerTypeOK, Sound
<1>8. ASSUME NEW k \in Keys
      PROVE  LockFollowsHolds(k)
  <2>1. Sum(WithdrawHolds(k), MaxWithdrawals)' =
          Sum(WithdrawHolds(k), MaxWithdrawals) + WithdrawHolds(k)'[i] - WithdrawHolds(k)[i]
    BY <1>5, <1>6, RowUpdate DEF WithdrawInv
  <2>2. /\ WithdrawHolds(k)[i] = IF k = k0 THEN a ELSE 0
        /\ WithdrawHolds(k)'[i] = 0
    BY <1>5 DEF WithdrawHolds, Undecided
  <2>3. accounts[k].locked \in Int /\ Sum(WithdrawHolds(k), MaxWithdrawals) \in Int
    BY Numbers
  <2> DEFINE d == IF k = k0 THEN -a ELSE 0
  <2>4. /\ d \in Int /\ accounts'[k].locked = accounts[k].locked + d
        /\ Sum(WithdrawHolds(k), MaxWithdrawals)' = Sum(WithdrawHolds(k), MaxWithdrawals) + d
    <3> HIDE DEF a, k0
    <3> QED BY <1>1, <1>4, <2>1, <2>2, <2>3
  <2> QED BY <2>4 DEF LockFollowsHolds
<1>9. ASSUME NEW c \in Currencies
      PROVE  ValueFollowsPayouts(c)
  <2>1. Sum(PaidOut(c), MaxWithdrawals)' =
          Sum(PaidOut(c), MaxWithdrawals) + PaidOut(c)'[i] - PaidOut(c)[i]
    BY <1>5, <1>6, RowUpdate DEF WithdrawInv
  <2>2. /\ PaidOut(c)[i] = 0
        /\ PaidOut(c)'[i] = IF s = "approved" /\ k0[2] = c THEN a ELSE 0
    BY <1>5 DEF PaidOut
  <2>3. Own(c)' = Own(c) - (IF s = "approved" /\ k0[2] = c THEN a ELSE 0)
    <3>1. CASE s = "approved"
      BY <1>1, <1>2, <3>1, SettleOwn
    <3>2. CASE s = "rejected"
      <4>1. \A q \in Keys : accounts'[q].balance = accounts[q].balance
        BY <1>1, <1>2, <3>2, UnlockMoves
      <4>2. Own(c)' = Own(c) /\ Own(c) \in Int
        BY <1>2, <1>3, <4>1, OwnSame, Numbers
      <4> QED BY <3>2, <4>2
    <3> QED BY <3>1, <3>2
  <2>4. Own(c) \in Int /\ Sum(PaidOut(c), MaxWithdrawals) \in Int
    BY Numbers
  <2> DEFINE d == IF s = "approved" /\ k0[2] = c THEN a ELSE 0
  <2>5. /\ d \in Int /\ Own(c)' = Own(c) - d
        /\ Sum(PaidOut(c), MaxWithdrawals)' = Sum(PaidOut(c), MaxWithdrawals) + d
    <3> HIDE DEF a, k0
    <3> QED BY <1>1, <2>1, <2>2, <2>3, <2>4
  <2> QED BY <2>5 DEF ValueFollowsPayouts
<1> QED
  BY <1>7, <1>8, <1>9 DEF Moves

(* Every step of the pipeline moves what Moves says.                       *)
LEMMA WithdrawMoves ==
    ASSUME NEW Task, ServesWithdrawals(Task), WithdrawInv(Task), WithdrawStep
    PROVE  Moves(Task)
<1>1. ASSUME NEW w \in Workers, NEW i \in WithdrawalIds, ApproveWithdrawal(w, i)
      PROVE  Moves(Task)
  <2>1. withdrawJournal' \in [WithdrawalIds -> [withdraw : Nat, refund : Nat]]
    BY <1>1 DEF ApproveWithdrawal, WithdrawInv, WithdrawRows
  <2> QED BY <1>1, <2>1, DecidedMoves DEF ApproveWithdrawal
<1>2. ASSUME NEW w \in Workers, NEW i \in WithdrawalIds, RejectWithdrawal(w, i)
      PROVE  Moves(Task)
  <2>1. withdrawJournal' \in [WithdrawalIds -> [withdraw : Nat, refund : Nat]]
    BY <1>2 DEF RejectWithdrawal, WithdrawInv, WithdrawRows
  <2> QED BY <1>2, <2>1, DecidedMoves DEF RejectWithdrawal
<1> QED
  BY <1>1, <1>2, BeginMoves, CommitMoves DEF WithdrawStep

(* The ledger's own steps and stuttering move nothing of the pipeline's.   *)
LEMMA OtherMoves ==
    ASSUME NEW Task, WithdrawInv(Task),
           UNCHANGED <<withdrawals, withdrawJournal>>, LedgerInv(Task)',
           \A q \in Keys : accounts'[q].locked = accounts[q].locked,
           \A c \in Currencies : Own(c)' = Own(c)
    PROVE  /\ WithdrawInv(Task)'
           /\ \A k \in Keys : LockFollowsHolds(k)
           /\ \A c \in Currencies : ValueFollowsPayouts(c)
<1>1. WithdrawInv(Task)'
  BY DEF WithdrawInv, WithdrawRows
<1>2. /\ \A k \in Keys : WithdrawHolds(k)' = WithdrawHolds(k)
      /\ \A c \in Currencies : PaidOut(c)' = PaidOut(c)
  BY DEF WithdrawHolds, Undecided, PaidOut
<1> QED
  BY <1>1, <1>2, NothingMoves

(* As long as value follows the payouts, it is conserved.                  *)
LEMMA ValueFollows ==
    ASSUME NEW Task, WithdrawInv(Task), WithdrawInv(Task)', WithdrawValueConserved,
           \A c \in Currencies : ValueFollowsPayouts(c)
    PROVE  WithdrawValueConserved'
<1>1. ASSUME NEW c \in Currencies
      PROVE  Held(c)' + Sum(PaidOut(c), MaxWithdrawals)'
               = Cardinality(Users) * Opening + DustIn(c)'
  <2>1. PICK d \in Int :
          /\ Own(c)' = Own(c) - d
          /\ Sum(PaidOut(c), MaxWithdrawals)' = Sum(PaidOut(c), MaxWithdrawals) + d
    BY DEF ValueFollowsPayouts
  <2>2. /\ Held(c) \in Int /\ DustIn(c) \in Int /\ Sum(PaidOut(c), MaxWithdrawals) \in Int
        /\ Held(c)' \in Int /\ DustIn(c)' \in Int
    BY Numbers, NumbersNext
  <2>3. Held(c) + Sum(PaidOut(c), MaxWithdrawals) = Cardinality(Users) * Opening + DustIn(c)
    BY DEF WithdrawValueConserved
  <2>4. Cardinality(Users) * Opening \in Int
    BY LedgerAssumption, FS_CardinalityType
  <2> QED BY <2>1, <2>2, <2>3, <2>4 DEF Own
<1> QED
  BY <1>1 DEF WithdrawValueConserved

(***************************************************************************)
(* Types, holds and value                                                  *)
(***************************************************************************)

(* The inductive invariant, each part inductive relative to the first.     *)
PipelineInv == TypeInv /\ WithdrawHoldsCovered /\ WithdrawValueConserved

(* Nothing is locked, undecided or paid out at first.                      *)
LEMMA PipelineInit == WithdrawInit => PipelineInv
<1> SUFFICES ASSUME WithdrawInit PROVE PipelineInv
  OBVIOUS
<1> USE LedgerAssumption, WithdrawAssumption
<1>1. LedgerTypeOK(TransferTask \cup WithdrawTask) /\ LedgerOK
  BY DEF WithdrawInit, LedgerInit, LedgerTypeOK, LedgerOK, RowOK, Account
<1>2. WithdrawRows
  BY DEF WithdrawInit, WithdrawRows
<1>3. TypeInv
  BY <1>1, <1>2 DEF TypeInv, WithdrawInv, LedgerInv
<1>4. ASSUME NEW k \in Keys
      PROVE  accounts[k].locked = Sum(WithdrawHolds(k), MaxWithdrawals)
  <2>1. \A i \in 1 .. MaxWithdrawals : WithdrawHolds(k)[i] = 0
    BY DEF WithdrawInit, WithdrawHolds, Undecided, NoWithdrawal, WithdrawalIds
  <2>2. Sum(WithdrawHolds(k), MaxWithdrawals) = 0
    BY <1>2, <2>1, RowAmounts, SumZero
  <2> QED
    BY <2>2 DEF WithdrawInit, LedgerInit
<1>5. ASSUME NEW c \in Currencies
      PROVE  Held(c) + Sum(PaidOut(c), MaxWithdrawals)
               = Cardinality(Users) * Opening + DustIn(c)
  <2>1. \A i \in 1 .. MaxWithdrawals : PaidOut(c)[i] = 0
    BY DEF WithdrawInit, PaidOut, NoWithdrawal, WithdrawalIds
  <2>2. Sum(PaidOut(c), MaxWithdrawals) = 0
    BY <1>2, <2>1, RowAmounts, SumZero
  <2>3. /\ Own(c) = Cardinality(Users) * Opening
        /\ Held(c) \in Int /\ DustIn(c) \in Int /\ Own(c) \in Int
    BY <1>3, OwnInit, Numbers DEF TypeInv, WithdrawInit
  <2> QED
    BY <2>2, <2>3 DEF Own
<1> QED
  BY <1>3, <1>4, <1>5 DEF PipelineInv, WithdrawHoldsCovered, WithdrawValueConserved

(* Every step keeps the three of them.                                     *)
LEMMA PipelineStep == PipelineInv /\ [WithdrawNext]_withdrawVars => PipelineInv'
<1> DEFINE Task == TransferTask \cup WithdrawTask
<1> SUFFICES ASSUME PipelineInv, [WithdrawNext]_withdrawVars PROVE PipelineInv'
  OBVIOUS
<1>1. WithdrawInv(Task) /\ ServesWithdrawals(Task) /\ ServesTransfers(Task)
  BY OwnRequests DEF PipelineInv, TypeInv, ServesWithdrawals
<1>2. SUFFICES /\ WithdrawInv(Task)'
               /\ \A k \in Keys : LockFollowsHolds(k)
               /\ \A c \in Currencies : ValueFollowsPayouts(c)
  <2> SUFFICES ASSUME WithdrawInv(Task)',
                      \A k \in Keys : LockFollowsHolds(k),
                      \A c \in Currencies : ValueFollowsPayouts(c)
               PROVE  PipelineInv'
    OBVIOUS
  <2>1. ASSUME NEW k \in Keys
        PROVE  accounts'[k].locked = Sum(WithdrawHolds(k), MaxWithdrawals)'
    BY DEF LockFollowsHolds, PipelineInv, WithdrawHoldsCovered
  <2>2. WithdrawValueConserved'
    <3> HIDE DEF Task
    <3> QED BY <1>1, ValueFollows DEF PipelineInv
  <2> QED
    BY <2>1, <2>2 DEF PipelineInv, TypeInv, WithdrawHoldsCovered
<1>3. CASE WithdrawStep
  <2>1. Moves(Task)
    <3> HIDE DEF Task
    <3> QED BY <1>1, <1>3, WithdrawMoves
  <2> QED BY <2>1 DEF Moves
<1>4. CASE LedgerNext /\ UNCHANGED <<withdrawals, withdrawJournal>>
  <2> HIDE DEF Task
  <2> QED BY <1>1, <1>4, LedgerStep, OtherMoves DEF WithdrawInv
<1>5. CASE UNCHANGED withdrawVars
  <2>1. LedgerInv(Task)' /\ \A c \in Currencies : Own(c)' = Own(c)
    BY <1>1, <1>5
    DEF withdrawVars, ledgerVars, WithdrawInv, LedgerInv, LedgerTypeOK, LedgerOK, RowOK, Own, Held,
        DustIn
  <2> HIDE DEF Task
  <2> QED BY <1>1, <1>5, <2>1, OtherMoves DEF withdrawVars, ledgerVars
<1> QED
  BY <1>3, <1>4, <1>5 DEF WithdrawNext

(* PipelineInv is an invariant.                                            *)
LEMMA PipelineAlways == WithdrawSpec => []PipelineInv
<1> QED BY PipelineInit, PipelineStep, PTL DEF WithdrawSpec

(* Every request, row and account of the withdrawal pipeline keeps its     *)
(* type, whatever the constants.                                           *)
THEOREM WithdrawTypeCorrect == WithdrawSpec => []WithdrawTypeOK
<1>1. PipelineInv => WithdrawTypeOK
  BY DEF PipelineInv, TypeInv, WithdrawInv, LedgerInv, WithdrawRows, WithdrawTypeOK
<1> QED BY <1>1, PipelineAlways, PTL

(* No step of the pipeline leaves a negative balance, a negative lock or   *)
(* more locked than there is: the UPDATEs' own WHERE clauses suffice, the  *)
(* CHECK constraints never have to catch a settlement.                     *)
THEOREM WithdrawLedgerOK == WithdrawSpec => []LedgerOK
<1>1. PipelineInv => LedgerOK
  BY DEF PipelineInv, TypeInv, WithdrawInv, LedgerInv
<1> QED BY <1>1, PipelineAlways, PTL

(* The locked column of every account is exactly what its undecided        *)
(* withdrawals hold: funds locked at request time cannot be spent twice,   *)
(* are not lost by a rejection, and stay locked while a request waits.     *)
THEOREM HoldsCovered == WithdrawSpec => []WithdrawHoldsCovered
<1>1. PipelineInv => WithdrawHoldsCovered
  BY DEF PipelineInv
<1> QED BY <1>1, PipelineAlways, PTL

(* In each currency, what the accounts hold and what approved withdrawals  *)
(* took out add up to what the accounts were opened with and the half      *)
(* units of transfers, for any number of users, any resolution of the      *)
(* amounts requests name, and whatever transfers, requests and decisions   *)
(* ran in between.                                                         *)
THEOREM ValueConserved == WithdrawSpec => []WithdrawValueConserved
<1>1. PipelineInv => WithdrawValueConserved
  BY DEF PipelineInv
<1> QED BY <1>1, PipelineAlways, PTL

(***************************************************************************)
(* One decision per request                                                *)
(***************************************************************************)

(* The types are invariant.                                                *)
LEMMA TypeAlways == WithdrawSpec => []TypeInv
<1>1. PipelineInv => TypeInv
  BY DEF PipelineInv
<1> QED BY <1>1, PipelineAlways, PTL

(* No row, no journal.                                                     *)
LEMMA DecisionInit == WithdrawInit => OneDecisionPerWithdrawal
BY DEF WithdrawInit, OneDecisionPerWithdrawal, NoWithdrawal

(* Every action keeps status and journal in step.                          *)
LEMMA DecisionStep ==
    TypeInv /\ OneDecisionPerWithdrawal /\ [WithdrawNext]_withdrawVars
        => OneDecisionPerWithdrawal'
<1> SUFFICES ASSUME TypeInv, OneDecisionPerWithdrawal, [WithdrawNext]_withdrawVars
             PROVE  OneDecisionPerWithdrawal'
  OBVIOUS
<1>1. /\ withdrawals \in [WithdrawalIds -> Withdrawal \cup {NoWithdrawal}]
      /\ withdrawJournal \in [WithdrawalIds -> [withdraw : Nat, refund : Nat]]
  BY DEF TypeInv, WithdrawInv, WithdrawRows
<1>2. ASSUME UNCHANGED <<withdrawals, withdrawJournal>>
      PROVE  OneDecisionPerWithdrawal'
  BY <1>2 DEF OneDecisionPerWithdrawal
<1>3. ASSUME NEW w \in Workers, NEW i \in WithdrawalIds, CommitWithdraw(w, i)
      PROVE  OneDecisionPerWithdrawal'
  <2>1. withdrawals'[i].status \in {"queued", "auto_approved"}
    BY <1>1, <1>3 DEF CommitWithdraw
  <2> QED
    BY <1>1, <1>3, <2>1 DEF CommitWithdraw, OneDecisionPerWithdrawal, Recorded
<1>4. ASSUME NEW w \in Workers, NEW i \in WithdrawalIds, ApproveWithdrawal(w, i)
      PROVE  OneDecisionPerWithdrawal'
  <2>1. withdrawals[i] \in Withdrawal
    BY <1>4, RecordedRow DEF ApproveWithdrawal, TypeInv, WithdrawInv
  <2>2. /\ withdrawals'[i].status = "approved"
        /\ \A j \in WithdrawalIds : j # i => withdrawals'[j] = withdrawals[j]
    BY <1>1, <1>4, <2>1 DEF ApproveWithdrawal, Withdrawal
  <2> QED
    BY <1>1, <1>4, <2>2 DEF ApproveWithdrawal, OneDecisionPerWithdrawal
<1>5. ASSUME NEW w \in Workers, NEW i \in WithdrawalIds, RejectWithdrawal(w, i)
      PROVE  OneDecisionPerWithdrawal'
  <2>1. withdrawals[i] \in Withdrawal
    BY <1>5, RecordedRow DEF RejectWithdrawal, TypeInv, WithdrawInv
  <2>2. /\ withdrawals'[i].status = "rejected"
        /\ \A j \in WithdrawalIds : j # i => withdrawals'[j] = withdrawals[j]
    BY <1>1, <1>5, <2>1 DEF RejectWithdrawal, Withdrawal
  <2> QED
    BY <1>1, <1>5, <2>2 DEF RejectWithdrawal, OneDecisionPerWithdrawal
<1>6. ASSUME NEW w \in Workers, NEW k, NEW a, NEW text, NEW usd, NEW risk,
             BeginWithdraw(w, k, a, text, usd, risk)
      PROVE  OneDecisionPerWithdrawal'
  BY <1>2, <1>6 DEF BeginWithdraw
<1> QED
  BY <1>2, <1>3, <1>4, <1>5, <1>6 DEF WithdrawNext, WithdrawStep, withdrawVars

(* A double click, or two superadmins, never decide a request twice, and   *)
(* the one journal row of a decided request is the one its status names.   *)
THEOREM OneDecision == WithdrawSpec => []OneDecisionPerWithdrawal
<1> QED BY TypeAlways, DecisionInit, DecisionStep, PTL DEF WithdrawSpec

(***************************************************************************)
(* What a decision does to the amount a user can spend                     *)
(***************************************************************************)

(* A decision of request i moves the available balance of every account by *)
(* what DecisionsMoveOnlyTheHold says.                                     *)
DecisionMoves(i) ==
    \A k \in Keys :
        Available(k)' - Available(k) =
            IF withdrawals'[i].status = "rejected" /\ k = withdrawals[i].key
              THEN withdrawals[i].amount ELSE 0

(* What an approval does to the available amounts.                         *)
LEMMA ApprovalAvailable ==
    ASSUME TypeInv, NEW w \in Workers, NEW i \in WithdrawalIds, ApproveWithdrawal(w, i)
    PROVE  DecisionMoves(i)
<1> SUFFICES ASSUME NEW k \in Keys
             PROVE  Available(k)' - Available(k) =
                      IF withdrawals'[i].status = "rejected" /\ k = withdrawals[i].key
                        THEN withdrawals[i].amount ELSE 0
  BY DEF DecisionMoves
<1>1. /\ withdrawals[i] \in Withdrawal
      /\ withdrawals[i].key \in Keys /\ withdrawals[i].amount \in Nat
  BY RecordedRow DEF ApproveWithdrawal, TypeInv, WithdrawInv
<1>2. withdrawals'[i].status = "approved"
  BY <1>1 DEF ApproveWithdrawal, Withdrawal, TypeInv, WithdrawInv, WithdrawRows
<1>3. Sound
  BY Numbers DEF TypeInv
<1>4. /\ accounts'[k].locked = accounts[k].locked -
            (IF k = withdrawals[i].key THEN withdrawals[i].amount ELSE 0)
      /\ accounts'[k].balance = accounts[k].balance -
            (IF k = withdrawals[i].key THEN withdrawals[i].amount ELSE 0)
  BY <1>1, <1>3, SettleMoves DEF ApproveWithdrawal
<1>5. accounts[k].locked \in Int /\ accounts[k].balance \in Int
  BY <1>3 DEF Sound, Account
<1> QED
  BY <1>1, <1>2, <1>4, <1>5 DEF Available

(* What a rejection does to the available amounts.                         *)
LEMMA RejectionAvailable ==
    ASSUME TypeInv, NEW w \in Workers, NEW i \in WithdrawalIds, RejectWithdrawal(w, i)
    PROVE  DecisionMoves(i)
<1> SUFFICES ASSUME NEW k \in Keys
             PROVE  Available(k)' - Available(k) =
                      IF withdrawals'[i].status = "rejected" /\ k = withdrawals[i].key
                        THEN withdrawals[i].amount ELSE 0
  BY DEF DecisionMoves
<1>1. /\ withdrawals[i] \in Withdrawal
      /\ withdrawals[i].key \in Keys /\ withdrawals[i].amount \in Nat
  BY RecordedRow DEF RejectWithdrawal, TypeInv, WithdrawInv
<1>2. withdrawals'[i].status = "rejected"
  BY <1>1 DEF RejectWithdrawal, Withdrawal, TypeInv, WithdrawInv, WithdrawRows
<1>3. Sound
  BY Numbers DEF TypeInv
<1>4. /\ accounts'[k].locked = accounts[k].locked -
            (IF k = withdrawals[i].key THEN withdrawals[i].amount ELSE 0)
      /\ accounts'[k].balance = accounts[k].balance
  BY <1>1, <1>3, UnlockMoves DEF RejectWithdrawal
<1>5. accounts[k].locked \in Int /\ accounts[k].balance \in Int
  BY <1>3 DEF Sound, Account
<1> QED
  BY <1>1, <1>2, <1>4, <1>5 DEF Available

(* A step that decides a row is its approval or its rejection.             *)
LEMMA DecisionsStep ==
    TypeInv /\ [WithdrawNext]_withdrawVars =>
        [\A i \in WithdrawalIds :
           withdrawals[i].status = "queued" /\ withdrawals'[i].status # "queued" =>
             DecisionMoves(i)]_withdrawVars
<1> SUFFICES ASSUME TypeInv, WithdrawNext, NEW i \in WithdrawalIds,
                    withdrawals[i].status = "queued", withdrawals'[i].status # "queued"
             PROVE  DecisionMoves(i)
  OBVIOUS
<1>1. withdrawals \in [WithdrawalIds -> Withdrawal \cup {NoWithdrawal}]
  BY DEF TypeInv, WithdrawInv, WithdrawRows
<1>2. ASSUME NEW w \in Workers, NEW j \in WithdrawalIds, CommitWithdraw(w, j)
      PROVE  FALSE
  BY <1>1, <1>2 DEF CommitWithdraw, Recorded
<1>3. ASSUME NEW w \in Workers, NEW j \in WithdrawalIds, ApproveWithdrawal(w, j)
      PROVE  DecisionMoves(i)
  <2>1. i = j
    BY <1>1, <1>3 DEF ApproveWithdrawal
  <2> QED BY <1>3, <2>1, ApprovalAvailable
<1>4. ASSUME NEW w \in Workers, NEW j \in WithdrawalIds, RejectWithdrawal(w, j)
      PROVE  DecisionMoves(i)
  <2>1. i = j
    BY <1>1, <1>4 DEF RejectWithdrawal
  <2> QED BY <1>4, <2>1, RejectionAvailable
<1>5. ASSUME UNCHANGED withdrawals PROVE FALSE
  BY <1>5
<1>6. ASSUME NEW w \in Workers, NEW k, NEW a, NEW text, NEW usd, NEW risk,
             BeginWithdraw(w, k, a, text, usd, risk)
      PROVE  FALSE
  BY <1>5, <1>6 DEF BeginWithdraw
<1> QED
  BY <1>2, <1>3, <1>4, <1>5, <1>6 DEF WithdrawNext, WithdrawStep

(* An approval takes nothing more from what the user can spend, a          *)
(* rejection gives back exactly what the request took, and neither touches *)
(* another account (handleAdminApproveWithdrawal,                          *)
(* handleAdminRejectWithdrawal).                                           *)
THEOREM DecisionsMoveTheHold == WithdrawSpec => DecisionsMoveOnlyTheHold
<1>1. TypeInv /\ [WithdrawNext]_withdrawVars =>
        [\A i \in WithdrawalIds :
           withdrawals[i].status = "queued" /\ withdrawals'[i].status # "queued" =>
             \A k \in Keys :
               Available(k)' - Available(k) =
                 IF withdrawals'[i].status = "rejected" /\ k = withdrawals[i].key
                   THEN withdrawals[i].amount ELSE 0]_withdrawVars
  BY DecisionsStep DEF DecisionMoves
<1> QED
  BY <1>1, TypeAlways, PTL DEF WithdrawSpec, DecisionsMoveOnlyTheHold

=============================================================================
