------------------------ MODULE FinanceConvert_proofs ------------------------
(***************************************************************************)
(* The instant convert engine, for any users, currencies, amounts, rates   *)
(* and requests in flight: every conversion is recorded with the amounts   *)
(* it moved, and every balance is explained by the entries of its account. *)
(***************************************************************************)
EXTENDS FinanceConvert, FinanceLedger_proofs

Task == TransferTask \cup ConvertTask

(* The requests of the engine are told apart by their op.                  *)
LEMMA ConvertRequests ==
    /\ ServesTransfers(Task)
    /\ \A t \in {Idle} \cup Task : t.op \in {"convert", "convert_at"} => t \in ConvertTask
BY DEF ServesTransfers, Task, TransferTask, ConvertTask, Idle

ConvertRows ==
    /\ rate \in [Pairs -> Rates \cup {0}]
    /\ converted \in [Currencies -> Int]
    /\ answer \in Answers

(* OrdersExplainBalances, with the half units on the other side.           *)
OwnExplained ==
    \A c \in Currencies : Own(c) = Cardinality(Users) * Opening + converted[c]

(* The inductive invariant.                                                *)
ConvertInv ==
    /\ LedgerInv(Task)
    /\ ConvertRows
    /\ EntriesExplainBalances
    /\ OwnExplained

(* A parked conversion names a user, a pair and the rate it will use.      *)
LEMMA ConvertParked ==
    ASSUME LedgerInv(Task), NEW w \in Workers, worker[w].op \in {"convert", "convert_at"}
    PROVE  /\ worker[w] \in ConvertTask
           /\ worker[w].user \in Users /\ worker[w].pair \in Pairs
           /\ worker[w].pair[1] \in Currencies /\ worker[w].pair[2] \in Currencies
           /\ worker[w].pair[1] # worker[w].pair[2]
           /\ worker[w].amount \in Nat /\ worker[w].rate \in Nat
<1> DEFINE t == worker[w]
<1>1. t \in ConvertTask
  BY ConvertRequests DEF LedgerInv, LedgerTypeOK
<1> HIDE DEF t
<1>2. t.user \in Users /\ t.pair \in Pairs /\ t.amount \in Amounts /\ t.rate \in Rates \cup {0}
  BY <1>1 DEF ConvertTask
<1>3. t.pair[1] \in Currencies /\ t.pair[2] \in Currencies /\ t.pair[1] # t.pair[2]
  BY <1>2 DEF Pairs
<1>4. t.amount \in Nat /\ t.rate \in Nat
  <2>1. Amounts \subseteq Nat /\ Rates \cup {0} \subseteq Nat
    BY LedgerAssumption, ConvertAssumption
  <2> QED BY <1>2, <2>1
<1> QED
  BY <1>1, <1>2, <1>3, <1>4 DEF t

(* A step that moves no money keeps the invariant.                         *)
LEMMA NoMoney ==
    ASSUME ConvertInv, UNCHANGED <<accounts, posted, dust, off, converted>>,
           worker' \in [Workers -> {Idle} \cup Task],
           rate' \in [Pairs -> Rates \cup {0}], answer' \in Answers
    PROVE  ConvertInv'
BY DEF ConvertInv, LedgerInv, LedgerTypeOK, LedgerOK, RowOK, ConvertRows,
       EntriesExplainBalances, OwnExplained, Own, Held, DustIn

(* A request is parked, then reads the rate or is refused.                 *)
LEMMA RequestKeeps ==
    ASSUME ConvertInv, NEW w \in Workers
    PROVE  /\ \A u \in Users, p \in Pairs, a \in Amounts :
                BeginConvert(w, u, p, a) => ConvertInv'
           /\ ReadRate(w) => ConvertInv'
<1>1. /\ worker \in [Workers -> {Idle} \cup Task] /\ ConvertRows /\ LedgerInv(Task)
  BY DEF ConvertInv, LedgerInv, LedgerTypeOK
<1>2. ASSUME NEW u \in Users, NEW p \in Pairs, NEW a \in Amounts, BeginConvert(w, u, p, a)
      PROVE  ConvertInv'
  <2> DEFINE task == [op |-> "convert", user |-> u, pair |-> p, amount |-> a, rate |-> 0]
  <2>1. task \in Task
    BY DEF Task, ConvertTask
  <2>2. worker' = [worker EXCEPT ![w] = task]
    BY <1>2 DEF BeginConvert
  <2> HIDE DEF task
  <2>3. worker' \in [Workers -> {Idle} \cup Task]
    BY <1>1, <2>1, <2>2
  <2> QED BY <1>1, <1>2, <2>3, NoMoney DEF BeginConvert, ConvertRows
<1>3. ASSUME ReadRate(w) PROVE ConvertInv'
  <2> DEFINE t == worker[w]
             r == rate[t.pair]
  <2>1. t \in ConvertTask /\ t.pair \in Pairs
    BY <1>1, <1>3, ConvertParked DEF ReadRate
  <2>2. UNCHANGED <<accounts, posted, dust, off, converted, rate>>
    BY <1>3 DEF ReadRate
  <2>3. CASE Answered(w, "no_rate")
    BY <1>1, <2>2, <2>3, NoMoney DEF Answered, ConvertRows, Answers
  <2>4. CASE /\ worker' = [worker EXCEPT ![w].op = "convert_at", ![w].rate = r]
             /\ UNCHANGED answer
    <3>1. r \in Rates \cup {0}
      BY <1>1, <2>1 DEF ConvertRows
    <3> HIDE DEF r
    <3> DEFINE mid == [t EXCEPT !.op = "convert_at"]
               new == [mid EXCEPT !.rate = r]
    <3>2. mid \in ConvertTask
      BY <2>1 DEF ConvertTask
    <3>3. new \in ConvertTask
      <4> HIDE DEF mid
      <4> QED BY <3>1, <3>2 DEF ConvertTask
    <3>4. worker' = [worker EXCEPT ![w] = new]
      BY <1>1, <2>4
    <3> HIDE DEF new
    <3>5. worker' \in [Workers -> {Idle} \cup Task]
      BY <1>1, <3>3, <3>4 DEF Task
    <3> QED BY <1>1, <2>2, <2>4, <3>5, NoMoney DEF ConvertRows
  <2> QED BY <1>3, <2>3, <2>4 DEF ReadRate
<1> QED
  BY <1>2, <1>3

(* A conversion takes its debit out of one currency, puts its credit into  *)
(* the other, and records both; or it records and moves nothing.           *)
LEMMA CommitKeeps ==
    ASSUME ConvertInv, NEW w \in Workers, CommitConvert(w)
    PROVE  ConvertInv'
<1> DEFINE t == worker[w]
           debit == [key |-> <<t.user, t.pair[1]>>, amount |-> t.amount]
           credit == [key |-> <<t.user, t.pair[2]>>, amount |-> t.amount * t.rate]
<1>1. /\ t.user \in Users /\ t.pair[1] \in Currencies /\ t.pair[2] \in Currencies
      /\ t.pair[1] # t.pair[2] /\ t.amount \in Nat /\ t.rate \in Nat
  BY ConvertParked DEF CommitConvert, ConvertInv
<1>2. /\ worker' \in [Workers -> {Idle} \cup Task] /\ UNCHANGED <<off, rate>>
      /\ answer' \in Answers
  BY DEF CommitConvert, Answered, Answers, ConvertInv, LedgerInv, LedgerTypeOK
<1>3. CASE UNCHANGED <<accounts, posted, dust, converted>>
  BY <1>2, <1>3, NoMoney DEF ConvertInv, ConvertRows
<1>4. CASE /\ LedgerPost(debit, credit)
           /\ converted' = [converted EXCEPT ![t.pair[1]] = @ - ToColumn(debit.amount),
                                             ![t.pair[2]] = @ + ToColumn(credit.amount)]
  <2>1. t.amount * t.rate \in Nat
    BY <1>1
  <2>2. debit \in [key : Keys, amount : Nat] /\ credit \in [key : Keys, amount : Nat]
    <3>1. <<t.user, t.pair[1]>> \in Keys /\ <<t.user, t.pair[2]>> \in Keys
      BY <1>1 DEF Keys
    <3> QED BY <1>1, <2>1, <3>1
  <2>3. debit.key[2] = t.pair[1] /\ credit.key[2] = t.pair[2]
    OBVIOUS
  <2> HIDE DEF debit, credit
  <2>4. Sound /\ posted \in [Keys -> Int] /\ dust \in [Keys -> Nat] /\ EntriesExplainBalances
    BY DEF ConvertInv, LedgerInv, LedgerTypeOK, Sound
  <2>5. Sound' /\ posted' \in [Keys -> Int] /\ dust' \in [Keys -> Nat] /\ EntriesExplainBalances'
    BY <1>4, <2>2, <2>4, PostSound, PostEntries, PostKeepsEntries
  <2> DEFINE d == ToColumn(debit.amount)
             e == ToColumn(credit.amount)
  <2>6. /\ converted \in [Currencies -> Int] /\ converted' \in [Currencies -> Int]
        /\ d \in Int /\ e \in Int
        /\ \A c \in Currencies : converted'[c] =
             converted[c] - (IF t.pair[1] = c THEN d ELSE 0) + (IF t.pair[2] = c THEN e ELSE 0)
    <3>1. converted \in [Currencies -> Int] /\ d \in Int /\ e \in Int
      BY <1>4, <2>2, <2>4, PostMoves DEF ConvertInv, ConvertRows
    <3> DEFINE from == t.pair[1]
               to == t.pair[2]
    <3>2. /\ converted' = [converted EXCEPT ![from] = @ - d, ![to] = @ + e]
          /\ from \in Currencies /\ to \in Currencies /\ from # to
      BY <1>1, <1>4
    <3> HIDE DEF from, to, d, e
    <3>3. /\ converted' \in [Currencies -> Int]
          /\ \A c \in Currencies : converted'[c] =
               converted[c] - (IF from = c THEN d ELSE 0) + (IF to = c THEN e ELSE 0)
      BY <3>1, <3>2
    <3> QED BY <3>1, <3>3 DEF from, to
  <2>7. ASSUME NEW c \in Currencies
        PROVE  Own(c)' = Cardinality(Users) * Opening + converted'[c]
    <3>1. Own(c)' = Own(c) - (IF t.pair[1] = c THEN d ELSE 0) + (IF t.pair[2] = c THEN e ELSE 0)
      BY <1>4, <2>2, <2>3, <2>4, PostOwn
    <3>2. Own(c) = Cardinality(Users) * Opening + converted[c]
      BY DEF ConvertInv, OwnExplained
    <3>3. Cardinality(Users) * Opening \in Int /\ converted[c] \in Int
      <4>1. Cardinality(Users) \in Nat /\ Opening \in Nat
        BY FS_CardinalityType, LedgerAssumption
      <4> QED BY <2>6, <4>1
    <3> DEFINE total == Cardinality(Users) * Opening
    <3> HIDE DEF total, d, e
    <3>4. Own(c)' = total + converted'[c]
      <4>1. total \in Int /\ Own(c) = total + converted[c]
        BY <3>2, <3>3 DEF total
      <4> QED BY <2>6, <3>1, <3>3, <4>1
    <3> QED BY <3>4 DEF total
  <2>8. ConvertRows'
    BY <1>2, <2>6 DEF ConvertRows, ConvertInv
  <2> QED
    BY <1>2, <2>5, <2>7, <2>8
    DEF ConvertInv, LedgerInv, LedgerTypeOK, Sound, OwnExplained
<1> QED
  BY <1>3, <1>4 DEF CommitConvert

(* ConvertInv holds at first.                                              *)
LEMMA ConvertStart == ConvertInit => ConvertInv
<1> SUFFICES ASSUME ConvertInit PROVE ConvertInv
  OBVIOUS
<1>1. LedgerTypeOK(Task) /\ LedgerOK /\ EntriesExplainBalances
  BY LedgerAssumption
  DEF ConvertInit, LedgerInit, LedgerTypeOK, LedgerOK, RowOK, Account, EntriesExplainBalances
<1>2. ConvertRows
  BY DEF ConvertInit, ConvertRows, Answers
<1>3. ASSUME NEW c \in Currencies
      PROVE  Own(c) = Cardinality(Users) * Opening + converted[c]
  <2>1. Own(c) = Cardinality(Users) * Opening /\ converted[c] = 0
    BY OwnInit DEF ConvertInit
  <2>2. Own(c) \in Int
    BY <1>1, OwnType DEF LedgerTypeOK, Sound
  <2> QED BY <2>1, <2>2
<1> QED
  BY <1>1, <1>2, <1>3 DEF ConvertInv, LedgerInv, OwnExplained

(* Every step keeps it: an admin may change or delete a rate between a     *)
(* conversion's read of it and its commit.                                 *)
LEMMA ConvertStepKeeps == ConvertInv /\ [ConvertNext]_convertVars => ConvertInv'
<1> SUFFICES ASSUME ConvertInv, [ConvertNext]_convertVars PROVE ConvertInv'
  OBVIOUS
<1>1. /\ worker \in [Workers -> {Idle} \cup Task] /\ ConvertRows /\ LedgerInv(Task)
  BY DEF ConvertInv, LedgerInv, LedgerTypeOK
<1>2. ASSUME NEW p \in Pairs, NEW r \in Rates, SetConvertRate(p, r) PROVE ConvertInv'
  BY <1>1, <1>2, NoMoney DEF SetConvertRate, ledgerVars, ConvertRows
<1>3. ASSUME NEW p \in Pairs, DeleteConvertRate(p) PROVE ConvertInv'
  BY <1>1, <1>3, NoMoney DEF DeleteConvertRate, ledgerVars, ConvertRows
<1>4. CASE LedgerNext /\ UNCHANGED <<rate, converted, answer>>
  <2>1. /\ LedgerInv(Task)' /\ EntriesExplainBalances'
        /\ \A c \in Currencies : Own(c)' = Own(c)
    BY <1>1, <1>4, LedgerStep, ConvertRequests DEF ConvertInv
  <2> QED BY <1>4, <2>1 DEF ConvertInv, ConvertRows, OwnExplained
<1>5. CASE UNCHANGED convertVars
  BY <1>1, <1>5, NoMoney DEF convertVars, ledgerVars, ConvertRows
<1> QED
  BY <1>2, <1>3, <1>4, <1>5, RequestKeeps, CommitKeeps DEF ConvertNext, ConvertStep

(* ConvertInv is an invariant.                                             *)
LEMMA ConvertAlways == ConvertSpec => []ConvertInv
<1> QED BY ConvertStart, ConvertStepKeeps, PTL DEF ConvertSpec

(* Every request, rate, account and answer of the convert engine keeps its *)
(* type (finance_convert.go).                                              *)
THEOREM ConvertTypeCorrect == ConvertSpec => []ConvertTypeOK
<1>1. ConvertInv => ConvertTypeOK
  BY DEF ConvertInv, LedgerInv, ConvertRows, ConvertTypeOK, Task
<1> QED BY <1>1, ConvertAlways, PTL

(* No conversion or transfer, however they interleave, leaves an account   *)
(* negative: ledgerPost's CHECK is on the debited row only, and that is    *)
(* enough.                                                                 *)
THEOREM ConvertLedgerOK == ConvertSpec => []LedgerOK
<1>1. ConvertInv => LedgerOK
  BY DEF ConvertInv, LedgerInv
<1> QED BY <1>1, ConvertAlways, PTL

(* The entries of every account and the half units its debits kept add up  *)
(* to its balance, through conversions and transfers of amounts of any     *)
(* resolution (finance_ledger.go:264-282).                                 *)
THEOREM EntriesExplain == ConvertSpec => []EntriesExplainBalances
<1>1. ConvertInv => EntriesExplainBalances
  BY DEF ConvertInv
<1> QED BY <1>1, ConvertAlways, PTL

(* What the users hold of a currency is what the accounts were opened with *)
(* plus what the recorded conversions brought in and took out and the half *)
(* units that debits kept, for any number of users, any resolution of the  *)
(* amounts and any rates, changed at any moment.                           *)
THEOREM OrdersExplain == ConvertSpec => []OrdersExplainBalances
<1>1. ASSUME ConvertInv PROVE OrdersExplainBalances
  <2>1. SUFFICES ASSUME NEW c \in Currencies
                 PROVE  Held(c) = Cardinality(Users) * Opening + converted[c] + DustIn(c)
    BY DEF OrdersExplainBalances
  <2>2. Own(c) = Cardinality(Users) * Opening + converted[c]
    BY <1>1 DEF ConvertInv, OwnExplained
  <2>3. Held(c) \in Int /\ DustIn(c) \in Int /\ converted[c] \in Int
    BY <1>1, OwnType DEF ConvertInv, ConvertRows, LedgerInv, LedgerTypeOK, Sound
  <2>4. Cardinality(Users) * Opening \in Int
    BY FS_CardinalityType, LedgerAssumption
  <2> QED BY <2>2, <2>3, <2>4 DEF Own
<1> QED BY <1>1, ConvertAlways, PTL

=============================================================================
