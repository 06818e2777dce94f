------------------------- MODULE FinancePlane_proofs -------------------------
(***************************************************************************)
(* The escrow marketplace, for any users, currencies, amounts, orders and  *)
(* requests in flight; and the whole finance plane as long as no request   *)
(* acts on a stale snapshot: the locks are exactly the holds, and the      *)
(* marketplace implements the escrow promise.                              *)
(***************************************************************************)
EXTENDS FinancePlane, FinanceWithdraw_proofs

SnapshotOps == {"release", "cancel", "resolve_buyer", "resolve_seller"}
PayoutOps == {"release", "resolve_buyer"}

ServesEscrow(Task) ==
    /\ ServesTransfers(Task)
    /\ EscrowTask \subseteq Task
    /\ \A t \in Task : t.op \in {"open", "accept"} \cup SnapshotOps => t \in EscrowTask

(***************************************************************************)
(* The inductive invariant                                                 *)
(***************************************************************************)

EscrowRows ==
    /\ orders \in [OrderIds -> Order \cup {NoOrder}]
    /\ escrowJournal \in [OrderIds -> [payout : Nat, refund : Nat]]

(* An order that was accepted, and is not closed, has a buyer who is not   *)
(* its seller.                                                             *)
Parties ==
    \A i \in OrderIds :
        orders[i].status \in {"escrowed", "paid", "disputed"} =>
            orders[i].buyer \in Users \ {orders[i].seller}

(* What a snapshot still says of the row it was taken from: the seller,    *)
(* the currency and the amount are those of the row; a snapshot that will  *)
(* pay a buyer was taken after the row was accepted, and the buyer is      *)
(* fixed from then on.  Every snapshot is of an active order.              *)
Faithful(t, row) ==
    t.op \in SnapshotOps =>
        /\ row \in Order
        /\ t.seen.status \in ActiveStatus
        /\ t.seen.seller = row.seller
        /\ t.seen.currency = row.currency
        /\ t.seen.amount = row.amount
        /\ t.op \in PayoutOps =>
              /\ row.status # "open"
              /\ t.seen.buyer = row.buyer
              /\ t.seen.buyer \in Users \ {t.seen.seller}

Snapshots == \A w \in Workers : Faithful(worker[w], orders[worker[w].order])

EscrowInv(Task) ==
    /\ LedgerInv(Task)
    /\ EscrowRows
    /\ Parties
    /\ Snapshots
    /\ ClosedIffMoved

(***************************************************************************)
(* Requests and rows                                                       *)
(***************************************************************************)

(* The request parked on a worker is of the operation its op names.        *)
LEMMA EscrowParked ==
    ASSUME NEW Task, ServesEscrow(Task), LedgerInv(Task), NEW w \in Workers
    PROVE  /\ worker[w].op = "open" =>
                /\ worker[w].key \in Keys /\ worker[w].amount \in Amounts
                /\ worker[w].amount \in Nat
           /\ worker[w].op = "accept" =>
                worker[w].order \in OrderIds /\ worker[w].buyer \in Users
           /\ worker[w].op \in SnapshotOps =>
                worker[w].order \in OrderIds /\ worker[w].seen \in Order
<1> DEFINE t == worker[w]
<1>1. t.op \in {"open", "accept"} \cup SnapshotOps => t \in EscrowTask
  BY DEF LedgerInv, LedgerTypeOK, ServesEscrow, Idle, SnapshotOps
<1>2. ASSUME t \in EscrowTask
      PROVE  \/ t \in [op : {"open"}, key : Keys, amount : Amounts]
             \/ t \in [op : {"accept"}, order : OrderIds, buyer : Users]
             \/ t \in [op : SnapshotOps, order : OrderIds, seen : Order]
  BY <1>2 DEF EscrowTask, SnapshotOps
<1>3. Amounts \subseteq Nat
  BY LedgerAssumption
<1> HIDE DEF t
<1>4. /\ t.op = "open" => t.key \in Keys /\ t.amount \in Amounts /\ t.amount \in Nat
      /\ t.op = "accept" => t.order \in OrderIds /\ t.buyer \in Users
      /\ t.op \in SnapshotOps => t.order \in OrderIds /\ t.seen \in Order
  BY <1>1, <1>2, <1>3 DEF SnapshotOps
<1> QED
  BY <1>4 DEF t

(* A row with a status other than "none" is an order.                      *)
LEMMA OpenedRow ==
    ASSUME EscrowRows, NEW i \in OrderIds, orders[i].status # "none"
    PROVE  /\ orders[i] \in Order
           /\ SellerKey(orders[i]) \in Keys /\ orders[i].amount \in Nat
<1>1. orders[i] \in Order
  BY DEF EscrowRows, NoOrder
<1> QED
  BY <1>1, StoredAmount DEF Order, SellerKey, Keys

(* How a row may change: an order stays one, with its seller, currency and *)
(* amount, and keeps its buyer once it is no longer open.                  *)
RowKept(i) ==
    orders[i] \in Order =>
        /\ orders'[i] \in Order
        /\ orders'[i].seller = orders[i].seller
        /\ orders'[i].currency = orders[i].currency
        /\ orders'[i].amount = orders[i].amount
        /\ orders[i].status # "open" =>
              orders'[i].status # "open" /\ orders'[i].buyer = orders[i].buyer

(* Snapshots stay faithful while rows are kept, if a worker only takes on  *)
(* a request that is none, or one faithful to the row as it becomes.       *)
LEMMA SnapshotsKept ==
    ASSUME Snapshots, \A w \in Workers : worker[w].op \in SnapshotOps => worker[w].order \in OrderIds,
           \A i \in OrderIds : RowKept(i),
           \A w \in Workers : \/ worker'[w] = worker[w]
                              \/ Faithful(worker'[w], orders'[worker'[w].order])
    PROVE  Snapshots'
<1> SUFFICES ASSUME NEW w \in Workers, worker'[w] = worker[w]
             PROVE  Faithful(worker'[w], orders'[worker'[w].order])
  BY DEF Snapshots
<1>1. Faithful(worker[w], orders[worker[w].order])
  BY DEF Snapshots
<1>2. CASE worker[w].op \in SnapshotOps
  <2>1. RowKept(worker[w].order)
    BY <1>2
  <2> QED BY <1>1, <1>2, <2>1 DEF Faithful, RowKept
<1>3. CASE worker[w].op \notin SnapshotOps
  BY <1>3 DEF Faithful
<1> QED
  BY <1>2, <1>3

(***************************************************************************)
(* What the steps of the marketplace move                                  *)
(***************************************************************************)

(* A step keeps the invariant and what the users hold.                     *)
EscrowMoves(Task) ==
    /\ EscrowInv(Task)'
    /\ \A c \in Currencies : Own(c)' = Own(c)
    /\ \A v \in Workers : worker'[v] = worker[v] \/ worker'[v] \in {Idle} \cup EscrowTask

(* PayBuyer, on the accounts.                                              *)
Pays(k, b, amount) ==
    /\ accounts[k].locked >= amount
    /\ accounts' = [Settled(k, amount) EXCEPT ![b].balance = @ + amount]

(* A payout moves the amount out of the seller's lock into the buyer's     *)
(* balance; nobody else's account, and no currency's total, is touched.    *)
LEMMA PaySound ==
    ASSUME Sound, NEW k \in Keys, NEW b \in Keys, b # k, NEW amount \in Nat,
           Pays(k, b, amount)
    PROVE  /\ Sound'
           /\ \A q \in Keys :
                /\ accounts'[q].locked = accounts[q].locked - (IF q = k THEN amount ELSE 0)
                /\ accounts'[q].balance = accounts[q].balance
                     - (IF q = k THEN amount ELSE 0) + (IF q = b THEN amount ELSE 0)
           /\ k[2] = b[2] /\ dust' = dust => \A c \in Currencies : Own(c)' = Own(c)
<1> DEFINE settled == Settled(k, amount)
<1>1. accounts \in [Keys -> Account] /\ \A q \in Keys : RowOK(accounts[q])
  BY DEF Sound, LedgerOK
<1>2. /\ accounts[k].balance - amount \in Nat /\ accounts[k].locked - amount \in Nat
      /\ accounts[k].locked - amount <= accounts[k].balance - amount
  BY <1>1 DEF RowOK, Account, Pays
<1>3. /\ settled \in [Keys -> Account]
      /\ settled[k].balance = accounts[k].balance - amount
      /\ settled[k].locked = accounts[k].locked - amount
      /\ \A q \in Keys : q # k => settled[q] = accounts[q]
  BY <1>1, <1>2 DEF Settled, Account
<1>4. accounts' = [settled EXCEPT ![b].balance = @ + amount]
  BY DEF Pays
<1> HIDE DEF settled
<1>5. /\ accounts' \in [Keys -> Account]
      /\ accounts'[b].balance = settled[b].balance + amount
      /\ accounts'[b].locked = settled[b].locked
      /\ \A q \in Keys : q # b => accounts'[q] = settled[q]
  <2> DEFINE row == [balance |-> settled[b].balance + amount, locked |-> settled[b].locked]
  <2>1. row \in Account
    BY <1>3 DEF Account
  <2>2. [settled[b] EXCEPT !.balance = @ + amount] = row
    <3>1. settled[b] \in Account
      BY <1>3
    <3>2. \A r \in Account : [r EXCEPT !.balance = r.balance + amount]
                               = [balance |-> r.balance + amount, locked |-> r.locked]
      BY DEF Account
    <3> QED BY <3>1, <3>2
  <2>3. accounts' = [settled EXCEPT ![b] = [settled[b] EXCEPT !.balance = @ + amount]]
    BY <1>3, <1>4
  <2>4. accounts' = [settled EXCEPT ![b] = row]
    BY <2>2, <2>3
  <2> QED BY <1>3, <2>1, <2>4
<1>6. \A q \in Keys : /\ accounts[q].balance \in Int /\ accounts[q].locked \in Int
                      /\ settled[q].balance \in Int
  BY <1>1, <1>3 DEF Account
<1>7. \A q \in Keys :
        /\ accounts'[q].locked = accounts[q].locked - (IF q = k THEN amount ELSE 0)
        /\ accounts'[q].balance = accounts[q].balance
             - (IF q = k THEN amount ELSE 0) + (IF q = b THEN amount ELSE 0)
  BY <1>3, <1>5, <1>6
<1>8. Sound'
  <2>1. ASSUME NEW q \in Keys PROVE RowOK(accounts'[q])
    <3>1. accounts'[q] \in Account /\ RowOK(accounts[q])
      BY <1>1, <1>5
    <3>2. CASE q = k
      BY <1>2, <1>3, <1>5, <3>1, <3>2 DEF RowOK, Account
    <3>3. CASE q # k
      BY <1>6, <1>7, <3>1, <3>3 DEF RowOK
    <3> QED BY <3>2, <3>3
  <2> QED BY <1>5, <2>1 DEF Sound, LedgerOK
<1>9. ASSUME k[2] = b[2], dust' = dust, NEW c \in Currencies PROVE Own(c)' = Own(c)
  <2> DEFINE f == Balances(accounts)
             mid == Balances(settled)
             g == Balances(accounts')
  <2>1. /\ f \in [Keys -> Int] /\ mid \in [Keys -> Int] /\ g \in [Keys -> Int]
        /\ \A q \in Keys : /\ f[q] = accounts[q].balance /\ mid[q] = settled[q].balance
                           /\ g[q] = accounts'[q].balance
    BY <1>1, <1>3, <1>5, SoundBalances
  <2>2. Held(c) = TotalIn(f, c) /\ Held(c)' = TotalIn(g, c) /\ DustIn(c)' = DustIn(c)
    BY <1>9, HeldIsTotal, HeldIsTotalNext
  <2> HIDE DEF f, mid, g
  <2>3. TotalIn(mid, c) = TotalIn(f, c) + (IF k[2] = c THEN mid[k] - f[k] ELSE 0)
    <3>1. f \in [Keys -> Int] /\ mid \in [Keys -> Int]
      BY <2>1
    <3>2. \A q \in Keys : q # k => mid[q] = f[q]
      BY <1>3, <2>1
    <3> QED BY <3>1, <3>2, TotalUpdate
  <2>4. TotalIn(g, c) = TotalIn(mid, c) + (IF b[2] = c THEN g[b] - mid[b] ELSE 0)
    <3>1. mid \in [Keys -> Int] /\ g \in [Keys -> Int]
      BY <2>1
    <3>2. \A q \in Keys : q # b => g[q] = mid[q]
      BY <1>5, <2>1
    <3> QED BY <3>1, <3>2, TotalUpdate
  <2>5. /\ TotalIn(f, c) \in Int /\ mid[k] = f[k] - amount /\ g[b] = mid[b] + amount
        /\ f[k] \in Int /\ mid[b] \in Int
    BY <1>3, <1>5, <2>1, TotalType
  <2>6. TotalIn(g, c) = TotalIn(f, c)
    BY <1>9, <2>3, <2>4, <2>5
  <2> QED BY <2>2, <2>6 DEF Own
<1> QED
  BY <1>7, <1>8, <1>9

(* A request is parked.  A snapshot is faithful when it is taken.          *)
LEMMA StartMoves ==
    ASSUME NEW Task, ServesEscrow(Task), EscrowInv(Task), NEW w \in Workers,
           NEW task \in EscrowTask, Start(w, task),
           Faithful(task, orders[task.order])
    PROVE  EscrowMoves(Task)
<1>1. UNCHANGED <<accounts, posted, dust, off, orders, escrowJournal>>
  BY DEF Start
<1>2. /\ worker' \in [Workers -> {Idle} \cup Task]
      /\ \A v \in Workers : v # w => worker'[v] = worker[v]
      /\ worker'[w] = task
  BY DEF Start, EscrowInv, LedgerInv, LedgerTypeOK, ServesEscrow
<1>3. LedgerInv(Task)' /\ \A c \in Currencies : Own(c)' = Own(c)
  BY <1>1, <1>2 DEF EscrowInv, LedgerInv, LedgerTypeOK, LedgerOK, RowOK, Own, Held,
        DustIn
<1>4. EscrowRows' /\ Parties' /\ ClosedIffMoved'
  BY <1>1 DEF EscrowInv, EscrowRows, Parties, ClosedIffMoved
<1>5. Snapshots'
  BY <1>1, <1>2 DEF EscrowInv, Snapshots
<1> QED
  BY <1>2, <1>3, <1>4, <1>5 DEF EscrowMoves, EscrowInv

(* The requests that carry no snapshot, and the snapshots as they are      *)
(* taken: of an open row, of a paid row, of a disputed one.                *)
LEMMA ParkMoves ==
    ASSUME NEW Task, ServesEscrow(Task), EscrowInv(Task), NEW w \in Workers
    PROVE  /\ \A k \in Keys, a \in Amounts : BeginOpen(w, k, a) => EscrowMoves(Task)
           /\ \A i \in OrderIds :
                /\ \A u \in Users : BeginAccept(w, i, u) => EscrowMoves(Task)
                /\ ReadRelease(w, i) => EscrowMoves(Task)
                /\ ReadCancel(w, i) => EscrowMoves(Task)
                /\ \A winner \in {"buyer", "seller"} :
                     ReadResolve(w, i, winner) => EscrowMoves(Task)
<1>1. ASSUME NEW k \in Keys, NEW a \in Amounts, BeginOpen(w, k, a)
      PROVE  EscrowMoves(Task)
  <2> DEFINE task == [op |-> "open", key |-> k, amount |-> a]
  <2>1. task \in EscrowTask /\ Faithful(task, orders[task.order])
    BY DEF EscrowTask, Faithful, SnapshotOps
  <2> HIDE DEF task
  <2>2. Start(w, task)
    BY <1>1 DEF BeginOpen, task
  <2> QED BY <2>1, <2>2, StartMoves
<1>2. ASSUME NEW i \in OrderIds, NEW u \in Users, BeginAccept(w, i, u)
      PROVE  EscrowMoves(Task)
  <2> DEFINE task == [op |-> "accept", order |-> i, buyer |-> u]
  <2>1. task \in EscrowTask /\ Faithful(task, orders[task.order])
    BY DEF EscrowTask, Faithful, SnapshotOps
  <2> HIDE DEF task
  <2>2. Start(w, task)
    BY <1>2 DEF BeginAccept, task
  <2> QED BY <2>1, <2>2, StartMoves
<1>3. ASSUME NEW i \in OrderIds, NEW op \in SnapshotOps, NEW expected,
             ReadOrder(w, i, op, expected), expected \in ActiveStatus,
             op \in PayoutOps => expected \in {"paid", "disputed"}
      PROVE  EscrowMoves(Task)
  <2> DEFINE task == [op |-> op, order |-> i, seen |-> orders[i]]
  <2>1. /\ orders[i] \in Order /\ orders[i].status = expected
        /\ orders[i].status \in ActiveStatus /\ expected # "none"
    BY <1>3, OpenedRow DEF EscrowInv, ReadOrder, ActiveStatus
  <2>2. task \in EscrowTask
    BY <2>1 DEF EscrowTask, SnapshotOps
  <2>3. op \in PayoutOps => orders[i].status # "open"
                            /\ orders[i].buyer \in Users \ {orders[i].seller}
    BY <1>3, <2>1 DEF EscrowInv, Parties
  <2>4. Faithful(task, orders[i])
    BY <2>1, <2>3 DEF Faithful
  <2>5. task.order = i
    OBVIOUS
  <2> HIDE DEF task
  <2>6. Start(w, task)
    BY <1>3 DEF ReadOrder, task
  <2> QED BY <2>2, <2>4, <2>5, <2>6, StartMoves
<1>4. ASSUME NEW i \in OrderIds, ReadRelease(w, i) PROVE EscrowMoves(Task)
  BY <1>3, <1>4 DEF ReadRelease, SnapshotOps, PayoutOps, ActiveStatus
<1>5. ASSUME NEW i \in OrderIds, ReadCancel(w, i) PROVE EscrowMoves(Task)
  BY <1>3, <1>5 DEF ReadCancel, SnapshotOps, PayoutOps, ActiveStatus
<1>6. ASSUME NEW i \in OrderIds, NEW winner \in {"buyer", "seller"}, ReadResolve(w, i, winner)
      PROVE  EscrowMoves(Task)
  BY <1>3, <1>6 DEF ReadResolve, SnapshotOps, PayoutOps, ActiveStatus
<1> QED
  BY <1>1, <1>2, <1>4, <1>5, <1>6

(* An order is opened: a new row, and the amount locked.                   *)
LEMMA OpenMoves ==
    ASSUME NEW Task, ServesEscrow(Task), EscrowInv(Task),
           NEW w \in Workers, NEW i \in OrderIds, CommitOpen(w, i)
    PROVE  EscrowMoves(Task)
<1> DEFINE t == worker[w]
           row == [status |-> "open", seller |-> t.key[1], buyer |-> Nobody,
                   currency |-> t.key[2], amount |-> ToColumn(t.amount)]
<1>1. /\ t.key \in Keys /\ t.amount \in Amounts /\ t.amount \in Nat
      /\ ToColumn(t.amount) \in StoredAmounts
  BY EscrowParked, RowAmount DEF CommitOpen, EscrowInv, StoredAmounts
<1>2. Sound /\ LedgerLock(t.key, t.amount)
  BY DEF CommitOpen, EscrowInv, LedgerInv, LedgerTypeOK, Sound
<1>3. Sound' /\ \A c \in Currencies : Own(c)' = Own(c)
  <2>1. Sound'
    BY <1>1, <1>2, LockSound
  <2>2. \A q \in Keys : accounts'[q].balance = accounts[q].balance
    BY <1>1, <1>2, LockMoves
  <2> QED BY <1>2, <2>1, <2>2, OwnSame DEF CommitOpen
<1>4. /\ worker' \in [Workers -> {Idle} \cup Task]
      /\ \A v \in Workers : worker'[v] = worker[v] \/ worker'[v] = Idle
  BY DEF CommitOpen, Finish, EscrowInv, LedgerInv, LedgerTypeOK
<1>5. LedgerInv(Task)'
  BY <1>3, <1>4 DEF CommitOpen, EscrowInv, LedgerInv, LedgerTypeOK, Sound
<1>6. row \in Order
  BY <1>1 DEF Order, ActiveStatus, Keys
<1>7. /\ orders' = [orders EXCEPT ![i] = row] /\ orders[i] = NoOrder
      /\ UNCHANGED escrowJournal
  BY DEF CommitOpen
<1> HIDE DEF row
<1>8. /\ orders'[i] = row
      /\ \A j \in OrderIds : j # i => orders'[j] = orders[j]
      /\ EscrowRows'
  BY <1>6, <1>7 DEF EscrowInv, EscrowRows
<1>9. row.status = "open"
  BY DEF row
<1>10. Parties'
  BY <1>8, <1>9 DEF EscrowInv, Parties
<1>11. \A j \in OrderIds : RowKept(j)
  BY <1>7, <1>8 DEF RowKept, NoOrder, Order
<1>12. Snapshots'
  <2>1. \A v \in Workers : worker'[v] = worker[v] \/ Faithful(worker'[v], orders'[worker'[v].order])
    BY <1>4 DEF Faithful, Idle, SnapshotOps
  <2> QED BY <1>11, <2>1, SnapshotsKept, EscrowParked DEF EscrowInv
<1>13. ClosedIffMoved'
  BY <1>7, <1>8, <1>9 DEF EscrowInv, ClosedIffMoved, FinalStatus, NoOrder
<1> QED
  BY <1>3, <1>4, <1>5, <1>8, <1>10, <1>12, <1>13 DEF EscrowMoves, EscrowInv

(* accept, paid and dispute change one active row, and nothing else.       *)
LEMMA RowMoves ==
    ASSUME NEW Task, ServesEscrow(Task), EscrowInv(Task), NEW i \in OrderIds, NEW row \in Order,
           orders[i] \in Order, orders[i].status \in ActiveStatus,
           row.status \in {"escrowed", "paid", "disputed"},
           row.seller = orders[i].seller, row.currency = orders[i].currency,
           row.amount = orders[i].amount,
           row.buyer \in Users \ {row.seller},
           orders[i].status # "open" => row.buyer = orders[i].buyer,
           orders' = [orders EXCEPT ![i] = row],
           UNCHANGED <<accounts, posted, dust, off, escrowJournal>>,
           worker' \in [Workers -> {Idle} \cup Task],
           \A v \in Workers : worker'[v] = worker[v] \/ worker'[v] = Idle
    PROVE  EscrowMoves(Task)
<1>1. LedgerInv(Task)' /\ \A c \in Currencies : Own(c)' = Own(c)
  BY DEF EscrowInv, LedgerInv, LedgerTypeOK, LedgerOK, RowOK, Own, Held,
        DustIn
<1>2. /\ orders'[i] = row
      /\ \A j \in OrderIds : j # i => orders'[j] = orders[j]
      /\ EscrowRows'
  BY DEF EscrowInv, EscrowRows
<1>3. Parties'
  BY <1>2 DEF EscrowInv, Parties
<1>4. \A j \in OrderIds : RowKept(j)
  BY <1>2 DEF RowKept
<1>5. Snapshots'
  <2>1. \A v \in Workers : worker'[v] = worker[v] \/ Faithful(worker'[v], orders'[worker'[v].order])
    BY DEF Faithful, Idle, SnapshotOps
  <2> QED BY <1>4, <2>1, SnapshotsKept, EscrowParked DEF EscrowInv
<1>6. ClosedIffMoved'
  BY <1>2 DEF EscrowInv, ClosedIffMoved, FinalStatus, ActiveStatus
<1> QED
  BY <1>1, <1>2, <1>3, <1>5, <1>6 DEF EscrowMoves, EscrowInv

(* Writing a row's status keeps the rest of the row.                       *)
LEMMA StatusWritten ==
    ASSUME EscrowRows, NEW i \in OrderIds, orders[i] \in Order,
           NEW s \in ActiveStatus \cup FinalStatus,
           orders' = [orders EXCEPT ![i].status = s]
    PROVE  \E row \in Order :
             /\ orders' = [orders EXCEPT ![i] = row]
             /\ row.status = s
             /\ row.seller = orders[i].seller /\ row.buyer = orders[i].buyer
             /\ row.currency = orders[i].currency /\ row.amount = orders[i].amount
<1> DEFINE row == [orders[i] EXCEPT !.status = s]
<1>1. row \in Order /\ row.status = s
      /\ row.seller = orders[i].seller /\ row.buyer = orders[i].buyer
      /\ row.currency = orders[i].currency /\ row.amount = orders[i].amount
  BY DEF Order
<1>2. orders' = [orders EXCEPT ![i] = row]
  BY DEF EscrowRows
<1> HIDE DEF row
<1> QED BY <1>1, <1>2

(* accept writes the buyer, who is not the seller, and the status.         *)
LEMMA AcceptedRow ==
    ASSUME NEW Task, ServesEscrow(Task), EscrowInv(Task), NEW w \in Workers, CommitAccept(w)
    PROVE  LET i == worker[w].order
           IN  /\ i \in OrderIds /\ orders[i] \in Order /\ orders[i].status = "open"
               /\ \E row \in Order :
                    /\ orders' = [orders EXCEPT ![i] = row]
                    /\ row.status = "escrowed" /\ row.seller = orders[i].seller
                    /\ row.currency = orders[i].currency /\ row.amount = orders[i].amount
                    /\ row.buyer \in Users \ {row.seller}
<1> DEFINE i == worker[w].order
           u == worker[w].buyer
           row == [status |-> "escrowed", seller |-> orders[i].seller, buyer |-> u,
                   currency |-> orders[i].currency, amount |-> orders[i].amount]
           mid == [status |-> orders[i].status, seller |-> orders[i].seller, buyer |-> u,
                   currency |-> orders[i].currency, amount |-> orders[i].amount]
<1>1. i \in OrderIds /\ u \in Users
  BY EscrowParked DEF CommitAccept, EscrowInv
<1>2. orders[i] \in Order /\ orders[i].status = "open"
  BY <1>1, OpenedRow DEF CommitAccept, EscrowInv
<1>3. row \in Order
  BY <1>1, <1>2 DEF Order, ActiveStatus
<1>4. u # orders[i].seller
  BY DEF CommitAccept
<1>5. orders' = [orders EXCEPT ![i].buyer = u, ![i].status = "escrowed"]
  BY DEF CommitAccept
<1>6. orders' = [orders EXCEPT ![i] = row]
  <2> HIDE DEF i, u
  <2>1. [orders[i] EXCEPT !.buyer = u] = mid
    BY <1>2 DEF Order
  <2>2. [mid EXCEPT !.status = "escrowed"] = row
    OBVIOUS
  <2>3. orders' = [orders EXCEPT ![i] = [[orders[i] EXCEPT !.buyer = u]
                                           EXCEPT !.status = "escrowed"]]
    BY <1>1, <1>5 DEF EscrowInv, EscrowRows
  <2> HIDE DEF mid, row
  <2> QED BY <2>1, <2>2, <2>3
<1>7. /\ row.status = "escrowed" /\ row.seller = orders[i].seller
      /\ row.currency = orders[i].currency /\ row.amount = orders[i].amount
      /\ row.buyer = u
  OBVIOUS
<1> HIDE DEF row, u
<1> QED
  BY <1>1, <1>2, <1>3, <1>4, <1>6, <1>7

(* accept, paid and dispute.                                               *)
LEMMA GuardedMoves ==
    ASSUME NEW Task, ServesEscrow(Task), EscrowInv(Task), NEW w \in Workers
    PROVE  /\ CommitAccept(w) => EscrowMoves(Task)
           /\ \A i \in OrderIds : MarkPaid(w, i) \/ Dispute(w, i) => EscrowMoves(Task)
<1>1. worker \in [Workers -> {Idle} \cup Task]
  BY DEF EscrowInv, LedgerInv, LedgerTypeOK
<1>2. ASSUME CommitAccept(w) PROVE EscrowMoves(Task)
  <2> DEFINE i == worker[w].order
  <2>1. i \in OrderIds /\ orders[i] \in Order /\ orders[i].status = "open"
    BY <1>2, AcceptedRow
  <2>2. PICK row \in Order :
          /\ orders' = [orders EXCEPT ![i] = row]
          /\ row.status = "escrowed" /\ row.seller = orders[i].seller
          /\ row.currency = orders[i].currency /\ row.amount = orders[i].amount
          /\ row.buyer \in Users \ {row.seller}
    BY <1>2, AcceptedRow
  <2>3. /\ worker' \in [Workers -> {Idle} \cup Task]
        /\ \A v \in Workers : worker'[v] = worker[v] \/ worker'[v] = Idle
        /\ UNCHANGED <<accounts, posted, dust, off, escrowJournal>>
    BY <1>1, <1>2 DEF CommitAccept, Finish
  <2> HIDE DEF i
  <2> QED
    BY <2>1, <2>2, <2>3, RowMoves DEF ActiveStatus
<1>3. ASSUME NEW i \in OrderIds, NEW s \in {"paid", "disputed"},
             orders[i].status \in {"escrowed", "paid"},
             orders' = [orders EXCEPT ![i].status = s],
             UNCHANGED <<ledgerVars, escrowJournal>>
      PROVE  EscrowMoves(Task)
  <2>1. orders[i] \in Order
    BY <1>3, OpenedRow DEF EscrowInv
  <2>2. PICK row \in Order :
          /\ orders' = [orders EXCEPT ![i] = row]
          /\ row.status = s
          /\ row.seller = orders[i].seller /\ row.buyer = orders[i].buyer
          /\ row.currency = orders[i].currency /\ row.amount = orders[i].amount
    BY <1>3, <2>1, StatusWritten DEF EscrowInv, ActiveStatus
  <2>3. row.buyer \in Users \ {row.seller}
    BY <1>3, <2>2 DEF EscrowInv, Parties
  <2>4. worker' = worker /\ UNCHANGED <<accounts, posted, dust, off, escrowJournal>>
    BY <1>3 DEF ledgerVars
  <2> QED
    BY <1>1, <1>3, <2>1, <2>2, <2>3, <2>4, RowMoves DEF ActiveStatus
<1> QED
  BY <1>2, <1>3 DEF MarkPaid, Dispute

(* What closing an order does to the accounts.                             *)
LEMMA PartiesMoves ==
    ASSUME NEW Task, ServesEscrow(Task), EscrowInv(Task), NEW w \in Workers,
           worker[w].op \in SnapshotOps, dust' = dust,
           \/ worker[w].op \in PayoutOps /\ PayBuyer(worker[w])
           \/ RefundSeller(worker[w])
    PROVE  /\ Sound' /\ \A c \in Currencies : Own(c)' = Own(c)
           /\ escrowJournal' \in [OrderIds -> [payout : Nat, refund : Nat]]
           /\ \A j \in OrderIds : j # worker[w].order => escrowJournal'[j] = escrowJournal[j]
           /\ escrowJournal'[worker[w].order].payout
                + escrowJournal'[worker[w].order].refund > 0
<1> DEFINE t == worker[w]
           k == SellerKey(t.seen)
           b == BuyerKey(t.seen)
           a == t.seen.amount
<1>1. t.order \in OrderIds /\ t.seen \in Order /\ Sound
  BY EscrowParked DEF EscrowInv, LedgerInv, LedgerTypeOK, Sound
<1>2. k \in Keys /\ a \in Nat
  BY <1>1, StoredAmount DEF Order, SellerKey, Keys
<1>3. escrowJournal \in [OrderIds -> [payout : Nat, refund : Nat]]
  BY DEF EscrowInv, EscrowRows
<1>4. CASE t.op \in PayoutOps /\ PayBuyer(t)
  <2>1. t.seen.buyer \in Users \ {t.seen.seller}
    BY <1>4 DEF EscrowInv, Snapshots, Faithful, PayoutOps, SnapshotOps
  <2>2. b \in Keys /\ b # k /\ k[2] = b[2]
    BY <1>1, <2>1 DEF Order, SellerKey, BuyerKey, Keys
  <2>3. Pays(k, b, a)
    BY <1>4 DEF PayBuyer, Pays
  <2>4. Sound' /\ \A c \in Currencies : Own(c)' = Own(c)
    <3> HIDE DEF k, b, a
    <3> QED BY <1>1, <1>2, <2>2, <2>3, PaySound
  <2>5. escrowJournal' = [escrowJournal EXCEPT ![t.order].payout = @ + 1]
    BY <1>4 DEF PayBuyer
  <2> HIDE DEF t
  <2> QED BY <1>1, <1>3, <2>4, <2>5 DEF t
<1>5. CASE RefundSeller(t)
  <2>1. LedgerUnlock(k, a)
    BY <1>5 DEF RefundSeller
  <2>2. Sound' /\ \A c \in Currencies : Own(c)' = Own(c)
    <3> HIDE DEF k, a
    <3>1. Sound'
      BY <1>1, <1>2, <2>1, UnlockSound
    <3>2. \A q \in Keys : accounts'[q].balance = accounts[q].balance
      BY <1>1, <1>2, <2>1, UnlockMoves
    <3> QED BY <1>1, <3>1, <3>2, OwnSame
  <2>3. escrowJournal' = [escrowJournal EXCEPT ![t.order].refund = @ + 1]
    BY <1>5 DEF RefundSeller
  <2> QED BY <1>1, <1>3, <2>2, <2>3
<1> QED
  BY <1>4, <1>5

(* release, cancel and resolve close the row, however stale the snapshot   *)
(* they act on.                                                            *)
LEMMA CloseMoves ==
    ASSUME NEW Task, ServesEscrow(Task), EscrowInv(Task), NEW w \in Workers,
           NEW s \in FinalStatus, CloseOrder(w, s),
           worker[w].op \in SnapshotOps,
           \/ worker[w].op \in PayoutOps /\ PayBuyer(worker[w])
           \/ RefundSeller(worker[w])
    PROVE  EscrowMoves(Task)
<1> DEFINE i == worker[w].order
<1>1. /\ Sound' /\ \A c \in Currencies : Own(c)' = Own(c)
      /\ escrowJournal' \in [OrderIds -> [payout : Nat, refund : Nat]]
      /\ \A j \in OrderIds : j # i => escrowJournal'[j] = escrowJournal[j]
      /\ escrowJournal'[i].payout + escrowJournal'[i].refund > 0
  BY PartiesMoves DEF CloseOrder
<1>2. i \in OrderIds /\ orders[i] \in Order
  <2>1. Faithful(worker[w], orders[i])
    BY DEF EscrowInv, Snapshots
  <2> QED BY <2>1, EscrowParked DEF EscrowInv, Faithful
<1>3. PICK row \in Order :
        /\ orders' = [orders EXCEPT ![i] = row]
        /\ row.status = s
        /\ row.seller = orders[i].seller /\ row.buyer = orders[i].buyer
        /\ row.currency = orders[i].currency /\ row.amount = orders[i].amount
  BY <1>2, StatusWritten DEF EscrowInv, CloseOrder
<1>4. /\ orders'[i] = row
      /\ \A j \in OrderIds : j # i => orders'[j] = orders[j]
      /\ EscrowRows'
  BY <1>1, <1>2, <1>3 DEF EscrowInv, EscrowRows
<1>5. /\ worker' \in [Workers -> {Idle} \cup Task]
      /\ \A v \in Workers : worker'[v] = worker[v] \/ worker'[v] = Idle
      /\ UNCHANGED <<posted, dust, off>>
  BY DEF CloseOrder, Finish, EscrowInv, LedgerInv, LedgerTypeOK
<1>6. LedgerInv(Task)'
  BY <1>1, <1>5 DEF EscrowInv, LedgerInv, LedgerTypeOK, Sound
<1>7. s \notin ActiveStatus /\ s \notin {"escrowed", "paid", "disputed"} /\ s # "open"
  BY DEF FinalStatus, ActiveStatus
<1> HIDE DEF i
<1>8. Parties'
  BY <1>3, <1>4, <1>7 DEF EscrowInv, Parties
<1>9. \A j \in OrderIds : RowKept(j)
  BY <1>3, <1>4, <1>7 DEF RowKept
<1>10. Snapshots'
  <2>1. \A v \in Workers : worker'[v] = worker[v] \/ Faithful(worker'[v], orders'[worker'[v].order])
    BY <1>5 DEF Faithful, Idle, SnapshotOps
  <2> QED BY <1>9, <2>1, SnapshotsKept, EscrowParked DEF EscrowInv
<1>11. ClosedIffMoved'
  BY <1>1, <1>3, <1>4 DEF EscrowInv, ClosedIffMoved
<1> QED
  BY <1>1, <1>4, <1>5, <1>6, <1>8, <1>10, <1>11 DEF EscrowMoves, EscrowInv

(* Every step of the marketplace moves what EscrowMoves says.              *)
LEMMA EscrowStepMoves ==
    ASSUME NEW Task, ServesEscrow(Task), EscrowInv(Task), EscrowStep
    PROVE  EscrowMoves(Task)
<1>1. ASSUME NEW w \in Workers, CommitRelease(w) \/ CommitCancel(w) \/ CommitResolve(w)
      PROVE  EscrowMoves(Task)
  <2>1. ASSUME CommitRelease(w) PROVE EscrowMoves(Task)
    BY <2>1, CloseMoves DEF CommitRelease, FinalStatus, SnapshotOps, PayoutOps
  <2>2. ASSUME CommitCancel(w) PROVE EscrowMoves(Task)
    BY <2>2, CloseMoves DEF CommitCancel, FinalStatus, SnapshotOps, PayoutOps
  <2>3. ASSUME CommitResolve(w) PROVE EscrowMoves(Task)
    BY <2>3, CloseMoves DEF CommitResolve, FinalStatus, SnapshotOps, PayoutOps
  <2> QED BY <1>1, <2>1, <2>2, <2>3
<1> QED
  BY <1>1, ParkMoves, OpenMoves, GuardedMoves DEF EscrowStep

(* The ledger's own steps touch no order, and take no snapshot.            *)
LEMMA EscrowOthers ==
    ASSUME NEW Task, ServesEscrow(Task), EscrowInv(Task),
           UNCHANGED <<orders, escrowJournal>>, LedgerInv(Task)',
           \A v \in Workers : \/ worker'[v] = worker[v]
                              \/ worker'[v].op \notin SnapshotOps
    PROVE  EscrowInv(Task)'
<1>1. EscrowRows' /\ Parties' /\ ClosedIffMoved'
  BY DEF EscrowInv, EscrowRows, Parties, ClosedIffMoved
<1>2. \A j \in OrderIds : RowKept(j)
  BY DEF RowKept
<1>3. Snapshots'
  <2>1. \A v \in Workers : worker'[v] = worker[v] \/ Faithful(worker'[v], orders'[worker'[v].order])
    BY DEF Faithful
  <2> QED BY <1>2, <2>1, SnapshotsKept, EscrowParked DEF EscrowInv
<1> QED
  BY <1>1, <1>3 DEF EscrowInv

(***************************************************************************)
(* The marketplace on its own, with any number of requests in flight       *)
(***************************************************************************)

MarketTask == TransferTask \cup EscrowTask

(* The marketplace's own requests are told apart by their op.              *)
LEMMA MarketRequests == ServesEscrow(MarketTask)
BY DEF ServesEscrow, ServesTransfers, MarketTask, TransferTask, EscrowTask, SnapshotOps

MarketInv == EscrowInv(MarketTask) /\ EscrowValueConserved

(* No order is there at first.                                             *)
LEMMA EscrowStart ==
    ASSUME EscrowInit, NEW Task
    PROVE  EscrowInv(Task) /\ EscrowValueConserved
<1> USE LedgerAssumption, EscrowAssumption
<1>1. LedgerTypeOK(Task) /\ LedgerOK
  BY DEF EscrowInit, LedgerInit, LedgerTypeOK, LedgerOK, RowOK, Account
<1>2. EscrowRows /\ Parties /\ ClosedIffMoved
  BY DEF EscrowInit, EscrowRows, Parties, ClosedIffMoved, FinalStatus, NoOrder
<1>3. Snapshots
  BY DEF EscrowInit, LedgerInit, Snapshots, Faithful, Idle, SnapshotOps
<1>4. EscrowValueConserved
  <2>1. Sound /\ dust \in [Keys -> Nat]
    BY <1>1 DEF LedgerTypeOK, Sound
  <2>2. \A c \in Currencies : /\ Own(c) = Cardinality(Users) * Opening
                             /\ Held(c) \in Int /\ DustIn(c) \in Int
    BY <2>1, OwnInit, OwnType DEF EscrowInit
  <2> QED BY <2>2 DEF Own, EscrowValueConserved
<1> QED
  BY <1>1, <1>2, <1>3, <1>4 DEF EscrowInv, LedgerInv

(* As long as what the users own stays, value is conserved.                *)
LEMMA ValueKept ==
    ASSUME NEW Task, LedgerInv(Task), LedgerInv(Task)', EscrowValueConserved,
           \A c \in Currencies : Own(c)' = Own(c)
    PROVE  EscrowValueConserved'
<1>1. ASSUME NEW c \in Currencies
      PROVE  Held(c)' = Cardinality(Users) * Opening + DustIn(c)'
  <2>1. /\ Sound /\ dust \in [Keys -> Nat]
        /\ accounts' \in [Keys -> Account] /\ dust' \in [Keys -> Int]
    BY DEF LedgerInv, LedgerTypeOK, Sound
  <2>2. Balances(accounts') \in [Keys -> Int]
    BY <2>1, SoundBalances
  <2>3. /\ Held(c) \in Int /\ DustIn(c) \in Int
        /\ Held(c)' \in Int /\ DustIn(c)' \in Int
    BY <2>1, <2>2, OwnType, TotalType, HeldIsTotalNext
  <2>4. Held(c) = Cardinality(Users) * Opening + DustIn(c)
    BY DEF EscrowValueConserved
  <2>5. Cardinality(Users) * Opening \in Int
    BY LedgerAssumption, FS_CardinalityType
  <2> QED BY <2>3, <2>4, <2>5 DEF Own
<1> QED
  BY <1>1 DEF EscrowValueConserved

(* Every step of the marketplace or of the ledger keeps the invariant.     *)
LEMMA MarketStep == MarketInv /\ [EscrowNext]_escrowVars => MarketInv'
<1> SUFFICES ASSUME MarketInv, [EscrowNext]_escrowVars PROVE MarketInv'
  OBVIOUS
<1>1. EscrowInv(MarketTask) /\ ServesEscrow(MarketTask)
  BY MarketRequests DEF MarketInv
<1>2. SUFFICES EscrowInv(MarketTask)' /\ \A c \in Currencies : Own(c)' = Own(c)
  BY ValueKept DEF MarketInv, EscrowInv
<1>3. CASE EscrowStep
  BY <1>1, <1>3, EscrowStepMoves DEF EscrowMoves
<1>4. CASE LedgerNext /\ UNCHANGED <<orders, escrowJournal>>
  <2>1. /\ LedgerInv(MarketTask)' /\ \A c \in Currencies : Own(c)' = Own(c)
        /\ \A v \in Workers : worker'[v] = worker[v] \/ worker'[v] \in {Idle} \cup TransferTask
    BY <1>1, <1>4, LedgerStep DEF ServesEscrow, EscrowInv
  <2>2. \A v \in Workers : worker'[v] = worker[v] \/ worker'[v].op \notin SnapshotOps
    BY <2>1 DEF Idle, TransferTask, SnapshotOps
  <2> QED BY <1>1, <1>4, <2>1, <2>2, EscrowOthers
<1>5. CASE UNCHANGED escrowVars
  <2>1. LedgerInv(MarketTask)' /\ \A c \in Currencies : Own(c)' = Own(c)
    BY <1>1, <1>5
    DEF escrowVars, ledgerVars, EscrowInv, LedgerInv, LedgerTypeOK, LedgerOK, RowOK, Own, Held,
        DustIn
  <2> QED BY <1>1, <1>5, <2>1, EscrowOthers DEF escrowVars, ledgerVars
<1> QED
  BY <1>3, <1>4, <1>5 DEF EscrowNext

(* MarketInv is an invariant.                                              *)
LEMMA MarketAlways == EscrowSpec => []MarketInv
<1>1. EscrowInit => MarketInv
  BY EscrowStart DEF MarketInv
<1> QED BY <1>1, MarketStep, PTL DEF EscrowSpec

(* Every request, snapshot, order row and journal counter of the           *)
(* marketplace keeps its type (finance_p2p.go).                            *)
THEOREM EscrowTypeCorrect == EscrowSpec => []EscrowTypeOK
<1>1. MarketInv => EscrowTypeOK
  BY DEF MarketInv, EscrowInv, LedgerInv, EscrowRows, EscrowTypeOK, MarketTask
<1> QED BY <1>1, MarketAlways, PTL

(* However release, cancel and resolve race on one order, no account goes  *)
(* negative and none is left with more locked than it has: a second        *)
(* release pays again only what is still locked.                           *)
THEOREM EscrowLedgerOK == EscrowSpec => []LedgerOK
<1>1. MarketInv => LedgerOK
  BY DEF MarketInv, EscrowInv, LedgerInv
<1> QED BY <1>1, MarketAlways, PTL

(* However they race, they only ever move value between the users: each    *)
(* currency holds what its accounts were opened with, and the half units   *)
(* of transfers, whatever the resolution of the amounts requests name.     *)
THEOREM EscrowConserves == EscrowSpec => []EscrowValueConserved
<1>1. MarketInv => EscrowValueConserved
  BY DEF MarketInv
<1> QED BY <1>1, MarketAlways, PTL

(* An order is closed if and only if money moved for it, and no guarded    *)
(* UPDATE revives a closed order.                                          *)
THEOREM EscrowClosedIffMoved == EscrowSpec => []ClosedIffMoved
<1>1. MarketInv => ClosedIffMoved
  BY DEF MarketInv, EscrowInv
<1> QED BY <1>1, MarketAlways, PTL

(* A row that has the seller, buyer, currency and amount of another is     *)
(* that row but for its status.                                            *)
LEMMA OrderButStatus ==
    ASSUME NEW seen \in Order, NEW row \in Order,
           seen.seller = row.seller, seen.buyer = row.buyer,
           seen.currency = row.currency, seen.amount = row.amount
    PROVE  seen = [row EXCEPT !.status = seen.status]
BY DEF Order

(* A payout decided on a stale snapshot still goes from the order's seller *)
(* to the order's buyer, in the order's amount and currency                *)
(* (escrowTransition).                                                     *)
THEOREM SnapshotsNameTheParties == EscrowSpec => []SnapshotNamesTheParties
<1>1. ASSUME MarketInv, NEW w \in Workers, worker[w].op \in PayoutOps
      PROVE  /\ worker[w].seen.buyer \in Users \ {worker[w].seen.seller}
             /\ worker[w].seen =
                  [orders[worker[w].order] EXCEPT !.status = worker[w].seen.status]
  <2>1. Faithful(worker[w], orders[worker[w].order])
    BY <1>1 DEF MarketInv, EscrowInv, Snapshots
  <2>2. worker[w].op \in SnapshotOps
    BY <1>1 DEF PayoutOps, SnapshotOps
  <2>3. worker[w].seen \in Order
    BY <1>1, <2>2, EscrowParked, MarketRequests DEF MarketInv, EscrowInv
  <2> QED BY <1>1, <2>1, <2>2, <2>3, OrderButStatus DEF Faithful
<1>2. MarketInv => SnapshotNamesTheParties
  BY <1>1 DEF SnapshotNamesTheParties, PayoutOps
<1> QED BY <1>2, MarketAlways, PTL

(***************************************************************************)
(* The whole finance plane, with any number of requests in flight          *)
(***************************************************************************)

PlaneTask == TransferTask \cup WithdrawTask \cup EscrowTask

(* The requests of the plane are told apart by their op.                   *)
LEMMA PlaneRequests == ServesWithdrawals(PlaneTask) /\ ServesEscrow(PlaneTask)
BY DEF ServesWithdrawals, ServesEscrow, ServesTransfers, PlaneTask, TransferTask,
       WithdrawTask, EscrowTask, SnapshotOps

PlaneInv ==
    /\ WithdrawInv(PlaneTask)
    /\ EscrowInv(PlaneTask)
    /\ WithdrawValueConserved

(* A step of the pipeline leaves the orders alone, and a step of the       *)
(* marketplace the withdrawals.                                            *)
LEMMA PlaneMoves ==
    ASSUME PlaneInv
    PROVE  /\ WithdrawStep /\ UNCHANGED <<orders, escrowJournal>> =>
                Moves(PlaneTask) /\ EscrowInv(PlaneTask)'
           /\ EscrowStep /\ UNCHANGED <<withdrawals, withdrawJournal>> =>
                EscrowMoves(PlaneTask) /\ WithdrawInv(PlaneTask)'
           /\ LedgerNext /\ UNCHANGED <<withdrawals, withdrawJournal, orders, escrowJournal>> =>
                /\ WithdrawInv(PlaneTask)' /\ EscrowInv(PlaneTask)'
                /\ \A k \in Keys : accounts'[k].locked = accounts[k].locked
                /\ \A c \in Currencies : Own(c)' = Own(c)
                /\ \A v \in Workers : worker'[v] = worker[v]
                                      \/ worker'[v] \in {Idle} \cup TransferTask
<1>1. /\ ServesWithdrawals(PlaneTask) /\ ServesEscrow(PlaneTask)
      /\ WithdrawInv(PlaneTask) /\ EscrowInv(PlaneTask)
  BY PlaneRequests DEF PlaneInv
<1>2. ASSUME WithdrawStep, UNCHANGED <<orders, escrowJournal>>
      PROVE  Moves(PlaneTask) /\ EscrowInv(PlaneTask)'
  <2>1. Moves(PlaneTask)
    BY <1>1, <1>2, WithdrawMoves
  <2>2. \A v \in Workers : worker'[v] = worker[v] \/ worker'[v].op \notin SnapshotOps
    BY <2>1 DEF Moves, Idle, WithdrawTask, SnapshotOps
  <2>3. LedgerInv(PlaneTask)'
    BY <2>1 DEF Moves, WithdrawInv
  <2> QED BY <1>1, <1>2, <2>1, <2>2, <2>3, EscrowOthers
<1>3. ASSUME EscrowStep, UNCHANGED <<withdrawals, withdrawJournal>>
      PROVE  EscrowMoves(PlaneTask) /\ WithdrawInv(PlaneTask)'
  <2>1. EscrowMoves(PlaneTask)
    BY <1>1, <1>3, EscrowStepMoves
  <2> QED BY <1>1, <1>3, <2>1 DEF EscrowMoves, EscrowInv, WithdrawInv, WithdrawRows
<1>4. ASSUME LedgerNext, UNCHANGED <<withdrawals, withdrawJournal, orders, escrowJournal>>
      PROVE  /\ WithdrawInv(PlaneTask)' /\ EscrowInv(PlaneTask)'
             /\ \A k \in Keys : accounts'[k].locked = accounts[k].locked
             /\ \A c \in Currencies : Own(c)' = Own(c)
             /\ \A v \in Workers : worker'[v] = worker[v]
                                   \/ worker'[v] \in {Idle} \cup TransferTask
  <2>1. /\ LedgerInv(PlaneTask)'
        /\ \A k \in Keys : accounts'[k].locked = accounts[k].locked
        /\ \A c \in Currencies : Own(c)' = Own(c)
        /\ \A v \in Workers : worker'[v] = worker[v] \/ worker'[v] \in {Idle} \cup TransferTask
    BY <1>1, <1>4, LedgerStep DEF ServesEscrow, EscrowInv
  <2>2. \A v \in Workers : worker'[v] = worker[v] \/ worker'[v].op \notin SnapshotOps
    BY <2>1 DEF Idle, TransferTask, SnapshotOps
  <2>3. EscrowInv(PlaneTask)'
    BY <1>1, <1>4, <2>1, <2>2, EscrowOthers
  <2>4. WithdrawInv(PlaneTask)'
    BY <1>1, <1>4, <2>1 DEF WithdrawInv, WithdrawRows
  <2> QED BY <2>1, <2>3, <2>4
<1> QED
  BY <1>2, <1>3, <1>4

(* Where nobody is paid out, value stays where it is.                      *)
LEMMA PayoutsKept ==
    ASSUME NEW Task, WithdrawInv(Task), WithdrawInv(Task)', WithdrawValueConserved,
           UNCHANGED withdrawals, \A c \in Currencies : Own(c)' = Own(c)
    PROVE  WithdrawValueConserved'
<1>1. ASSUME NEW c \in Currencies PROVE ValueFollowsPayouts(c)
  <2>1. PaidOut(c)' = PaidOut(c)
    BY DEF PaidOut
  <2>2. /\ Own(c)' = Own(c) - 0
        /\ Sum(PaidOut(c), MaxWithdrawals)' = Sum(PaidOut(c), MaxWithdrawals) + 0
    BY <2>1, Numbers
  <2> QED BY <2>2 DEF ValueFollowsPayouts
<1> QED
  BY <1>1, ValueFollows

(* Every step of the plane keeps PlaneInv.                                 *)
LEMMA PlaneStep == PlaneInv /\ [PlaneNext]_planeVars => PlaneInv'
<1> SUFFICES ASSUME PlaneInv, [PlaneNext]_planeVars PROVE PlaneInv'
  OBVIOUS
<1>1. WithdrawInv(PlaneTask) /\ EscrowInv(PlaneTask) /\ WithdrawValueConserved
  BY DEF PlaneInv
<1>2. CASE WithdrawStep /\ UNCHANGED <<orders, escrowJournal>>
  <2>1. Moves(PlaneTask) /\ EscrowInv(PlaneTask)'
    BY <1>2, PlaneMoves
  <2>2. WithdrawValueConserved'
    BY <1>1, <2>1, ValueFollows DEF Moves
  <2> QED BY <2>1, <2>2 DEF PlaneInv, Moves
<1>3. CASE EscrowStep /\ UNCHANGED <<withdrawals, withdrawJournal>>
  <2>1. EscrowMoves(PlaneTask) /\ WithdrawInv(PlaneTask)'
    BY <1>3, PlaneMoves
  <2>2. WithdrawValueConserved'
    BY <1>1, <1>3, <2>1, PayoutsKept DEF EscrowMoves
  <2> QED BY <2>1, <2>2 DEF PlaneInv, EscrowMoves
<1>4. CASE LedgerNext /\ UNCHANGED <<withdrawals, withdrawJournal, orders, escrowJournal>>
  <2>1. /\ WithdrawInv(PlaneTask)' /\ EscrowInv(PlaneTask)'
        /\ \A c \in Currencies : Own(c)' = Own(c)
    BY <1>4, PlaneMoves
  <2> QED BY <1>1, <1>4, <2>1, PayoutsKept DEF PlaneInv
<1>5. CASE UNCHANGED planeVars
  <2>1. LedgerInv(PlaneTask)' /\ \A c \in Currencies : Own(c)' = Own(c)
    BY <1>1, <1>5
    DEF planeVars, ledgerVars, EscrowInv, LedgerInv, LedgerTypeOK, LedgerOK, RowOK, Own, Held,
        DustIn
  <2>2. EscrowInv(PlaneTask)'
    BY <1>1, <1>5, <2>1, EscrowOthers, PlaneRequests DEF planeVars, ledgerVars
  <2>3. WithdrawInv(PlaneTask)'
    BY <1>1, <1>5, <2>1 DEF planeVars, WithdrawInv, WithdrawRows
  <2>4. WithdrawValueConserved'
    BY <1>1, <1>5, <2>1, <2>3, PayoutsKept DEF planeVars
  <2> QED BY <2>2, <2>3, <2>4 DEF PlaneInv
<1> QED
  BY <1>2, <1>3, <1>4, <1>5 DEF PlaneNext

(* The plane starts in PlaneInv.                                           *)
LEMMA PlaneStart == PlaneInit => PlaneInv
<1> SUFFICES ASSUME PlaneInit PROVE PlaneInv
  OBVIOUS
<1>1. EscrowInv(PlaneTask)
  BY EscrowStart DEF PlaneInit
<1>2. WithdrawRows /\ WithdrawValueConserved
  BY PipelineInit DEF PlaneInit, PipelineInv, TypeInv, WithdrawInv
<1> QED
  BY <1>1, <1>2 DEF PlaneInv, WithdrawInv, EscrowInv

(* PlaneInv is an invariant, for any number of requests in flight.         *)
LEMMA PlaneAlways == PlaneSpec => []PlaneInv
<1> QED BY PlaneStart, PlaneStep, PTL DEF PlaneSpec

(* On one ledger shared by transfers, withdrawals and escrow orders, any   *)
(* number of them in flight: no account goes negative, and what the users  *)
(* hold plus what approved withdrawals took out is what the accounts were  *)
(* opened with and the half units of transfers.                            *)
THEOREM PlaneConserves == PlaneSpec => [](LedgerOK /\ WithdrawValueConserved)
<1>1. PlaneInv => LedgerOK /\ WithdrawValueConserved
  BY DEF PlaneInv, EscrowInv, LedgerInv
<1> QED BY <1>1, PlaneAlways, PTL

(***************************************************************************)
(* The whole finance plane, where no request acts on a stale snapshot      *)
(***************************************************************************)

(* The order that a release, a cancel or a resolve in flight has read is   *)
(* still the row: what FOR UPDATE would give if its lock lasted until the  *)
(* commit, and what one request at a time gives.                           *)
SeesCurrent ==
    \A w \in Workers : worker[w].op \in SnapshotOps =>
        worker[w].seen = orders[worker[w].order]

LockFollowsEscrow(k) ==
    \E d \in Int :
        /\ accounts'[k].locked = accounts[k].locked + d
        /\ Sum(EscrowHolds(k), MaxOrders)' = Sum(EscrowHolds(k), MaxOrders) + d

(* What a step of the marketplace is, seen from the accounts and from the  *)
(* promise.                                                                *)
KeepsPromise ==
    /\ \A k \in Keys : LockFollowsEscrow(k)
    /\ [Promise!Next]_(Promise!vars)

(* The rows, as the functions that Sum adds.                               *)
LEMMA HoldAmounts ==
    ASSUME EscrowRows, NEW k \in Keys
    PROVE  /\ EscrowHolds(k) \in [1 .. MaxOrders -> Int]
           /\ Sum(EscrowHolds(k), MaxOrders) \in Int
<1>1. \A i \in OrderIds : orders[i].status \in ActiveStatus => orders[i].amount \in Nat
  BY OpenedRow DEF ActiveStatus
<1>2. EscrowHolds(k) \in [1 .. MaxOrders -> Int]
  BY <1>1 DEF EscrowHolds, OrderIds
<1> QED
  BY <1>2, SumType, EscrowAssumption

(* A step that changes one row and one lock by the same amount.            *)
LEMMA LockAndHold ==
    ASSUME EscrowRows, EscrowRows', NEW i \in OrderIds,
           \A j \in OrderIds : j # i => orders'[j] = orders[j],
           NEW k \in Keys, NEW d \in Int,
           accounts'[k].locked = accounts[k].locked + d,
           EscrowHolds(k)'[i] = EscrowHolds(k)[i] + d
    PROVE  LockFollowsEscrow(k)
<1>1. EscrowHolds(k) \in [1 .. MaxOrders -> Int] /\ Sum(EscrowHolds(k), MaxOrders) \in Int
  BY HoldAmounts
<1>2. EscrowHolds(k)' \in [1 .. MaxOrders -> Int]
  <2>1. ASSUME NEW j \in OrderIds, orders'[j].status \in ActiveStatus
        PROVE  orders'[j].amount \in Nat
    <3>1. orders'[j] \in Order
      BY <2>1 DEF EscrowRows, NoOrder, ActiveStatus
    <3> QED BY <3>1, StoredAmount DEF Order
  <2> QED BY <2>1 DEF EscrowHolds, OrderIds
<1>3. \A j \in 1 .. MaxOrders : j # i => EscrowHolds(k)'[j] = EscrowHolds(k)[j]
  BY DEF EscrowHolds, Opened, SellerKey, OrderIds
<1>4. i \in 1 .. MaxOrders /\ MaxOrders \in Nat
  BY EscrowAssumption DEF OrderIds
<1>5. Sum(EscrowHolds(k)', MaxOrders) =
        Sum(EscrowHolds(k), MaxOrders) + EscrowHolds(k)'[i] - EscrowHolds(k)[i]
  BY <1>1, <1>2, <1>3, <1>4, SumUpdate
<1>6. EscrowHolds(k)[i] \in Int
  BY <1>1, <1>4
<1>7. Sum(EscrowHolds(k)', MaxOrders) = Sum(EscrowHolds(k), MaxOrders) + d
  BY <1>1, <1>5, <1>6
<1> QED
  BY <1>7 DEF LockFollowsEscrow

(* An order that stays active, with its seller, currency and amount, is    *)
(* the same deal.                                                          *)
SameDeal(j) ==
    \/ orders'[j] = orders[j]
    \/ /\ orders[j].status \in ActiveStatus /\ orders'[j].status \in ActiveStatus
       /\ orders'[j].seller = orders[j].seller
       /\ orders'[j].currency = orders[j].currency
       /\ orders'[j].amount = orders[j].amount

(* What the promise sees of the withdrawals stays while their rows do.     *)
LEMMA SetAsideKept ==
    ASSUME UNCHANGED withdrawals
    PROVE  [k \in Keys |-> Sum(SetAsideBy(k), MaxWithdrawals)]'
             = [k \in Keys |-> Sum(SetAsideBy(k), MaxWithdrawals)]
BY DEF SetAsideBy

(* And so does what it sees of the orders.                                 *)
LEMMA DealsKept ==
    ASSUME UNCHANGED <<orders, escrowJournal>>
    PROVE  [j \in OrderIds |-> DealOf(j)]' = [j \in OrderIds |-> DealOf(j)]
BY DEF DealOf, Opened, SellerKey

(* A step that moves no account and no deal is invisible to the promise.   *)
LEMMA Invisible ==
    ASSUME EscrowRows, Sound, UNCHANGED <<accounts, escrowJournal, withdrawals, dust>>,
           \A j \in OrderIds : SameDeal(j)
    PROVE  /\ \A k \in Keys : LockFollowsEscrow(k)
           /\ UNCHANGED Promise!vars
<1>1. \A j \in OrderIds : DealOf(j)' = DealOf(j)
  BY DEF SameDeal, DealOf, Opened, NoOrder, ActiveStatus, SellerKey
<1>2. UNCHANGED Promise!vars
  BY <1>1, SetAsideKept DEF Promise!vars, Available
<1>3. ASSUME NEW k \in Keys PROVE LockFollowsEscrow(k)
  <2>1. EscrowHolds(k)' = EscrowHolds(k)
    BY DEF SameDeal, EscrowHolds, Opened, NoOrder, ActiveStatus, SellerKey
  <2>2. Sum(EscrowHolds(k), MaxOrders) \in Int /\ accounts[k].locked \in Int
    BY HoldAmounts DEF Sound, Account
  <2>3. /\ accounts'[k].locked = accounts[k].locked + 0
        /\ Sum(EscrowHolds(k), MaxOrders)' = Sum(EscrowHolds(k), MaxOrders) + 0
    BY <2>1, <2>2
  <2> QED BY <2>3 DEF LockFollowsEscrow
<1> QED
  BY <1>2, <1>3

(* Parking a request, and reading an order with it.                        *)
LEMMA ParkKeepsPromise ==
    ASSUME EscrowRows, Sound, NEW w \in Workers, NEW task, Start(w, task),
           UNCHANGED withdrawals
    PROVE  KeepsPromise
<1>1. UNCHANGED <<accounts, dust, orders, escrowJournal>>
  BY DEF Start
<1>2. \A j \in OrderIds : SameDeal(j)
  BY <1>1 DEF SameDeal
<1> QED
  BY <1>1, <1>2, Invisible DEF KeepsPromise

(* open makes a deal: the promise's Hold.                                  *)
LEMMA OpenKeepsPromise ==
    ASSUME PlaneInv, NEW w \in Workers, NEW i \in OrderIds, CommitOpen(w, i),
           EscrowRows', UNCHANGED withdrawals
    PROVE  KeepsPromise
<1> DEFINE k == worker[w].key
           x == worker[w].amount
           a == ToColumn(x)
           row == [status |-> "open", seller |-> k[1], buyer |-> Nobody,
                   currency |-> k[2], amount |-> a]
<1>1. k \in Keys /\ x \in Nat /\ a \in StoredAmounts /\ a \in Nat
  BY EscrowParked, PlaneRequests, RowAmount DEF CommitOpen, PlaneInv, EscrowInv, StoredAmounts
<1>2. k = <<k[1], k[2]>>
  BY <1>1 DEF Keys
<1>3. Sound /\ EscrowRows
  BY DEF PlaneInv, EscrowInv, LedgerInv, LedgerTypeOK, Sound
<1>4. LedgerLock(k, x)
  BY DEF CommitOpen
<1>5. /\ orders[i] = NoOrder /\ orders' = [orders EXCEPT ![i] = row]
      /\ UNCHANGED <<escrowJournal, dust>>
  BY DEF CommitOpen
<1>7. /\ row.status = "open" /\ SellerKey(row) = k /\ row.amount = a
  BY <1>2 DEF SellerKey
<1>10. \A q \in Keys :
         /\ accounts'[q].locked = accounts[q].locked + (IF q = k THEN a ELSE 0)
         /\ accounts'[q].balance = accounts[q].balance
  <2> HIDE DEF k, x
  <2> QED BY <1>1, <1>3, <1>4, LockMoves
<1>6. Available(k) \in Nat /\ Available(k) >= a
  <2>1. accounts[k] \in Account /\ RowOK(accounts[k])
    BY <1>1, <1>3 DEF Sound, LedgerOK
  <2>2. Available(k) \in Nat /\ Parts * Available(k) >= x
    BY <1>4, <2>1 DEF Available, Account, RowOK, LedgerLock
  <2> HIDE DEF k, x
  <2> QED BY <1>1, <2>2, ColumnFits
<1> HIDE DEF k, x, a, row
<1>8. /\ orders'[i] = row
      /\ \A j \in OrderIds : j # i => orders'[j] = orders[j]
  BY <1>3, <1>5 DEF EscrowRows
<1>11. ASSUME NEW q \in Keys PROVE LockFollowsEscrow(q)
  <2> DEFINE d == IF q = k THEN a ELSE 0
  <2>1. d \in Int /\ accounts'[q].locked = accounts[q].locked + d
    BY <1>1, <1>10
  <2>2. EscrowHolds(q)[i] = 0 /\ EscrowHolds(q)'[i] = d
    BY <1>5, <1>7, <1>8 DEF EscrowHolds, Opened, NoOrder, ActiveStatus
  <2> HIDE DEF d
  <2>3. EscrowHolds(q)'[i] = EscrowHolds(q)[i] + d
    BY <2>1, <2>2
  <2> QED BY <1>3, <1>8, <2>1, <2>3, LockAndHold
<1>12. Promise!Hold(i, k, a)
  <2>1. \A q \in Keys : accounts[q].balance \in Int /\ accounts[q].locked \in Int
    BY <1>3 DEF Sound, Account
  <2>2. \A q \in Keys : Available(q)' = Available(q) - (IF q = k THEN a ELSE 0)
    BY <1>1, <1>10, <2>1 DEF Available
  <2>3. \A q \in Keys : Available(q) \in Int
    BY <2>1 DEF Available
  <2>4. [q \in Keys |-> Available(q)]' =
          [[q \in Keys |-> Available(q)] EXCEPT ![k] = @ - a]
    <3>1. \A q \in Keys : Available(q)' = IF q = k THEN Available(k) - a ELSE Available(q)
      BY <1>1, <2>2, <2>3
    <3> QED BY <1>1, <3>1
  <2>5. DealOf(i) = Promise!NoDeal
    BY <1>5 DEF DealOf, Opened, Promise!NoDeal
  <2>6. DealOf(i)' = [state |-> "held", seller |-> k, amount |-> a]
    BY <1>7, <1>8 DEF DealOf, Opened, NoOrder, ActiveStatus
  <2>7. \A j \in OrderIds : j # i => DealOf(j)' = DealOf(j)
    BY <1>5, <1>8 DEF DealOf, Opened, SellerKey
  <2>8. [j \in OrderIds |-> DealOf(j)]' =
          [[j \in OrderIds |-> DealOf(j)] EXCEPT ![i] =
             [state |-> "held", seller |-> k, amount |-> a]]
    BY <2>6, <2>7
  <2> QED BY <1>1, <1>5, <1>6, <2>4, <2>5, <2>8, SetAsideKept DEF Promise!Hold
<1>13. Promise!Next
  BY <1>1, <1>12 DEF Promise!Next, Keys
<1> QED
  BY <1>11, <1>13 DEF KeepsPromise

(* accept, paid and dispute, which touch no account.                       *)
LEMMA GuardedKeepsPromise ==
    ASSUME PlaneInv, NEW w \in Workers, UNCHANGED withdrawals
    PROVE  /\ CommitAccept(w) => KeepsPromise
           /\ \A i \in OrderIds : MarkPaid(w, i) \/ Dispute(w, i) => KeepsPromise
<1>1. /\ Sound /\ EscrowRows /\ worker \in [Workers -> {Idle} \cup PlaneTask]
      /\ EscrowInv(PlaneTask) /\ ServesEscrow(PlaneTask)
  BY PlaneRequests DEF PlaneInv, EscrowInv, LedgerInv, LedgerTypeOK, Sound
<1>2. ASSUME CommitAccept(w) PROVE KeepsPromise
  <2> DEFINE i == worker[w].order
  <2>1. i \in OrderIds /\ orders[i] \in Order /\ orders[i].status = "open"
    BY <1>1, <1>2, AcceptedRow
  <2>2. PICK row \in Order :
          /\ orders' = [orders EXCEPT ![i] = row]
          /\ row.status = "escrowed" /\ row.seller = orders[i].seller
          /\ row.currency = orders[i].currency /\ row.amount = orders[i].amount
    BY <1>1, <1>2, AcceptedRow
  <2>3. UNCHANGED <<accounts, dust, escrowJournal>>
    BY <1>2 DEF CommitAccept
  <2> HIDE DEF i
  <2>4. \A j \in OrderIds : SameDeal(j)
    BY <1>1, <2>1, <2>2 DEF SameDeal, EscrowRows, ActiveStatus
  <2> QED BY <1>1, <2>3, <2>4, Invisible DEF KeepsPromise
<1>3. ASSUME NEW i \in OrderIds, NEW s \in {"paid", "disputed"},
             orders[i].status \in {"escrowed", "paid"},
             orders' = [orders EXCEPT ![i].status = s],
             UNCHANGED <<ledgerVars, escrowJournal>>
      PROVE  KeepsPromise
  <2>1. orders[i] \in Order
    BY <1>1, <1>3, OpenedRow
  <2>2. PICK row \in Order :
          /\ orders' = [orders EXCEPT ![i] = row]
          /\ row.status = s
          /\ row.seller = orders[i].seller /\ row.buyer = orders[i].buyer
          /\ row.currency = orders[i].currency /\ row.amount = orders[i].amount
    BY <1>1, <1>3, <2>1, StatusWritten DEF ActiveStatus
  <2>3. \A j \in OrderIds : SameDeal(j)
    BY <1>1, <1>3, <2>2 DEF SameDeal, EscrowRows, ActiveStatus
  <2> QED BY <1>1, <1>3, <2>3, Invisible DEF KeepsPromise, ledgerVars
<1> QED
  BY <1>2, <1>3 DEF MarkPaid, Dispute

(* Closing order i, whose active row is o: the hold of o ends, and its     *)
(* deal goes where the journal says.                                       *)
Closes(i, o) ==
    /\ o = orders[i] /\ o \in Order /\ o.status \in ActiveStatus
    /\ \A q \in Keys :
         /\ EscrowHolds(q)[i] = (IF q = SellerKey(o) THEN o.amount ELSE 0)
         /\ EscrowHolds(q)'[i] = 0
    /\ \A j \in OrderIds : j # i => orders'[j] = orders[j] /\ DealOf(j)' = DealOf(j)
    /\ DealOf(i) = [state |-> "held", seller |-> SellerKey(o), amount |-> o.amount]
    /\ DealOf(i)' = [state |-> IF escrowJournal'[i].payout > 0 THEN "paid_out" ELSE "refunded",
                     seller |-> SellerKey(o), amount |-> o.amount]
    /\ escrowJournal[i].payout = 0

(* A worker whose snapshot is current closes the order it read.            *)
LEMMA ClosesCurrent ==
    ASSUME PlaneInv, SeesCurrent, NEW w \in Workers, NEW s \in FinalStatus,
           CloseOrder(w, s), worker[w].op \in SnapshotOps,
           NEW i, NEW o, i = worker[w].order, o = worker[w].seen,
           \A j \in OrderIds : j # i => escrowJournal'[j] = escrowJournal[j]
    PROVE  Closes(i, o)
<1>1. i \in OrderIds /\ o = orders[i] /\ o \in Order /\ o.status \in ActiveStatus
  BY EscrowParked, PlaneRequests DEF PlaneInv, EscrowInv, Snapshots, Faithful, SeesCurrent
<1>2. EscrowRows /\ ClosedIffMoved
  BY DEF PlaneInv, EscrowInv
<1>3. PICK row \in Order :
        /\ orders' = [orders EXCEPT ![i] = row]
        /\ row.status = s
        /\ row.seller = orders[i].seller /\ row.buyer = orders[i].buyer
        /\ row.currency = orders[i].currency /\ row.amount = orders[i].amount
  <2>1. orders' = [orders EXCEPT ![i].status = s] /\ s \in ActiveStatus \cup FinalStatus
    BY DEF CloseOrder
  <2>2. orders[i] \in Order
    BY <1>1
  <2> QED BY <1>1, <1>2, <2>1, <2>2, StatusWritten
<1>4. /\ orders'[i] = row
      /\ \A j \in OrderIds : j # i => orders'[j] = orders[j]
  BY <1>1, <1>2, <1>3 DEF EscrowRows
<1>5. /\ s \notin ActiveStatus /\ s # "none" /\ o.status \notin FinalStatus /\ o.status # "none"
  BY <1>1 DEF FinalStatus, ActiveStatus
<1>6. orders[i] # NoOrder /\ orders'[i] # NoOrder
  BY <1>1, <1>3, <1>4, <1>5 DEF NoOrder
<1>7. SellerKey(orders'[i]) = SellerKey(o) /\ orders'[i].amount = o.amount
  BY <1>1, <1>3, <1>4 DEF SellerKey
<1>8. ASSUME NEW q \in Keys
      PROVE  /\ EscrowHolds(q)[i] = (IF q = SellerKey(o) THEN o.amount ELSE 0)
             /\ EscrowHolds(q)'[i] = 0
  BY <1>1, <1>3, <1>4, <1>5, <1>6 DEF EscrowHolds, Opened
<1>9. ASSUME NEW j \in OrderIds, j # i
      PROVE  orders'[j] = orders[j] /\ DealOf(j)' = DealOf(j)
  <2>1. orders'[j] = orders[j] /\ escrowJournal'[j] = escrowJournal[j]
    BY <1>4, <1>9
  <2> QED BY <2>1 DEF DealOf, Opened, SellerKey
<1>10. /\ DealOf(i) = [state |-> "held", seller |-> SellerKey(o), amount |-> o.amount]
       /\ DealOf(i)' = [state |-> IF escrowJournal'[i].payout > 0 THEN "paid_out" ELSE "refunded",
                        seller |-> SellerKey(o), amount |-> o.amount]
  <2>1. o = orders[i] /\ orders'[i].status \notin ActiveStatus
    BY <1>1, <1>3, <1>4, <1>5
  <2>2. DealOf(i) = [state |-> "held", seller |-> SellerKey(o), amount |-> o.amount]
    BY <1>1, <1>6, <2>1 DEF DealOf, Opened
  <2>3. DealOf(i)' =
          [state |-> IF escrowJournal'[i].payout > 0 THEN "paid_out" ELSE "refunded",
           seller |-> SellerKey(orders[i])', amount |-> orders'[i].amount]
    BY <1>6, <2>1 DEF DealOf, Opened
  <2>4. SellerKey(orders[i])' = SellerKey(o)
    BY <1>7 DEF SellerKey
  <2> QED BY <1>7, <2>2, <2>3, <2>4
<1>11. escrowJournal[i].payout = 0
  <2>1. /\ escrowJournal[i].payout \in Nat /\ escrowJournal[i].refund \in Nat
        /\ ~ (escrowJournal[i].payout + escrowJournal[i].refund > 0)
    BY <1>1, <1>2, <1>5 DEF EscrowRows, ClosedIffMoved
  <2> QED BY <2>1
<1> QED
  BY <1>1, <1>8, <1>9, <1>10, <1>11 DEF Closes

(* release, and a dispute won by the buyer: the promise's PayOut.          *)
LEMMA PayKeepsPromise ==
    ASSUME PlaneInv, SeesCurrent, NEW w \in Workers, NEW s \in FinalStatus,
           CloseOrder(w, s), worker[w].op \in PayoutOps, PayBuyer(worker[w]), EscrowRows',
           UNCHANGED withdrawals,
           NEW i, NEW o, i = worker[w].order, o = worker[w].seen
    PROVE  KeepsPromise
<1> DEFINE k == SellerKey(o)
           b == BuyerKey(o)
           a == o.amount
<1>1. i \in OrderIds /\ o \in Order /\ Sound /\ EscrowRows /\ worker[w].op \in SnapshotOps
  BY EscrowParked, PlaneRequests
  DEF PlaneInv, EscrowInv, LedgerInv, LedgerTypeOK, Sound, PayoutOps, SnapshotOps
<1>2. o.buyer \in Users \ {o.seller}
  BY <1>1 DEF PlaneInv, EscrowInv, Snapshots, Faithful
<1>3. /\ k \in Keys /\ b \in Keys /\ b # k /\ a \in Nat
      /\ b = <<o.buyer, k[2]>> /\ o.buyer # k[1]
  BY <1>1, <1>2, StoredAmount DEF Order, SellerKey, BuyerKey, Keys
<1>4. Pays(k, b, a)
  BY DEF PayBuyer, Pays
<1>5. /\ escrowJournal \in [OrderIds -> [payout : Nat, refund : Nat]]
      /\ escrowJournal' = [escrowJournal EXCEPT ![i].payout = @ + 1]
  BY <1>1 DEF PayBuyer, EscrowRows
<1>6. /\ escrowJournal'[i].payout = escrowJournal[i].payout + 1
      /\ \A j \in OrderIds : j # i => escrowJournal'[j] = escrowJournal[j]
  <2> QED BY <1>1, <1>5
<1>7. Closes(i, o)
  BY <1>1, <1>6, ClosesCurrent
<1> HIDE DEF k, b, a
<1>10. \A q \in Keys :
         /\ accounts'[q].locked = accounts[q].locked - (IF q = k THEN a ELSE 0)
         /\ accounts'[q].balance = accounts[q].balance
              - (IF q = k THEN a ELSE 0) + (IF q = b THEN a ELSE 0)
  BY <1>1, <1>3, <1>4, PaySound
<1>11. \A q \in Keys : accounts[q].balance \in Int /\ accounts[q].locked \in Int
  BY <1>1 DEF Sound, Account
<1>12. ASSUME NEW q \in Keys PROVE LockFollowsEscrow(q)
  <2> DEFINE d == IF q = k THEN -a ELSE 0
  <2>1. d \in Int /\ accounts'[q].locked = accounts[q].locked + d
    BY <1>3, <1>10, <1>11
  <2>2. EscrowHolds(q)[i] = (IF q = k THEN a ELSE 0) /\ EscrowHolds(q)'[i] = 0
    BY <1>7 DEF Closes, k, a
  <2>3. EscrowHolds(q)'[i] = EscrowHolds(q)[i] + d
    BY <1>3, <2>2
  <2> HIDE DEF d
  <2>4. \A j \in OrderIds : j # i => orders'[j] = orders[j]
    BY <1>7 DEF Closes
  <2> QED BY <1>1, <2>1, <2>3, <2>4, LockAndHold
<1>13. Promise!PayOut(i, o.buyer)
  <2>1. \A q \in Keys : Available(q)' = IF q = b THEN Available(b) + a ELSE Available(q)
    BY <1>3, <1>10, <1>11 DEF Available
  <2>2. [q \in Keys |-> Available(q)]' = [[q \in Keys |-> Available(q)] EXCEPT ![b] = @ + a]
    BY <1>3, <2>1
  <2>3. DealOf(i) = [state |-> "held", seller |-> k, amount |-> a]
    BY <1>7 DEF Closes, k, a
  <2>4. DealOf(i)' = [state |-> "paid_out", seller |-> k, amount |-> a]
    BY <1>6, <1>7 DEF Closes, k, a
  <2>5. \A j \in OrderIds : j # i => DealOf(j)' = DealOf(j)
    BY <1>7 DEF Closes
  <2>6. [j \in OrderIds |-> DealOf(j)]' =
          [[j \in OrderIds |-> DealOf(j)] EXCEPT ![i].state = "paid_out"]
    <3>1. [DealOf(i) EXCEPT !.state = "paid_out"] = DealOf(i)'
      BY <2>3, <2>4
    <3> QED BY <1>1, <2>5, <3>1
  <2>7. /\ [j \in OrderIds |-> DealOf(j)][i].state = "held"
        /\ [j \in OrderIds |-> DealOf(j)][i].seller = k
        /\ [j \in OrderIds |-> DealOf(j)][i].amount = a
    BY <1>1, <2>3
  <2>8. dust' = dust
    BY DEF CloseOrder
  <2> QED BY <1>1, <1>3, <2>2, <2>6, <2>7, <2>8, SetAsideKept DEF Promise!PayOut, Promise!Finish
<1>14. Promise!Next
  BY <1>1, <1>2, <1>13 DEF Promise!Next
<1> QED
  BY <1>12, <1>14 DEF KeepsPromise

(* cancel, and a dispute won by the seller: the promise's Refund.          *)
LEMMA RefundKeepsPromise ==
    ASSUME PlaneInv, SeesCurrent, NEW w \in Workers, NEW s \in FinalStatus,
           CloseOrder(w, s), worker[w].op \in SnapshotOps, RefundSeller(worker[w]), EscrowRows',
           UNCHANGED withdrawals,
           NEW i, NEW o, i = worker[w].order, o = worker[w].seen
    PROVE  KeepsPromise
<1> DEFINE k == SellerKey(o)
           a == o.amount
<1>1. i \in OrderIds /\ o \in Order /\ Sound /\ EscrowRows
  BY EscrowParked, PlaneRequests DEF PlaneInv, EscrowInv, LedgerInv, LedgerTypeOK, Sound
<1>2. k \in Keys /\ a \in Nat
  BY <1>1, StoredAmount DEF Order, SellerKey, Keys
<1>3. LedgerUnlock(k, a)
  BY DEF RefundSeller
<1>4. /\ escrowJournal \in [OrderIds -> [payout : Nat, refund : Nat]]
      /\ escrowJournal' = [escrowJournal EXCEPT ![i].refund = @ + 1]
  BY <1>1 DEF RefundSeller, EscrowRows
<1>5. /\ escrowJournal'[i].payout = escrowJournal[i].payout
      /\ \A j \in OrderIds : j # i => escrowJournal'[j] = escrowJournal[j]
  <2> QED BY <1>1, <1>4
<1>6. Closes(i, o)
  BY <1>1, <1>5, ClosesCurrent
<1> HIDE DEF k, a
<1>9. \A q \in Keys :
        /\ accounts'[q].locked = accounts[q].locked - (IF q = k THEN a ELSE 0)
        /\ accounts'[q].balance = accounts[q].balance
  BY <1>1, <1>2, <1>3, UnlockMoves
<1>10. \A q \in Keys : accounts[q].balance \in Int /\ accounts[q].locked \in Int
  BY <1>1 DEF Sound, Account
<1>11. ASSUME NEW q \in Keys PROVE LockFollowsEscrow(q)
  <2> DEFINE d == IF q = k THEN -a ELSE 0
  <2>1. d \in Int /\ accounts'[q].locked = accounts[q].locked + d
    BY <1>2, <1>9, <1>10
  <2>2. EscrowHolds(q)[i] = (IF q = k THEN a ELSE 0) /\ EscrowHolds(q)'[i] = 0
    BY <1>6 DEF Closes, k, a
  <2>3. EscrowHolds(q)'[i] = EscrowHolds(q)[i] + d
    BY <1>2, <2>2
  <2> HIDE DEF d
  <2>4. \A j \in OrderIds : j # i => orders'[j] = orders[j]
    BY <1>6 DEF Closes
  <2> QED BY <1>1, <2>1, <2>3, <2>4, LockAndHold
<1>12. Promise!Refund(i)
  <2>1. \A q \in Keys : Available(q)' = IF q = k THEN Available(k) + a ELSE Available(q)
    BY <1>2, <1>9, <1>10 DEF Available
  <2>2. [q \in Keys |-> Available(q)]' = [[q \in Keys |-> Available(q)] EXCEPT ![k] = @ + a]
    BY <1>2, <2>1
  <2>3. DealOf(i) = [state |-> "held", seller |-> k, amount |-> a]
    BY <1>6 DEF Closes, k, a
  <2>4. DealOf(i)' = [state |-> "refunded", seller |-> k, amount |-> a]
    BY <1>5, <1>6 DEF Closes, k, a
  <2>5. \A j \in OrderIds : j # i => DealOf(j)' = DealOf(j)
    BY <1>6 DEF Closes
  <2>6. [j \in OrderIds |-> DealOf(j)]' =
          [[j \in OrderIds |-> DealOf(j)] EXCEPT ![i].state = "refunded"]
    <3>1. [DealOf(i) EXCEPT !.state = "refunded"] = DealOf(i)'
      BY <2>3, <2>4
    <3> QED BY <1>1, <2>5, <3>1
  <2>7. /\ [j \in OrderIds |-> DealOf(j)][i].state = "held"
        /\ [j \in OrderIds |-> DealOf(j)][i].seller = k
        /\ [j \in OrderIds |-> DealOf(j)][i].amount = a
    BY <1>1, <2>3
  <2>8. dust' = dust
    BY DEF CloseOrder
  <2> QED BY <1>1, <1>2, <2>2, <2>6, <2>7, <2>8, SetAsideKept DEF Promise!Refund, Promise!Finish
<1>13. Promise!Next
  BY <1>1, <1>12 DEF Promise!Next
<1> QED
  BY <1>11, <1>13 DEF KeepsPromise

(* Where no snapshot is stale, every step of the marketplace is a          *)
(* step of the promise or is invisible to it, and moves the lock of each   *)
(* account as it moves the holds on it.                                    *)
LEMMA MarketKeepsPromise ==
    ASSUME PlaneInv, SeesCurrent, EscrowStep, EscrowRows', UNCHANGED withdrawals
    PROVE  KeepsPromise
<1>1. Sound /\ EscrowRows
  BY DEF PlaneInv, EscrowInv, LedgerInv, LedgerTypeOK, Sound
<1>2. ASSUME NEW w \in Workers, NEW task, Start(w, task) PROVE KeepsPromise
  BY <1>1, <1>2, ParkKeepsPromise
<1>3. ASSUME NEW w \in Workers,
             \/ \E k \in Keys, a \in Amounts : BeginOpen(w, k, a)
             \/ \E i \in OrderIds :
                  \/ \E u \in Users : BeginAccept(w, i, u)
                  \/ ReadRelease(w, i) \/ ReadCancel(w, i)
                  \/ \E winner \in {"buyer", "seller"} : ReadResolve(w, i, winner)
      PROVE  KeepsPromise
  BY <1>2, <1>3 DEF BeginOpen, BeginAccept, ReadRelease, ReadCancel, ReadResolve, ReadOrder
<1>6. ASSUME NEW w \in Workers, CommitRelease(w) \/ CommitCancel(w) \/ CommitResolve(w)
      PROVE  KeepsPromise
  <2>1. PICK s \in FinalStatus :
          /\ CloseOrder(w, s)
          /\ \/ worker[w].op \in PayoutOps /\ PayBuyer(worker[w])
             \/ worker[w].op \in SnapshotOps /\ RefundSeller(worker[w])
    BY <1>6 DEF CommitRelease, CommitCancel, CommitResolve, FinalStatus, PayoutOps, SnapshotOps
  <2>2. PICK i, o : i = worker[w].order /\ o = worker[w].seen
    OBVIOUS
  <2> QED BY <2>1, <2>2, PayKeepsPromise, RefundKeepsPromise
<1> QED
  BY <1>3, <1>6, OpenKeepsPromise, GuardedKeepsPromise DEF EscrowStep

(* What withdrawals set aside, as the functions that Sum adds.             *)
LEMMA SetAsideAmounts ==
    ASSUME WithdrawRows, NEW k \in Keys
    PROVE  /\ SetAsideBy(k) \in [1 .. MaxWithdrawals -> Nat]
           /\ Sum(SetAsideBy(k), MaxWithdrawals) \in Int
<1>1. \A i \in WithdrawalIds : withdrawals[i].status # "none" => withdrawals[i].amount \in Nat
  BY RecordedRow
<1>2. SetAsideBy(k) \in [1 .. MaxWithdrawals -> Nat]
  BY <1>1 DEF SetAsideBy, WithdrawalIds
<1>3. SetAsideBy(k) \in [1 .. MaxWithdrawals -> Int]
  BY <1>2
<1> QED
  BY <1>2, <1>3, SumType, WithdrawAssumption

(* A step that changes one row changes what its account has set aside by   *)
(* the change of that row.                                                 *)
LEMMA SetAsideUpdate ==
    ASSUME WithdrawRows, WithdrawRows', NEW i \in WithdrawalIds,
           \A j \in WithdrawalIds : j # i => withdrawals'[j] = withdrawals[j],
           NEW k \in Keys, NEW d \in Int,
           \A q \in Keys : SetAsideBy(q)'[i] = SetAsideBy(q)[i] + (IF q = k THEN d ELSE 0)
    PROVE  [q \in Keys |-> Sum(SetAsideBy(q), MaxWithdrawals)]'
             = [[q \in Keys |-> Sum(SetAsideBy(q), MaxWithdrawals)] EXCEPT ![k] = @ + d]
<1>1. ASSUME NEW q \in Keys
      PROVE  Sum(SetAsideBy(q)', MaxWithdrawals) =
               IF q = k THEN Sum(SetAsideBy(q), MaxWithdrawals) + d
                        ELSE Sum(SetAsideBy(q), MaxWithdrawals)
  <2>1. SetAsideBy(q) \in [1 .. MaxWithdrawals -> Nat] /\ Sum(SetAsideBy(q), MaxWithdrawals) \in Int
    BY SetAsideAmounts
  <2>2. SetAsideBy(q)' \in [1 .. MaxWithdrawals -> Int]
    <3>1. ASSUME NEW j \in WithdrawalIds, withdrawals'[j].status # "none"
          PROVE  withdrawals'[j].amount \in Nat
      <4>1. withdrawals'[j] \in Withdrawal
        BY <3>1 DEF WithdrawRows, NoWithdrawal
      <4> QED
        BY <4>1, StoredAmount DEF Withdrawal
    <3> QED BY <3>1 DEF SetAsideBy, WithdrawalIds
  <2>3. \A j \in 1 .. MaxWithdrawals : j # i => SetAsideBy(q)'[j] = SetAsideBy(q)[j]
    BY DEF SetAsideBy, WithdrawalIds
  <2>4. i \in 1 .. MaxWithdrawals /\ MaxWithdrawals \in Nat
    BY WithdrawAssumption DEF WithdrawalIds
  <2>5. SetAsideBy(q) \in [1 .. MaxWithdrawals -> Int]
    BY <2>1
  <2>6. Sum(SetAsideBy(q)', MaxWithdrawals) =
          Sum(SetAsideBy(q), MaxWithdrawals) + SetAsideBy(q)'[i] - SetAsideBy(q)[i]
    BY <2>2, <2>3, <2>4, <2>5, SumUpdate
  <2>7. SetAsideBy(q)[i] \in Int
    BY <2>1, <2>4
  <2>8. SetAsideBy(q)'[i] = SetAsideBy(q)[i] + (IF q = k THEN d ELSE 0)
    OBVIOUS
  <2>9. CASE q = k
    BY <2>1, <2>6, <2>7, <2>8, <2>9
  <2>10. CASE q # k
    BY <2>1, <2>6, <2>7, <2>8, <2>10
  <2> QED BY <2>9, <2>10
<1> QED
  BY <1>1

(* A new withdrawal: the promise's SetAside.                               *)
LEMMA RequestKeepsPromise ==
    ASSUME PlaneInv, WithdrawRows', NEW w \in Workers, NEW i \in WithdrawalIds,
           CommitWithdraw(w, i), UNCHANGED <<orders, escrowJournal>>
    PROVE  Promise!Next
<1> DEFINE k == worker[w].key
           x == worker[w].amount
           a == ToColumn(x)
<1>1. k \in Keys /\ x \in Nat /\ a \in StoredAmounts /\ a \in Nat
  BY ParkedTask, PlaneRequests, RowAmount
  DEF CommitWithdraw, PlaneInv, WithdrawInv, StoredAmounts
<1>2. Sound /\ WithdrawRows
  BY Numbers DEF PlaneInv, WithdrawInv
<1>3. LedgerLock(k, x) /\ dust' = dust
  BY DEF CommitWithdraw
<1>4. /\ withdrawals'[i].key = k /\ withdrawals'[i].amount = a
      /\ withdrawals'[i].status \in {"queued", "auto_approved"}
      /\ \A j \in WithdrawalIds : j # i => withdrawals'[j] = withdrawals[j]
      /\ withdrawals[i].status = "none"
  BY <1>2 DEF CommitWithdraw, WithdrawRows, Recorded
<1>5. \A q \in Keys : /\ accounts'[q].locked = accounts[q].locked + (IF q = k THEN a ELSE 0)
                      /\ accounts'[q].balance = accounts[q].balance
  <2> HIDE DEF k, x
  <2> QED BY <1>1, <1>2, <1>3, LockMoves
<1>6. Available(k) \in Nat /\ Available(k) >= a
  <2>1. accounts[k] \in Account /\ RowOK(accounts[k])
    BY <1>1, <1>2 DEF Sound, LedgerOK
  <2>2. Available(k) \in Nat /\ Parts * Available(k) >= x
    BY <1>3, <2>1 DEF Available, Account, RowOK, LedgerLock
  <2> HIDE DEF k, x
  <2> QED BY <1>1, <2>2, ColumnFits
<1> HIDE DEF k, x, a
<1>7. [q \in Keys |-> Available(q)]' = [[q \in Keys |-> Available(q)] EXCEPT ![k] = @ - a]
  <2>1. \A q \in Keys : accounts[q].balance \in Int /\ accounts[q].locked \in Int
    BY <1>2 DEF Sound, Account
  <2>2. \A q \in Keys : Available(q)' = IF q = k THEN Available(k) - a ELSE Available(q)
    BY <1>1, <1>5, <2>1 DEF Available
  <2> QED BY <1>1, <2>2
<1>8. [q \in Keys |-> Sum(SetAsideBy(q), MaxWithdrawals)]'
        = [[q \in Keys |-> Sum(SetAsideBy(q), MaxWithdrawals)] EXCEPT ![k] = @ + a]
  <2>1. \A q \in Keys : SetAsideBy(q)'[i] = SetAsideBy(q)[i] + (IF q = k THEN a ELSE 0)
    BY <1>1, <1>4 DEF SetAsideBy
  <2>2. a \in Int
    BY <1>1
  <2> QED BY <1>1, <1>2, <1>4, <2>1, <2>2, SetAsideUpdate
<1>9. Promise!SetAside(k, a)
  BY <1>1, <1>3, <1>6, <1>7, <1>8, DealsKept DEF Promise!SetAside
<1> QED
  BY <1>1, <1>9 DEF Promise!Next, Keys

(* A rejection: the promise's GiveBack.                                    *)
LEMMA RejectKeepsPromise ==
    ASSUME PlaneInv, WithdrawRows', NEW w \in Workers, NEW i \in WithdrawalIds,
           RejectWithdrawal(w, i), UNCHANGED <<orders, escrowJournal>>
    PROVE  Promise!Next
<1> DEFINE k == withdrawals[i].key
           a == withdrawals[i].amount
<1>1. withdrawals[i] \in Withdrawal /\ k \in Keys /\ a \in StoredAmounts /\ a \in Nat
  BY RecordedRow DEF RejectWithdrawal, PlaneInv, WithdrawInv, Withdrawal
<1>2. Sound /\ WithdrawRows
  BY Numbers DEF PlaneInv, WithdrawInv
<1>3. LedgerUnlock(k, a) /\ dust' = dust
  BY DEF RejectWithdrawal
<1>4. /\ withdrawals'[i].status = "rejected" /\ withdrawals[i].status = "queued"
      /\ \A j \in WithdrawalIds : j # i => withdrawals'[j] = withdrawals[j]
  BY <1>1, <1>2 DEF RejectWithdrawal, WithdrawRows, Withdrawal
<1>5. SetAsideBy(k)[i] = a
  BY <1>4 DEF SetAsideBy
<1>6. \A q \in Keys : SetAsideBy(q)'[i] = SetAsideBy(q)[i] + (IF q = k THEN -a ELSE 0)
  BY <1>1, <1>4 DEF SetAsideBy
<1> HIDE DEF k, a
<1>7. \A q \in Keys : /\ accounts'[q].locked = accounts[q].locked - (IF q = k THEN a ELSE 0)
                      /\ accounts'[q].balance = accounts[q].balance
  BY <1>1, <1>2, <1>3, UnlockMoves
<1>8. [q \in Keys |-> Available(q)]' = [[q \in Keys |-> Available(q)] EXCEPT ![k] = @ + a]
  <2>1. \A q \in Keys : accounts[q].balance \in Int /\ accounts[q].locked \in Int
    BY <1>2 DEF Sound, Account
  <2>2. \A q \in Keys : Available(q)' = IF q = k THEN Available(k) + a ELSE Available(q)
    BY <1>1, <1>7, <2>1 DEF Available
  <2> QED BY <1>1, <2>2
<1>9. [q \in Keys |-> Sum(SetAsideBy(q), MaxWithdrawals)]'
        = [[q \in Keys |-> Sum(SetAsideBy(q), MaxWithdrawals)] EXCEPT ![k] = @ - a]
  <2>1. -a \in Int
    BY <1>1
  <2>2. [q \in Keys |-> Sum(SetAsideBy(q), MaxWithdrawals)]'
          = [[q \in Keys |-> Sum(SetAsideBy(q), MaxWithdrawals)] EXCEPT ![k] = @ + -a]
    BY <1>1, <1>2, <1>4, <1>6, <2>1, SetAsideUpdate
  <2>3. Sum(SetAsideBy(k), MaxWithdrawals) + -a = Sum(SetAsideBy(k), MaxWithdrawals) - a
    BY <1>1, <1>2, SetAsideAmounts
  <2> QED BY <1>1, <2>2, <2>3
<1>10. Sum(SetAsideBy(k), MaxWithdrawals) >= a
  <2>1. i \in 1 .. MaxWithdrawals /\ MaxWithdrawals \in Nat
    BY WithdrawAssumption DEF WithdrawalIds
  <2>2. SetAsideBy(k) \in [1 .. MaxWithdrawals -> Nat] /\ Sum(SetAsideBy(k), MaxWithdrawals) \in Int
    BY <1>1, <1>2, SetAsideAmounts
  <2> QED BY <1>1, <1>5, <2>1, <2>2, SumCovers
<1>11. Promise!GiveBack(k, a)
  BY <1>1, <1>3, <1>8, <1>9, <1>10, DealsKept DEF Promise!GiveBack
<1> QED
  BY <1>1, <1>11 DEF Promise!Next, Keys

(* An approval takes what was set aside: the promise sees nothing.         *)
LEMMA ApproveKeepsPromise ==
    ASSUME PlaneInv, NEW w \in Workers, NEW i \in WithdrawalIds,
           ApproveWithdrawal(w, i), UNCHANGED <<orders, escrowJournal>>
    PROVE  UNCHANGED Promise!vars
<1> DEFINE k == withdrawals[i].key
           a == withdrawals[i].amount
<1>1. withdrawals[i] \in Withdrawal /\ k \in Keys /\ a \in Nat
  BY RecordedRow DEF ApproveWithdrawal, PlaneInv, WithdrawInv
<1>2. Sound /\ WithdrawRows
  BY Numbers DEF PlaneInv, WithdrawInv
<1>3. LedgerSettleLocked(k, a) /\ dust' = dust
  BY DEF ApproveWithdrawal
<1>4. \A q \in Keys : SetAsideBy(q)' = SetAsideBy(q)
  <2>1. /\ withdrawals'[i].status = "approved" /\ withdrawals[i].status = "queued"
        /\ withdrawals'[i].key = k /\ withdrawals'[i].amount = a
        /\ \A j \in WithdrawalIds : j # i => withdrawals'[j] = withdrawals[j]
    BY <1>1, <1>2 DEF ApproveWithdrawal, WithdrawRows, Withdrawal
  <2> QED BY <2>1 DEF SetAsideBy
<1> HIDE DEF k, a
<1>5. \A q \in Keys : Available(q)' = Available(q)
  <2>1. \A q \in Keys :
          /\ accounts'[q].locked = accounts[q].locked - (IF q = k THEN a ELSE 0)
          /\ accounts'[q].balance = accounts[q].balance - (IF q = k THEN a ELSE 0)
    BY <1>1, <1>2, <1>3, SettleMoves
  <2>2. \A q \in Keys : accounts[q].balance \in Int /\ accounts[q].locked \in Int
    BY <1>2 DEF Sound, Account
  <2> QED BY <1>1, <2>1, <2>2 DEF Available
<1> QED
  BY <1>3, <1>4, <1>5, DealsKept DEF Promise!vars

(* The withdrawal pipeline sets aside, gives back, or moves nothing that   *)
(* the promise sees.                                                       *)
LEMMA PipelineKeepsPromise ==
    ASSUME PlaneInv, WithdrawRows', WithdrawStep, UNCHANGED <<orders, escrowJournal>>
    PROVE  [Promise!Next]_(Promise!vars)
<1>1. ASSUME NEW w \in Workers, NEW k, NEW a, NEW text, NEW usd, NEW risk,
             BeginWithdraw(w, k, a, text, usd, risk)
      PROVE  UNCHANGED Promise!vars
  <2>1. UNCHANGED <<accounts, dust, withdrawals>>
    BY <1>1 DEF BeginWithdraw
  <2> QED BY <2>1, SetAsideKept, DealsKept DEF Promise!vars, Available
<1> QED
  BY <1>1, RequestKeepsPromise, RejectKeepsPromise, ApproveKeepsPromise DEF WithdrawStep

(* A transfer between two users: the promise's Transfer.                   *)
LEMMA TransferKeepsPromise ==
    ASSUME PlaneInv, NEW w \in Workers, CommitTransfer(w),
           UNCHANGED <<withdrawals, orders, escrowJournal>>
    PROVE  Promise!Next
<1> DEFINE t == worker[w]
           f == <<t.from, t.currency>>
           g == <<t.to, t.currency>>
           debit == [key |-> f, amount |-> t.amount]
           credit == [key |-> g, amount |-> t.amount]
           d == ToColumn(t.amount)
           h == HalfUnit(t.amount)
<1>1. t \in TransferTask
  BY PlaneRequests
  DEF PlaneInv, EscrowInv, LedgerInv, LedgerTypeOK, ServesEscrow, ServesTransfers,
      CommitTransfer, Idle
<1>2. /\ t.from \in Users /\ t.to \in Users /\ t.currency \in Currencies
      /\ t.amount \in Nat /\ t.from # t.to
  BY <1>1, LedgerAssumption DEF TransferTask
<1>3. /\ debit \in [key : Keys, amount : Nat] /\ credit \in [key : Keys, amount : Nat]
      /\ f \in Keys /\ g \in Keys /\ f # g
  BY <1>2 DEF Keys
<1>4. Sound /\ LedgerPost(debit, credit)
  BY DEF PlaneInv, EscrowInv, LedgerInv, LedgerTypeOK, Sound, CommitTransfer
<1>5. d \in Nat /\ h \in {0, 1} /\ h <= d
  BY <1>2, RowAmount, HalfUnitUp
<1>6. \A q \in Keys :
        /\ accounts'[q].locked = accounts[q].locked
        /\ accounts'[q].balance = accounts[q].balance
             - (IF q = f THEN d - h ELSE 0) + (IF q = g THEN d ELSE 0)
  <2>1. debit.key = f /\ debit.amount = t.amount /\ credit.key = g /\ credit.amount = t.amount
    OBVIOUS
  <2> HIDE DEF debit, credit, f, g
  <2> QED BY <1>3, <1>4, <2>1, PostBalances
<1>7. dust' = [dust EXCEPT ![f] = @ + h]
  BY DEF CommitTransfer, LedgerPost, Entered
<1>8. RowOK(PostDebited(debit)[f])
  BY <1>3, <1>4, PostMoves
<1>9. PostDebited(debit)[f].balance = accounts[f].balance - d + h
      /\ PostDebited(debit)[f].locked = accounts[f].locked
  BY <1>3, <1>4 DEF PostDebited, Sound, Account
<1> HIDE DEF t, f, g, debit, credit, d, h
<1>10. \A q \in Keys : accounts[q].balance \in Int /\ accounts[q].locked \in Int
  BY <1>4 DEF Sound, Account
<1>11. Available(f) \in Int /\ Available(f) >= d - h /\ d - h \in 0 .. Available(f)
  BY <1>3, <1>5, <1>8, <1>9, <1>10 DEF RowOK, Available
<1>12. [q \in Keys |-> Available(q)]' =
         [[q \in Keys |-> Available(q)] EXCEPT ![f] = @ - (d - h), ![g] = @ + (d - h) + h]
  <2>1. \A q \in Keys : Available(q)' = IF q = f THEN Available(f) - (d - h)
                                        ELSE IF q = g THEN Available(g) + (d - h) + h
                                        ELSE Available(q)
    BY <1>3, <1>5, <1>6, <1>10 DEF Available
  <2> QED BY <1>3, <2>1
<1>13. Promise!Transfer(t.from, t.to, t.currency, d - h, h)
  <2>1. f = <<t.from, t.currency>> /\ g = <<t.to, t.currency>>
    BY DEF f, g
  <2> QED BY <1>2, <1>3, <1>7, <1>11, <1>12, <2>1, SetAsideKept, DealsKept
          DEF Promise!Transfer
<1>14. d - h \in 0 .. [q \in Keys |-> Available(q)][<<t.from, t.currency>>]
  BY <1>3, <1>11 DEF f
<1> QED
  BY <1>2, <1>5, <1>13, <1>14 DEF Promise!Next

(* The ledger's own steps transfer, or move nothing that the promise sees. *)
LEMMA LedgerKeepsPromise ==
    ASSUME PlaneInv, LedgerNext, UNCHANGED <<withdrawals, orders, escrowJournal>>
    PROVE  [Promise!Next]_(Promise!vars)
<1>1. ASSUME UNCHANGED <<accounts, dust>> PROVE UNCHANGED Promise!vars
  BY <1>1, SetAsideKept, DealsKept DEF Promise!vars, Available
<1>2. ASSUME NEW w \in Workers, CommitTransfer(w) PROVE Promise!Next
  BY <1>2, TransferKeepsPromise
<1> QED
  BY <1>1, <1>2 DEF LedgerNext, BeginTransfer, Abort, SetSwitch

(* The inductive invariant of the plane, as long as SeesCurrent.           *)
HoldsInv == PlaneInv /\ PlaneHoldsCovered

(* It holds at first.                                                      *)
LEMMA HoldsStart == PlaneInit => HoldsInv
<1> SUFFICES ASSUME PlaneInit PROVE HoldsInv
  OBVIOUS
<1>1. PlaneInv
  BY PlaneStart
<1>3. ASSUME NEW k \in Keys
      PROVE  accounts[k].locked = Sum(WithdrawHolds(k), MaxWithdrawals)
                                + Sum(EscrowHolds(k), MaxOrders)
  <2>1. accounts[k].locked = Sum(WithdrawHolds(k), MaxWithdrawals)
    BY PipelineInit DEF PlaneInit, PipelineInv, WithdrawHoldsCovered
  <2>2. \A i \in 1 .. MaxOrders : EscrowHolds(k)[i] = 0
    BY DEF PlaneInit, EscrowInit, EscrowHolds, Opened, OrderIds
  <2>3. Sum(EscrowHolds(k), MaxOrders) = 0
    BY <1>1, <2>2, HoldAmounts, SumZero, EscrowAssumption DEF PlaneInv, EscrowInv
  <2>4. accounts[k].locked = 0
    BY DEF PlaneInit, EscrowInit, LedgerInit
  <2> QED BY <2>1, <2>3, <2>4
<1> QED
  BY <1>1, <1>3 DEF HoldsInv, PlaneHoldsCovered

(* Every step keeps it, and is a step of the promise or invisible to it.   *)
LEMMA HoldsStep ==
    ASSUME HoldsInv, SeesCurrent, [PlaneNext]_planeVars
    PROVE  HoldsInv' /\ [Promise!Next]_(Promise!vars)
<1>1. PlaneInv /\ PlaneInv' /\ Sound /\ EscrowRows /\ WithdrawInv(PlaneTask)
  BY PlaneStep DEF HoldsInv, PlaneInv, EscrowInv, LedgerInv, LedgerTypeOK, Sound
<1>2. \A k \in Keys : /\ accounts[k].locked \in Int
                      /\ Sum(WithdrawHolds(k), MaxWithdrawals) \in Int
                      /\ Sum(EscrowHolds(k), MaxOrders) \in Int
                      /\ accounts[k].locked = Sum(WithdrawHolds(k), MaxWithdrawals)
                                            + Sum(EscrowHolds(k), MaxOrders)
  BY <1>1, Numbers, HoldAmounts DEF HoldsInv, PlaneHoldsCovered
<1>3. CASE WithdrawStep /\ UNCHANGED <<orders, escrowJournal>>
  <2>1. Moves(PlaneTask)
    BY <1>1, <1>3, PlaneMoves
  <2>3. ASSUME NEW k \in Keys
        PROVE  accounts'[k].locked = Sum(WithdrawHolds(k), MaxWithdrawals)'
                                   + Sum(EscrowHolds(k), MaxOrders)'
    <3>1. PICK d \in Int :
            /\ accounts'[k].locked = accounts[k].locked + d
            /\ Sum(WithdrawHolds(k), MaxWithdrawals)' = Sum(WithdrawHolds(k), MaxWithdrawals) + d
      BY <2>1 DEF Moves, LockFollowsHolds
    <3>2. Sum(EscrowHolds(k), MaxOrders)' = Sum(EscrowHolds(k), MaxOrders)
      BY <1>3 DEF EscrowHolds, Opened, SellerKey
    <3> QED BY <1>2, <3>1, <3>2
  <2>4. [Promise!Next]_(Promise!vars)
    BY <1>1, <1>3, PipelineKeepsPromise DEF PlaneInv, WithdrawInv
  <2> QED BY <1>1, <2>3, <2>4 DEF HoldsInv, PlaneHoldsCovered
<1>4. CASE EscrowStep /\ UNCHANGED <<withdrawals, withdrawJournal>>
  <2>1. KeepsPromise
    <3>1. EscrowRows'
      BY <1>1 DEF PlaneInv, EscrowInv
    <3> QED BY <1>1, <1>4, <3>1, MarketKeepsPromise
  <2>2. ASSUME NEW k \in Keys
        PROVE  accounts'[k].locked = Sum(WithdrawHolds(k), MaxWithdrawals)'
                                   + Sum(EscrowHolds(k), MaxOrders)'
    <3>1. PICK d \in Int :
            /\ accounts'[k].locked = accounts[k].locked + d
            /\ Sum(EscrowHolds(k), MaxOrders)' = Sum(EscrowHolds(k), MaxOrders) + d
      BY <2>1 DEF KeepsPromise, LockFollowsEscrow
    <3>2. Sum(WithdrawHolds(k), MaxWithdrawals)' = Sum(WithdrawHolds(k), MaxWithdrawals)
      BY <1>4 DEF WithdrawHolds, Undecided
    <3> QED BY <1>2, <3>1, <3>2
  <2> QED BY <1>1, <2>1, <2>2 DEF HoldsInv, PlaneHoldsCovered, KeepsPromise
<1>5. CASE LedgerNext /\ UNCHANGED <<withdrawals, withdrawJournal, orders, escrowJournal>>
  <2>1. \A k \in Keys : accounts'[k].locked = accounts[k].locked
    BY <1>1, <1>5, PlaneMoves
  <2>3. PlaneHoldsCovered'
    BY <1>2, <1>5, <2>1
    DEF PlaneHoldsCovered, WithdrawHolds, Undecided, EscrowHolds, Opened, SellerKey
  <2>4. [Promise!Next]_(Promise!vars)
    BY <1>1, <1>5, LedgerKeepsPromise
  <2> QED BY <1>1, <2>3, <2>4 DEF HoldsInv
<1>6. CASE UNCHANGED planeVars
  <2>1. UNCHANGED <<accounts, dust, withdrawals, orders, escrowJournal>>
    BY <1>6 DEF planeVars, ledgerVars
  <2>3. PlaneHoldsCovered'
    BY <1>2, <2>1
    DEF PlaneHoldsCovered, WithdrawHolds, Undecided, EscrowHolds, Opened, SellerKey
  <2>4. UNCHANGED Promise!vars
    <3>1. \A j \in OrderIds : SameDeal(j)
      BY <2>1 DEF SameDeal
    <3> QED BY <1>1, <2>1, <3>1, Invisible
  <2> QED BY <1>1, <2>3, <2>4 DEF HoldsInv
<1> QED
  BY <1>3, <1>4, <1>5, <1>6 DEF PlaneNext

(* With any number of requests in flight, as long as none of them acts on  *)
(* a stale snapshot, the locked column of every account is exactly what    *)
(* its undecided withdrawals and its active escrow orders hold, although   *)
(* the column does not say whose hold is whose.  The hypothesis is what    *)
(* escrowTransition misses by reading on the pool: without it a second     *)
(* release takes what another hold locked (NoDoubleRelease).               *)
THEOREM PlaneHolds ==
    PlaneSpec /\ []SeesCurrent => []PlaneHoldsCovered
<1>1. HoldsInv /\ SeesCurrent /\ [PlaneNext]_planeVars => HoldsInv'
  BY HoldsStep
<1>2. HoldsInv => PlaneHoldsCovered
  BY DEF HoldsInv
<1> QED BY <1>1, <1>2, HoldsStart, PTL DEF PlaneSpec

(* Nothing is spendable but the opening balances, and no deal is made.     *)
LEMMA PromiseStart == PlaneInit => Promise!Init
<1> SUFFICES ASSUME PlaneInit PROVE Promise!Init
  OBVIOUS
<1>1. \A k \in Keys : Available(k) = Opening
  BY LedgerAssumption DEF PlaneInit, EscrowInit, LedgerInit, Available
<1>2. \A i \in OrderIds : DealOf(i) = Promise!NoDeal
  BY DEF PlaneInit, EscrowInit, DealOf, Opened, Promise!NoDeal
<1>3. ASSUME NEW k \in Keys PROVE Sum(SetAsideBy(k), MaxWithdrawals) = 0
  <2>1. \A i \in 1 .. MaxWithdrawals : SetAsideBy(k)[i] = 0
    BY DEF PlaneInit, WithdrawInit, SetAsideBy, NoWithdrawal, WithdrawalIds
  <2>2. SetAsideBy(k) \in [1 .. MaxWithdrawals -> Int]
    BY <2>1 DEF SetAsideBy, WithdrawalIds
  <2> QED BY <2>1, <2>2, SumZero, WithdrawAssumption
<1>4. dust = [k \in Keys |-> 0]
  BY DEF PlaneInit, EscrowInit, LedgerInit
<1> QED
  BY <1>1, <1>2, <1>3, <1>4 DEF Promise!Init, Keys

(* As long as no request acts on a stale snapshot, the plane implements    *)
(* the escrow promise: an amount leaves what the seller can spend when an  *)
(* order is opened, and comes back exactly once, to the buyer or to the    *)
(* seller.  What transfers and withdrawals move on the same accounts is    *)
(* matched unit by unit, so a second payout or refund is no step of the    *)
(* promise.                                                                *)
THEOREM PlaneImplementsPromise ==
    PlaneSpec /\ []SeesCurrent => ImplementsPromise
<1>1. HoldsInv /\ SeesCurrent /\ [PlaneNext]_planeVars =>
          HoldsInv' /\ [Promise!Next]_(Promise!vars)
  BY HoldsStep
<1> QED
  BY <1>1, HoldsStart, PromiseStart, PTL DEF PlaneSpec, ImplementsPromise, Promise!Spec

(***************************************************************************)
(* One request at a time                                                   *)
(***************************************************************************)

OneAtATime == \A v, w \in Workers : v = w

(* A request that is alone parks on a snapshot of the row as it is, and    *)
(* nothing changes the row until it is done.                               *)
LEMMA AloneStep ==
    ASSUME OneAtATime, PlaneInv, SeesCurrent, [PlaneNext]_planeVars
    PROVE  SeesCurrent'
<1>1. worker \in [Workers -> {Idle} \cup PlaneTask]
  BY DEF PlaneInv, EscrowInv, LedgerInv, LedgerTypeOK
<1>2. ASSUME NEW w \in Workers, worker'[w].op \notin SnapshotOps PROVE SeesCurrent'
  BY <1>2 DEF OneAtATime, SeesCurrent
<1>3. ASSUME UNCHANGED orders,
             \A v \in Workers : worker'[v] = worker[v] \/ worker'[v].op \notin SnapshotOps
      PROVE  SeesCurrent'
  BY <1>3 DEF SeesCurrent
<1>4. CASE WithdrawStep /\ UNCHANGED <<orders, escrowJournal>>
  <2>1. \A v \in Workers : worker'[v] = worker[v] \/ worker'[v].op \notin SnapshotOps
    BY <1>4, PlaneMoves DEF Moves, Idle, WithdrawTask, SnapshotOps
  <2> QED BY <1>3, <1>4, <2>1
<1>5. CASE LedgerNext /\ UNCHANGED <<withdrawals, withdrawJournal, orders, escrowJournal>>
  <2>1. \A v \in Workers : worker'[v] = worker[v] \/ worker'[v].op \notin SnapshotOps
    BY <1>5, PlaneMoves DEF Idle, TransferTask, SnapshotOps
  <2> QED BY <1>3, <1>5, <2>1
<1>6. CASE EscrowStep /\ UNCHANGED <<withdrawals, withdrawJournal>>
  <2>1. ASSUME NEW w \in Workers, NEW task, Start(w, task),
               task.op \in SnapshotOps => task.seen = orders[task.order]
        PROVE  SeesCurrent'
    <3>1. worker'[w] = task /\ UNCHANGED orders
      BY <1>1, <2>1 DEF Start
    <3> QED BY <2>1, <3>1 DEF OneAtATime, SeesCurrent
  <2>2. ASSUME NEW w \in Workers, NEW i \in OrderIds, NEW op, NEW expected,
               ReadOrder(w, i, op, expected)
        PROVE  SeesCurrent'
    <3> DEFINE task == [op |-> op, order |-> i, seen |-> orders[i]]
    <3>1. Start(w, task) /\ task.seen = orders[task.order]
      BY <2>2 DEF ReadOrder
    <3> HIDE DEF task
    <3> QED BY <2>1, <3>1
  <2>3. ASSUME NEW w \in Workers, NEW i \in OrderIds,
               \/ ReadRelease(w, i) \/ ReadCancel(w, i)
               \/ \E winner \in {"buyer", "seller"} : ReadResolve(w, i, winner)
        PROVE  SeesCurrent'
    BY <2>2, <2>3 DEF ReadRelease, ReadCancel, ReadResolve
  <2>4. ASSUME NEW w \in Workers, NEW k \in Keys, NEW a \in Amounts, BeginOpen(w, k, a)
        PROVE  SeesCurrent'
    <3>1. Start(w, [op |-> "open", key |-> k, amount |-> a])
      BY <2>4 DEF BeginOpen
    <3> QED BY <2>1, <3>1 DEF SnapshotOps
  <2>5. ASSUME NEW w \in Workers, NEW i \in OrderIds, NEW u \in Users, BeginAccept(w, i, u)
        PROVE  SeesCurrent'
    <3>1. Start(w, [op |-> "accept", order |-> i, buyer |-> u])
      BY <2>5 DEF BeginAccept
    <3> QED BY <2>1, <3>1 DEF SnapshotOps
  <2>6. ASSUME NEW w \in Workers,
               \/ CommitAccept(w) \/ CommitRelease(w) \/ CommitCancel(w) \/ CommitResolve(w)
               \/ \E i \in OrderIds : CommitOpen(w, i) \/ MarkPaid(w, i) \/ Dispute(w, i)
        PROVE  SeesCurrent'
    <3>1. worker'[w] = Idle
      BY <1>1, <2>6 DEF CommitAccept, CommitRelease, CommitCancel, CommitResolve, CloseOrder,
                        CommitOpen, Finish, MarkPaid, Dispute, ledgerVars
    <3> QED BY <1>2, <3>1 DEF Idle, SnapshotOps
  <2> QED BY <1>6, <2>3, <2>4, <2>5, <2>6 DEF EscrowStep
<1>7. CASE UNCHANGED planeVars
  BY <1>3, <1>7 DEF planeVars, ledgerVars
<1> QED
  BY <1>4, <1>5, <1>6, <1>7 DEF PlaneNext

(* Requests served one at a time never act on a stale snapshot.            *)
THEOREM AloneIsCurrent ==
    ASSUME OneAtATime
    PROVE  PlaneSpec => []SeesCurrent
<1>1. PlaneInit => SeesCurrent
  BY DEF PlaneInit, EscrowInit, LedgerInit, SeesCurrent, Idle, SnapshotOps
<1>2. PlaneInv /\ SeesCurrent /\ [PlaneNext]_planeVars => SeesCurrent'
  BY AloneStep
<1> QED BY <1>1, <1>2, PlaneAlways, PTL DEF PlaneSpec

(* So the plane that serves one request at a time, which the runs check,   *)
(* keeps every lock exactly what its holds are (PlaneHoldsCovered).        *)
THEOREM SerialPlaneHolds ==
    ASSUME OneAtATime
    PROVE  PlaneSpec => []PlaneHoldsCovered
BY AloneIsCurrent, PlaneHolds, PTL

(* And it implements the escrow promise (ImplementsPromise).               *)
THEOREM SerialPlaneImplementsPromise ==
    ASSUME OneAtATime
    PROVE  PlaneSpec => ImplementsPromise
BY AloneIsCurrent, PlaneImplementsPromise, PTL

=============================================================================
