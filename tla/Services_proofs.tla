--------------------------- MODULE Services_proofs ---------------------------
(***************************************************************************)
(* The small services, for any users, withdrawals, requests, amounts and   *)
(* bounds: a red packet is accounted for, payouts are co-signed, a         *)
(* timelock never fabricates an execution, an NFT market is explained by   *)
(* its history, a pool's LP tokens are backed and never diluted.           *)
(***************************************************************************)
EXTENDS Services, Sums_proofs, TLAPS

(***************************************************************************)
(* Red packets                                                             *)
(***************************************************************************)

(* What l claimers get of r on average.                                    *)
LEMMA Average ==
    ASSUME NEW r \in Nat, NEW l \in Nat, 1 <= l, l <= r
    PROVE  /\ r \div l \in Nat /\ r \div l >= 1
           /\ (l - 1) * (r \div l) >= l - 1
           /\ l >= 2 => (l - 2) * (r \div l) >= l - 2
           /\ r >= l * (r \div l)
           /\ l = 1 => r \div l = r
<1>1. r \div l \in Nat /\ r >= l * (r \div l) /\ r < l * (r \div l) + l
  OBVIOUS
<1>2. r \div l # 0
  BY <1>1
<1> DEFINE q == r \div l
<1>3. q \in Nat /\ q >= 1
  BY <1>1, <1>2
<1> HIDE DEF q
<1>4. (l - 1) * q >= l - 1 /\ (l >= 2 => (l - 2) * q >= l - 2)
  BY <1>3
<1> QED
  BY <1>1, <1>3, <1>4 DEF q

(* A share, of either kind, leaves a unit for each claimer to come, and    *)
(* the last share is everything.                                           *)
LEMMA ShareLeavesEnough ==
    ASSUME NEW r \in Nat, NEW l \in Nat, 1 <= l, l <= r,
           NEW share \in RandomShares(r, l) \cup {FixedShare(r, l)}
    PROVE  /\ share \in Nat /\ 1 <= share /\ share <= r
           /\ r - share >= l - 1
           /\ l = 1 => share = r
<1> DEFINE q == r \div l
<1>1. /\ q \in Nat /\ q >= 1 /\ r >= l * q /\ (l = 1 => q = r)
      /\ (l - 1) * q >= l - 1 /\ (l >= 2 => (l - 2) * q >= l - 2)
  BY Average
<1>2. share = q \/ (l = 1 /\ share = r) \/ (l >= 2 /\ share \in {1} \cup 2 .. (2 * q - 1))
  BY DEF RandomShares, FixedShare
<1> HIDE DEF q
<1>3. l * q = (l - 1) * q + q /\ (l >= 2 => l * q = (l - 2) * q + 2 * q)
  BY <1>1
<1>4. CASE share = q
  BY <1>1, <1>3, <1>4
<1>5. CASE l = 1 /\ share = r
  BY <1>5
<1>6. CASE l >= 2 /\ share \in {1} \cup 2 .. (2 * q - 1)
  <2>1. share \in Nat /\ 1 <= share /\ (share = 1 \/ share <= 2 * q - 1)
    BY <1>1, <1>6
  <2>2. r >= (l - 2) + 2 * q
    BY <1>1, <1>3, <1>6
  <2>3. r - share >= l - 1
    BY <1>1, <2>1, <2>2
  <2> QED BY <1>6, <2>1, <2>3
<1> QED
  BY <1>2, <1>4, <1>5, <1>6

PacketInv ==
    /\ PacketTypeOK
    /\ PacketAccounted
    /\ packet.status = "none" => packet = NoPacket

(* Before the packet is created nothing is claimed.                        *)
LEMMA PacketInitially == PacketInit => PacketInv
<1> SUFFICES ASSUME PacketInit PROVE PacketInv
  OBVIOUS
<1>1. /\ claims \in [1 .. NumClaimers -> Int] /\ \A i \in 1 .. NumClaimers : claims[i] = 0
      /\ NumClaimers \in Nat
  BY PacketAssumption DEF PacketInit, Claimers
<1>2. Sum(claims, NumClaimers) = 0
  BY <1>1, SumZero
<1> QED
  BY <1>2, PacketAssumption
  DEF PacketInit, PacketInv, PacketTypeOK, PacketAccounted, Packet, NoPacket, Claimers

(* Every action keeps PacketInv: what a claim takes from the packet is     *)
(* what it adds to the claims.                                             *)
LEMMA PacketStep == PacketInv /\ [PacketNext]_packetVars => PacketInv'
<1> SUFFICES ASSUME PacketInv, [PacketNext]_packetVars PROVE PacketInv'
  OBVIOUS
<1> USE PacketAssumption
<1>1. /\ packet \in Packet /\ claims \in [Claimers -> 0 .. MaxTotal]
      /\ NumClaimers \in Nat /\ claims \in [1 .. NumClaimers -> Int]
  BY DEF PacketInv, PacketTypeOK, Claimers
<1>2. /\ packet.total \in 0 .. MaxTotal /\ packet.remaining \in 0 .. MaxTotal
      /\ packet.left \in 0 .. MaxTotal
  BY <1>1 DEF Packet
<1>3. Sum(claims, NumClaimers) \in Int
  BY <1>1, SumType
<1>4. ASSUME NEW kind \in {"fixed", "random"}, NEW total \in 1 .. MaxTotal,
             NEW quantity \in 1 .. MaxTotal, CreateRedPacket(kind, total, quantity)
      PROVE  PacketInv'
  <2>1. Sum(claims, NumClaimers) = 0
    BY <1>3, <1>4 DEF CreateRedPacket, PacketInv, PacketAccounted, NoPacket
  <2> QED BY <1>1, <1>4, <2>1
          DEF CreateRedPacket, PacketInv, PacketTypeOK, PacketAccounted, Packet
<1>5. ASSUME NEW u \in Claimers, Claim(u) PROVE PacketInv'
  <2>1. PICK share \in Shares :
            /\ claims' = [claims EXCEPT ![u] = Raised(share)]
            /\ packet' = [packet EXCEPT
                  !.remaining = @ - Raised(share), !.left = @ - 1,
                  !.status = IF packet.left - 1 <= 0 THEN "completed" ELSE @]
    BY <1>5 DEF Claim
  <2>2. /\ packet.left >= 1 /\ packet.left <= packet.remaining
        /\ claims[u] = 0 /\ packet.status = "active"
    BY <1>2, <1>5 DEF Claim, PacketInv, PacketAccounted
  <2>3. /\ share \in Nat /\ 1 <= share /\ share <= packet.remaining
        /\ packet.remaining - share >= packet.left - 1
        /\ packet.left = 1 => share = packet.remaining
    <3>1. share \in RandomShares(packet.remaining, packet.left)
                    \cup {FixedShare(packet.remaining, packet.left)}
      BY DEF Shares
    <3> QED BY <1>2, <2>2, <3>1, ShareLeavesEnough
  <2>4. Raised(share) = share /\ share \in 0 .. MaxTotal
    BY <1>2, <2>3 DEF Raised
  <2>5. /\ claims' \in [Claimers -> 0 .. MaxTotal]
        /\ claims' \in [1 .. NumClaimers -> Int] /\ claims'[u] = share
        /\ \A v \in 1 .. NumClaimers : v # u => claims'[v] = claims[v]
    BY <1>1, <2>1, <2>4 DEF Claimers
  <2>6. Sum(claims', NumClaimers) = Sum(claims, NumClaimers) + share
    <3>1. Sum(claims', NumClaimers) = Sum(claims, NumClaimers) + claims'[u] - claims[u]
      BY <1>1, <2>5, SumUpdate DEF Claimers
    <3> QED BY <1>3, <2>2, <2>3, <2>5, <3>1
  <2>7. /\ packet' \in Packet
        /\ packet'.remaining = packet.remaining - share /\ packet'.left = packet.left - 1
        /\ packet'.total = packet.total /\ packet'.status \in {"active", "completed"}
    <3> DEFINE s == IF packet.left - 1 <= 0 THEN "completed" ELSE packet.status
    <3>1. s \in {"active", "completed"}
      BY <2>2
    <3>2. packet' = [status |-> s, kind |-> packet.kind, total |-> packet.total,
                     quantity |-> packet.quantity, remaining |-> packet.remaining - share,
                     left |-> packet.left - 1]
      BY <1>1, <2>1, <2>4 DEF Packet
    <3>3. packet.remaining - share \in 0 .. MaxTotal /\ packet.left - 1 \in 0 .. MaxTotal
      BY <1>2, <2>2, <2>3
    <3> HIDE DEF s
    <3> QED BY <1>1, <3>1, <3>2, <3>3 DEF Packet
  <2>8. PacketAccounted'
    BY <1>2, <1>3, <2>2, <2>3, <2>6, <2>7 DEF PacketInv, PacketAccounted
  <2> QED BY <2>5, <2>7, <2>8 DEF PacketInv, PacketTypeOK
<1>6. ASSUME ClaimLate PROVE PacketInv'
  BY <1>1, <1>6 DEF ClaimLate, PacketInv, PacketTypeOK, PacketAccounted, Packet
<1>7. ASSUME UNCHANGED packetVars PROVE PacketInv'
  BY <1>7 DEF packetVars, PacketInv, PacketTypeOK, PacketAccounted
<1> QED
  BY <1>4, <1>5, <1>6, <1>7 DEF PacketNext

(* For any number of claimers and any amount, whatever shares are drawn:   *)
(* claims and rest are the total, and enough is left for everyone to come. *)
THEOREM Accounted == PacketSpec => []PacketAccounted
<1>1. PacketInv => PacketAccounted
  BY DEF PacketInv
<1> QED
  BY <1>1, PacketInitially, PacketStep, PTL DEF PacketSpec

(***************************************************************************)
(* Payouts                                                                 *)
(***************************************************************************)

PayoutInv == PayoutTypeOK /\ PayoutsCosigned

(* Nothing is approved, and no request is in flight.                       *)
LEMMA PayoutInitially == PayoutInit => PayoutInv
BY PayoutAssumption DEF PayoutInit, PayoutInv, PayoutTypeOK, PayoutsCosigned, NoJob

(* A request that found an approval, or has sent, names a withdrawal.      *)
LEMMA JobNamesWithdrawal ==
    ASSUME PayoutTypeOK, NEW j \in Jobs, job[j] # NoJob
    PROVE  job[j].for \in Withdrawals /\ job[j].at \in {"approved", "sent"}
BY DEF PayoutTypeOK

(* What a request has sent stays paid, since payments only accumulate.     *)
LEMMA SentStaysPaid ==
    ASSUME PayoutInv, NEW j \in Jobs, job[j].at = "sent",
           paid' \in [Withdrawals -> 0 .. MaxPaid],
           \A w \in Withdrawals : paid'[w] >= paid[w]
    PROVE  paid'[job[j].for] > 0
<1>1. job[j].for \in Withdrawals
  BY JobNamesWithdrawal DEF PayoutInv, NoJob
<1>2. paid[job[j].for] > 0
  BY DEF PayoutInv, PayoutsCosigned
<1> QED
  BY <1>1, <1>2, PayoutAssumption DEF PayoutInv, PayoutTypeOK

(* Every action keeps PayoutInv: the only way out of "approved" is to      *)
(* "executed", and it needs a request that has sent.                       *)
LEMMA PayoutStep == PayoutInv /\ [PayoutNext]_payoutVars => PayoutInv'
<1> SUFFICES ASSUME PayoutInv, [PayoutNext]_payoutVars PROVE PayoutInv'
  OBVIOUS
<1> USE PayoutAssumption
<1>1. /\ withdrawal \in [Withdrawals -> {"none", "wl_approved", "approved", "rejected", "executed"}]
      /\ job \in [Jobs -> [for : Withdrawals, at : {"approved", "sent"}] \cup {NoJob}]
      /\ paid \in [Withdrawals -> 0 .. MaxPaid]
      /\ PayoutsCosigned
  BY DEF PayoutInv, PayoutTypeOK
<1>2. ASSUME NEW w \in Withdrawals, RequestWithdrawal(w) PROVE PayoutInv'
  BY <1>1, <1>2 DEF RequestWithdrawal, PayoutInv, PayoutTypeOK, PayoutsCosigned, NoJob
<1>3. ASSUME NEW w \in Withdrawals, SuperAdminApproveWithdrawal(w) PROVE PayoutInv'
  BY <1>1, <1>3 DEF SuperAdminApproveWithdrawal, PayoutInv, PayoutTypeOK, PayoutsCosigned, NoJob
<1>4. ASSUME NEW w \in Withdrawals, SuperAdminRejectWithdrawal(w) PROVE PayoutInv'
  BY <1>1, <1>4 DEF SuperAdminRejectWithdrawal, PayoutInv, PayoutTypeOK, PayoutsCosigned, NoJob
<1>5. ASSUME NEW j \in Jobs, NEW w \in Withdrawals, RequireApproval(j, w) PROVE PayoutInv'
  BY <1>1, <1>5 DEF RequireApproval, PayoutInv, PayoutTypeOK, PayoutsCosigned, NoJob
<1>6. ASSUME NEW j \in Jobs, SignAndBroadcast(j) PROVE PayoutInv'
  <2>1. job[j] # NoJob
    BY <1>6 DEF SignAndBroadcast, NoJob
  <2>2. job[j].for \in Withdrawals /\ job[j] \in [for : Withdrawals, at : {"approved", "sent"}]
    BY <1>1, <2>1
  <2>3. /\ paid' \in [Withdrawals -> 0 .. MaxPaid] /\ paid'[job[j].for] > 0
        /\ \A w \in Withdrawals : paid'[w] >= paid[w]
        /\ \A w \in Withdrawals : w # job[j].for => paid'[w] = paid[w]
    BY <1>1, <1>6, <2>2 DEF SignAndBroadcast, Pay
  <2>4. /\ job' \in [Jobs -> [for : Withdrawals, at : {"approved", "sent"}] \cup {NoJob}]
        /\ job'[j].for = job[j].for /\ \A i \in Jobs : i # j => job'[i] = job[i]
        /\ withdrawal' = withdrawal
    BY <1>1, <1>6, <2>2 DEF SignAndBroadcast
  <2>5. withdrawal[job[j].for] \in {"approved", "executed"}
    BY <1>1, <2>1 DEF PayoutsCosigned
  <2>6. \A i \in Jobs : job'[i].at = "sent" => paid'[job'[i].for] > 0
    BY <1>1, <2>3, <2>4, SentStaysPaid DEF PayoutInv
  <2>7. \A i \in Jobs : job'[i] # NoJob => withdrawal'[job'[i].for] \in {"approved", "executed"}
    BY <1>1, <2>4, <2>5 DEF PayoutsCosigned
  <2>8. \A w \in Withdrawals : paid'[w] > 0 => withdrawal'[w] \in {"approved", "executed"}
    BY <1>1, <2>3, <2>4, <2>5 DEF PayoutsCosigned
  <2>9. \A w \in Withdrawals : withdrawal'[w] = "executed" => paid'[w] > 0
    BY <1>1, <2>3, <2>4 DEF PayoutsCosigned
  <2>10. PayoutsCosigned'
    BY <2>6, <2>7, <2>8, <2>9 DEF PayoutsCosigned
  <2> QED BY <1>1, <2>3, <2>4, <2>10 DEF PayoutInv, PayoutTypeOK
<1>7. ASSUME NEW j \in Jobs, BroadcastFails(j) PROVE PayoutInv'
  <2>1. job[j] # NoJob
    BY <1>7 DEF BroadcastFails, NoJob
  <2>2. job[j].for \in Withdrawals
    BY <1>1, <2>1
  <2>3. /\ paid' \in [Withdrawals -> 0 .. MaxPaid]
        /\ \A w \in Withdrawals : paid'[w] >= paid[w]
        /\ \A w \in Withdrawals : w # job[j].for => paid'[w] = paid[w]
    BY <1>1, <1>7, <2>2 DEF BroadcastFails, Pay
  <2>4. /\ job' \in [Jobs -> [for : Withdrawals, at : {"approved", "sent"}] \cup {NoJob}]
        /\ job'[j] = NoJob /\ \A i \in Jobs : i # j => job'[i] = job[i]
        /\ withdrawal' = withdrawal
    BY <1>1, <1>7 DEF BroadcastFails
  <2>5. withdrawal[job[j].for] \in {"approved", "executed"} /\ NoJob.at # "sent"
    BY <1>1, <2>1 DEF PayoutsCosigned, NoJob
  <2>6. \A i \in Jobs : job'[i].at = "sent" => paid'[job'[i].for] > 0
    BY <1>1, <2>3, <2>4, <2>5, SentStaysPaid DEF PayoutInv
  <2>7. \A i \in Jobs : job'[i] # NoJob => withdrawal'[job'[i].for] \in {"approved", "executed"}
    BY <1>1, <2>4 DEF PayoutsCosigned
  <2>8. \A w \in Withdrawals : paid'[w] > 0 => withdrawal'[w] \in {"approved", "executed"}
    BY <1>1, <2>3, <2>4, <2>5 DEF PayoutsCosigned
  <2>9. \A w \in Withdrawals : withdrawal'[w] = "executed" => paid'[w] > 0
    BY <1>1, <2>3, <2>4 DEF PayoutsCosigned
  <2>10. PayoutsCosigned'
    BY <2>6, <2>7, <2>8, <2>9 DEF PayoutsCosigned
  <2> QED BY <1>1, <2>3, <2>4, <2>10 DEF PayoutInv, PayoutTypeOK
<1>8. ASSUME NEW j \in Jobs, MarkWithdrawalExecuted(j) PROVE PayoutInv'
  <2>1. job[j] # NoJob
    BY <1>8 DEF MarkWithdrawalExecuted, NoJob
  <2>2. job[j].for \in Withdrawals /\ paid[job[j].for] > 0
    BY <1>1, <1>8, <2>1 DEF PayoutsCosigned, MarkWithdrawalExecuted
  <2> QED BY <1>1, <1>8, <2>2 DEF MarkWithdrawalExecuted, PayoutInv, PayoutTypeOK, PayoutsCosigned, NoJob
<1>9. ASSUME NEW j \in Jobs, MarkLost(j) PROVE PayoutInv'
  BY <1>1, <1>9 DEF MarkLost, PayoutInv, PayoutTypeOK, PayoutsCosigned, NoJob
<1>10. ASSUME UNCHANGED payoutVars PROVE PayoutInv'
  BY <1>10 DEF payoutVars, PayoutInv, PayoutTypeOK, PayoutsCosigned
<1> QED
  BY <1>2, <1>3, <1>4, <1>5, <1>6, <1>7, <1>8, <1>9, <1>10 DEF PayoutNext

(* Whatever SuperAdmins decide between the question whether a withdrawal   *)
(* is approved and the broadcast, and whatever reports are lost: money     *)
(* that went out was co-signed, and stays so.                              *)
THEOREM Cosigned == PayoutSpec => []PayoutsCosigned
<1>1. PayoutInv => PayoutsCosigned
  BY DEF PayoutInv
<1> QED
  BY <1>1, PayoutInitially, PayoutStep, PTL DEF PayoutSpec

(***************************************************************************)
(* Timelock                                                                *)
(***************************************************************************)

(* A row that a request may save, or has saved, tells the truth.           *)
Honest(r) == (r.hash => broadcasts > 0) /\ (r.status = "executed" => r.hash)

(* The same, of a row that a request takes along in a step.                *)
HonestAfter(r) == (r.hash => broadcasts' > 0) /\ (r.status = "executed" => r.hash)

(* A request that is about to execute holds a row that is not executed.    *)
TimelockInv ==
    /\ TimelockTypeOK
    /\ broadcasts > 0 => clock # "early" /\ onChain
    /\ Honest(row)
    /\ \A c \in Calls :
          /\ Honest(request[c].row)
          /\ request[c].op = "execute" =>
                clock # "early" /\ request[c].row.status = "pending_broadcast"

(* The scheduled row has no hash, and no request holds a copy.             *)
LEMMA TimelockInitially == TimelockInit => TimelockInv
BY TimelockAssumption
DEF TimelockInit, TimelockInv, TimelockTypeOK, Honest, NoRequest, Row, Status

(* A request that loads the row takes a row as honest as the one it saw.   *)
LEMMA LoadKeeps ==
    ASSUME TimelockInv, NEW c \in Calls, NEW op \in {"execute", "save"}, NEW loaded \in Row,
           Load(c, op, loaded), loaded.hash = row.hash, loaded.status # "executed",
           op = "execute" => clock # "early" /\ loaded.status = "pending_broadcast"
    PROVE  TimelockInv'
<1>1. Honest(loaded)
  BY DEF TimelockInv, Honest
<1>2. request' \in [Calls -> [op : {"none", "execute", "save"}, row : Row]]
  BY DEF TimelockInv, TimelockTypeOK, Load
<1> QED
  BY <1>1, <1>2 DEF TimelockInv, TimelockTypeOK, Load, Honest

(* A request that has executed keeps an honest row to save.                *)
LEMMA SaveLaterKeeps ==
    ASSUME TimelockInv, NEW c \in Calls, NEW changed \in Row, SaveLater(c, changed),
           UNCHANGED broadcasts \/ (Send /\ onChain /\ clock # "early"),
           HonestAfter(changed)
    PROVE  TimelockInv'
<1>1. broadcasts \in 0 .. MaxBroadcasts /\ broadcasts' \in 0 .. MaxBroadcasts
      /\ broadcasts' >= broadcasts
  BY TimelockAssumption DEF TimelockInv, TimelockTypeOK, Send
<1>2. \A r : Honest(r) => (r.hash => broadcasts' > 0) /\ (r.status = "executed" => r.hash)
  BY <1>1 DEF Honest
<1>3. request' = [request EXCEPT ![c] = [op |-> "save", row |-> changed]]
      /\ clock' = clock /\ row' = row /\ onChain' = onChain
  BY DEF SaveLater
<1>4. TimelockTypeOK'
  BY <1>1, <1>3 DEF TimelockInv, TimelockTypeOK
<1>5. broadcasts' > 0 => clock' # "early" /\ onChain'
  BY <1>3 DEF TimelockInv
<1>6. Honest(row)'
  BY <1>2, <1>3 DEF TimelockInv, Honest
<1>7. ASSUME NEW d \in Calls
      PROVE  /\ Honest(request[d].row)'
             /\ (request[d].op = "execute" =>
                    clock # "early" /\ request[d].row.status = "pending_broadcast")'
  <2>1. CASE d = c
    BY <1>3, <2>1 DEF HonestAfter, Honest, TimelockInv, TimelockTypeOK
  <2>2. CASE d # c
    <3>1. request'[d] = request[d]
      BY <1>3, <2>2 DEF TimelockInv, TimelockTypeOK
    <3> QED BY <1>2, <1>3, <3>1 DEF Honest, TimelockInv
  <2> QED BY <2>1, <2>2
<1> QED
  BY <1>4, <1>5, <1>6, <1>7 DEF TimelockInv

(* Every action keeps TimelockInv.                                         *)
LEMMA TimelockStep == TimelockInv /\ [TimelockNext]_timelockVars => TimelockInv'
<1> SUFFICES ASSUME TimelockInv, [TimelockNext]_timelockVars PROVE TimelockInv'
  OBVIOUS
<1> USE TimelockAssumption
<1>1. row \in Row /\ \A c \in Calls : request[c].row \in Row
  BY DEF TimelockInv, TimelockTypeOK
<1>2. ASSUME ScheduleTransaction \/ TimePasses PROVE TimelockInv'
  <2>1. CASE ScheduleTransaction
    <3>1. row' \in Row /\ Honest(row)'
      BY <2>1 DEF ScheduleTransaction, Row, Status, Honest
    <3> QED BY <2>1, <3>1 DEF ScheduleTransaction, TimelockInv, TimelockTypeOK, Honest
  <2>2. CASE TimePasses
    BY <2>2 DEF TimePasses, TimelockInv, TimelockTypeOK, Honest
  <2> QED BY <1>2, <2>1, <2>2
<1>3. ASSUME NEW c \in Calls, Sign(c) PROVE TimelockInv'
  <2>1. [row EXCEPT !.status = "queued"] \in Row
    BY <1>1 DEF Row, Status
  <2> QED BY <1>1, <1>3, <2>1, LoadKeeps DEF Sign, Row
<1>4. ASSUME NEW c \in Calls, Cancel(c) PROVE TimelockInv'
  <2>1. [row EXCEPT !.status = "cancelled"] \in Row
    BY <1>1 DEF Row, Status
  <2> QED BY <1>1, <1>4, <2>1, LoadKeeps DEF Cancel, Row
<1>5. ASSUME NEW c \in Calls, Execute(c) PROVE TimelockInv'
  <2>1. /\ [row EXCEPT !.status = "expired"] \in Row
        /\ [row EXCEPT !.status = "pending_broadcast"] \in Row
    BY <1>1 DEF Row, Status
  <2>2. CASE Load(c, "save", [row EXCEPT !.status = "expired"])
    BY <1>1, <2>1, <2>2, LoadKeeps DEF Row
  <2>3. CASE Load(c, "execute", [row EXCEPT !.status = "pending_broadcast"])
    BY <1>1, <1>5, <2>1, <2>3, LoadKeeps DEF Execute, Row
  <2> QED BY <1>5, <2>2, <2>3 DEF Execute
<1>6. ASSUME NEW c \in Calls, ExecuteOffChain(c) PROVE TimelockInv'
  <2> DEFINE changed == [request[c].row EXCEPT !.hash = FALSE]
  <2>1. changed \in Row /\ changed.hash = FALSE /\ changed.status = "pending_broadcast"
    BY <1>1, <1>6 DEF ExecuteOffChain, TimelockInv, Row
  <2>2. HonestAfter(changed)
    BY <2>1 DEF HonestAfter
  <2>3. SaveLater(c, changed) /\ UNCHANGED broadcasts
    BY <1>6 DEF ExecuteOffChain
  <2> HIDE DEF changed
  <2> QED BY <2>1, <2>2, <2>3, SaveLaterKeeps
<1>7. ASSUME NEW c \in Calls, ExecuteOnChain(c) PROVE TimelockInv'
  <2> DEFINE changed == [status |-> "executed", hash |-> TRUE]
  <2>1. changed \in Row
    BY DEF Row, Status
  <2>2. onChain /\ clock # "early" /\ broadcasts' > 0
    BY <1>7 DEF ExecuteOnChain, TimelockInv, TimelockTypeOK, Send
  <2>3. HonestAfter(changed) /\ SaveLater(c, changed) /\ Send
    BY <1>7, <2>2 DEF HonestAfter, ExecuteOnChain
  <2> HIDE DEF changed
  <2> QED BY <2>1, <2>2, <2>3, SaveLaterKeeps
<1>8. ASSUME NEW c \in Calls, ExecuteFails(c) PROVE TimelockInv'
  <2>1. onChain /\ clock # "early" /\ request[c].row \in Row
        /\ request[c].row.status = "pending_broadcast" /\ Honest(request[c].row)
    BY <1>1, <1>8 DEF ExecuteFails, TimelockInv
  <2>2. CASE (UNCHANGED broadcasts \/ Send) /\ SaveLater(c, request[c].row)
    <3>1. broadcasts' >= broadcasts /\ broadcasts \in Nat /\ broadcasts' \in Nat
      BY <2>2 DEF Send, TimelockInv, TimelockTypeOK
    <3>2. HonestAfter(request[c].row)
      BY <2>1, <3>1 DEF Honest, HonestAfter
    <3> QED BY <2>1, <2>2, <3>2, SaveLaterKeeps
  <2>3. CASE Send /\ SaveLater(c, [request[c].row EXCEPT !.hash = TRUE])
    <3> DEFINE changed == [request[c].row EXCEPT !.hash = TRUE]
    <3>1. changed \in Row /\ changed.status = "pending_broadcast"
      BY <2>1 DEF Row
    <3>2. broadcasts' > 0
      BY <2>3 DEF Send, TimelockInv, TimelockTypeOK
    <3>3. HonestAfter(changed) /\ SaveLater(c, changed)
      BY <2>3, <3>1, <3>2 DEF HonestAfter
    <3> HIDE DEF changed
    <3> QED BY <2>1, <2>3, <3>1, <3>3, SaveLaterKeeps
  <2> QED BY <1>8, <2>2, <2>3 DEF ExecuteFails
<1>9. ASSUME NEW c \in Calls, ExecuteRefused(c) \/ SaveLost(c) PROVE TimelockInv'
  <2>1. NoRequest.row \in Row /\ Honest(NoRequest.row) /\ NoRequest.op = "none"
    BY DEF NoRequest, Row, Status, Honest
  <2>2. request' = [request EXCEPT ![c] = NoRequest]
        /\ UNCHANGED <<clock, row, onChain, broadcasts>>
    BY <1>9 DEF ExecuteRefused, SaveLost
  <2>3. NoRequest \in [op : {"none", "execute", "save"}, row : Row]
    BY <2>1 DEF NoRequest
  <2> QED BY <2>1, <2>2, <2>3 DEF TimelockInv, TimelockTypeOK, Honest
<1>10. ASSUME NEW c \in Calls, Save(c) PROVE TimelockInv'
  <2>1. NoRequest.row \in Row /\ Honest(NoRequest.row) /\ NoRequest.op = "none"
    BY DEF NoRequest, Row, Status, Honest
  <2>2. NoRequest \in [op : {"none", "execute", "save"}, row : Row]
    BY <2>1 DEF NoRequest
  <2> QED BY <1>1, <1>10, <2>1, <2>2 DEF Save, TimelockInv, TimelockTypeOK, Honest
<1>11. ASSUME UNCHANGED timelockVars PROVE TimelockInv'
  BY <1>11 DEF timelockVars, TimelockInv, TimelockTypeOK, Honest
<1> QED
  BY <1>2, <1>3, <1>4, <1>5, <1>6, <1>7, <1>8, <1>9, <1>10, <1>11 DEF TimelockNext

(* For any number of requests that save over each other: nothing is sent   *)
(* before its time, and no row carries a hash of nothing.                  *)
THEOREM NeverFabricated == TimelockSpec => []NoFabricatedExecution
<1>1. TimelockInv => NoFabricatedExecution
  BY DEF TimelockInv, NoFabricatedExecution, Honest
<1> QED
  BY <1>1, TimelockInitially, TimelockStep, PTL DEF TimelockSpec

(***************************************************************************)
(* The NFT market                                                          *)
(***************************************************************************)

MarketInv ==
    /\ MarketTypeOK
    /\ MarketExplained
    /\ \A l \in Listings : listings[l].status = "none" => sales[l] = 0
    /\ highest.bidder = "none" => highest.bid = 0

(* Nothing is listed and nobody bids.                                      *)
LEMMA MarketInitially == MarketInit => MarketInv
BY MarketAssumption
DEF MarketInit, MarketInv, MarketTypeOK, MarketExplained, NoTask, NoAuction

(* Steps that only change what requests are between two statements, and    *)
(* what is shown for sale.                                                 *)
LEMMA MarketUntouched ==
    ASSUME MarketInv, MarketTypeOK', nft'.owner = nft.owner,
           UNCHANGED <<listings, auction, sales, lastBuyer, highest, dropped>>
    PROVE  MarketInv'
BY DEF MarketInv, MarketExplained

(* Every action keeps MarketInv.                                           *)
LEMMA MarketStep == MarketInv /\ [MarketNext]_marketVars => MarketInv'
<1> SUFFICES ASSUME MarketInv, [MarketNext]_marketVars PROVE MarketInv'
  OBVIOUS
<1> USE MarketAssumption
<1>1. /\ nft \in [owner : Traders \cup {"none"}, forSale : BOOLEAN]
      /\ listings \in [Listings -> [seller : Traders \cup {"none"},
                                    status : {"none", "active", "sold", "cancelled"}]]
      /\ auction \in [status : {"none", "active", "ended"}, start : 0 .. MaxBid,
                      bid : 0 .. MaxBid, bidder : Traders \cup {"none"}]
      /\ sales \in [Listings -> 0 .. 2]
      /\ highest \in [bid : 0 .. MaxBid, bidder : Traders \cup {"none"}]
  BY DEF MarketInv, MarketTypeOK
<1>2. ASSUME NEW u \in Traders, MintNFT(u) PROVE MarketInv'
  BY <1>1, <1>2 DEF MintNFT, MarketInv, MarketTypeOK, MarketExplained
<1>3. ASSUME NEW u \in Traders, NEW l \in Listings, ListNFT(u, l) \/ CancelListing(u, l)
      PROVE  MarketInv'
  BY <1>3, MarketUntouched DEF ListNFT, CancelListing, Begin, MarketInv, MarketTypeOK, NoTask
<1>4. ASSUME NEW u \in Traders, CreateAuction(u) PROVE MarketInv'
  BY <1>4, MarketUntouched DEF CreateAuction, Begin, MarketInv, MarketTypeOK, NoTask
<1>5. ASSUME NEW u \in Traders, ShowForSale(u) \/ HideFromSale(u) PROVE MarketInv'
  <2>1. /\ task' = [task EXCEPT ![u] = NoTask]
        /\ nft' \in [owner : Traders \cup {"none"}, forSale : BOOLEAN] /\ nft'.owner = nft.owner
        /\ UNCHANGED <<listings, auction, sales, lastBuyer, highest, dropped>>
    BY <1>1, <1>5 DEF ShowForSale, HideFromSale, Continue
  <2>2. MarketTypeOK'
    BY <2>1 DEF MarketInv, MarketTypeOK, NoTask
  <2> QED BY <2>1, <2>2, MarketUntouched
<1>6. ASSUME NEW u \in Traders, Abandon(u) PROVE MarketInv'
  BY <1>1, <1>6, MarketUntouched DEF Abandon, MarketInv, MarketTypeOK, NoTask
<1>7. ASSUME NEW u \in Traders, InsertListing(u) PROVE MarketInv'
  <2>1. MarketTypeOK'
    <3>1. listings' \in [Listings -> [seller : Traders \cup {"none"},
                                      status : {"none", "active", "sold", "cancelled"}]]
      BY <1>1, <1>7 DEF InsertListing
    <3>2. task' = [task EXCEPT ![u].op = "show"]
      BY <1>7 DEF InsertListing, Continue
    <3>3. UNCHANGED <<nft, auction, sales, lastBuyer, highest, dropped>>
      BY <1>7 DEF InsertListing, Continue
    <3> QED BY <3>1, <3>2, <3>3 DEF MarketInv, MarketTypeOK
  <2>2. \A l \in Listings :
            \/ listings'[l] = listings[l]
            \/ listings[l].status = "none" /\ listings'[l].status = "active"
    BY <1>1, <1>7 DEF InsertListing
  <2> QED BY <1>1, <1>7, <2>1, <2>2 DEF InsertListing, Continue, MarketInv, MarketExplained
<1>8. ASSUME NEW u \in Traders, NEW l \in Listings, BuyNFT(u, l) PROVE MarketInv'
  BY <1>1, <1>8 DEF BuyNFT, MarketInv, MarketTypeOK, MarketExplained
<1>9. ASSUME NEW u \in Traders, MarkCancelled(u) PROVE MarketInv'
  <2>1. task' = [task EXCEPT ![u].op = "hide"]
    BY <1>9 DEF MarkCancelled, Continue
  <2>2. listings' \in [Listings -> [seller : Traders \cup {"none"},
                                    status : {"none", "active", "sold", "cancelled"}]]
    <3> DEFINE l == task[u].of
    <3>1. listings' = [listings EXCEPT ![l].status = "cancelled"]
      BY <1>9 DEF MarkCancelled
    <3>2. \A k \in Listings : listings'[k] =
              IF k = l THEN [listings[k] EXCEPT !.status = "cancelled"] ELSE listings[k]
      BY <1>1, <3>1
    <3>3. listings' = [k \in Listings |-> listings'[k]]
      BY <1>1, <3>1
    <3> HIDE DEF l
    <3> QED BY <1>1, <3>2, <3>3
  <2>3. /\ UNCHANGED <<nft, auction, sales, lastBuyer, highest>>
        /\ dropped' = {l \in Listings : l \in dropped \/ (l = task[u].of /\ sales[l] = 0)}
    BY <1>9 DEF MarkCancelled, Continue
  <2>4. MarketTypeOK'
    BY <2>1, <2>2, <2>3 DEF MarketInv, MarketTypeOK
  <2>5. \A l \in Listings :
            listings'[l] = listings[l] \/ listings'[l].status = "cancelled"
    BY <1>1, <1>9 DEF MarkCancelled
  <2>6. \A l \in Listings :
            /\ listings'[l].status = "sold" => sales[l] = 1
            /\ listings'[l].status = "active" => sales[l] = 0
            /\ listings'[l].status = "none" => sales[l] = 0
    BY <2>5 DEF MarketInv, MarketExplained
  <2>7. \A l \in dropped' : listings'[l].status = "cancelled" /\ sales[l] = 0
    <3> SUFFICES ASSUME NEW l \in dropped'
                 PROVE  listings'[l].status = "cancelled" /\ sales[l] = 0
      OBVIOUS
    <3>1. l \in Listings /\ (l \in dropped \/ (l = task[u].of /\ sales[l] = 0))
      BY <2>3
    <3>2. CASE l \in dropped
      BY <2>5, <3>1, <3>2 DEF MarketInv, MarketExplained
    <3>3. CASE l = task[u].of /\ sales[l] = 0
      <4>1. listings' = [listings EXCEPT ![l].status = "cancelled"]
        BY <1>9, <3>3 DEF MarkCancelled
      <4> QED BY <1>1, <3>1, <3>3, <4>1
    <3> QED BY <3>1, <3>2, <3>3
  <2> QED BY <2>3, <2>4, <2>6, <2>7 DEF MarketInv, MarketExplained
<1>10. ASSUME NEW u \in Traders, NEW start \in 0 .. MaxBid, InsertAuction(u, start)
       PROVE  MarketInv'
  <2>1. MarketTypeOK'
    BY <1>1, <1>10 DEF InsertAuction, Continue, MarketInv, MarketTypeOK, NoTask
  <2> QED BY <1>1, <1>10, <2>1
          DEF InsertAuction, Continue, MarketInv, MarketExplained, NoAuction
<1>11. ASSUME NEW u \in Traders, NEW amount \in 0 .. MaxBid, PlaceBid(u, amount)
       PROVE  MarketInv'
  <2>1. amount > highest.bid
    BY <1>1, <1>11 DEF PlaceBid, MarketInv, MarketExplained
  <2>2. /\ auction' = [auction EXCEPT !.bid = amount, !.bidder = u]
        /\ highest' = [bid |-> amount, bidder |-> u]
        /\ UNCHANGED <<nft, listings, task, sales, lastBuyer, dropped>>
    BY <1>11, <2>1 DEF PlaceBid
  <2>3. /\ auction' \in [status : {"none", "active", "ended"}, start : 0 .. MaxBid,
                        bid : 0 .. MaxBid, bidder : Traders \cup {"none"}]
        /\ highest' \in [bid : 0 .. MaxBid, bidder : Traders \cup {"none"}]
    <3>1. amount \in 0 .. MaxBid /\ u \in Traders \cup {"none"}
      OBVIOUS
    <3>2. auction' = [status |-> auction.status, start |-> auction.start,
                      bid |-> amount, bidder |-> u]
      BY <1>1, <2>2
    <3> QED BY <1>1, <2>2, <3>1, <3>2
  <2>4. MarketTypeOK'
    BY <1>1, <2>2, <2>3 DEF MarketInv, MarketTypeOK
  <2> QED BY <1>1, <2>2, <2>4 DEF MarketInv, MarketExplained
<1>12. ASSUME EndAuction PROVE MarketInv'
  BY <1>1, <1>12 DEF EndAuction, MarketInv, MarketTypeOK, MarketExplained
<1>13. ASSUME UNCHANGED marketVars PROVE MarketInv'
  BY <1>13 DEF marketVars, MarketInv, MarketTypeOK, MarketExplained
<1> QED
  BY <1>2, <1>3, <1>4, <1>5, <1>6, <1>7, <1>8, <1>9, <1>10, <1>11, <1>12, <1>13 DEF MarketNext

(* For any traders and listings, in any interleaving of their statements:  *)
(* one sale a listing, the owner is the last buyer, the bid the highest.   *)
THEOREM Explained == MarketSpec => []MarketExplained
<1>1. MarketInv => MarketExplained
  BY DEF MarketInv
<1> QED
  BY <1>1, MarketInitially, MarketStep, PTL DEF MarketSpec

(***************************************************************************)
(* The pool: the square root                                               *)
(***************************************************************************)

(* The guesses stay between 0 and n. *)
LEMMA GuessInRange ==
    ASSUME NEW n \in Nat, NEW y \in 0 .. n, y \div 2 # 0
    PROVE  NextGuess(n, y) \in 0 .. n
<1> DEFINE h == y \div 2
           q == n \div h
<1>1. h \in Nat /\ h >= 1 /\ h <= n
  OBVIOUS
<1> HIDE DEF h
<1>2. q \in Nat /\ h * q <= n
  BY <1>1
<1> HIDE DEF q
<1>3. q <= n
  <2>1. (h - 1) * q >= 0 /\ h * q = (h - 1) * q + q
    BY <1>1, <1>2
  <2> QED BY <1>1, <1>2, <2>1
<1>4. (h + q) \div 2 \in 0 .. n
  BY <1>1, <1>2, <1>3
<1> QED
  BY <1>4 DEF NextGuess, h, q

(* What the recursive definition of SqrtBig says of the row x of f.        *)
SqrtRow(f, n, x) ==
    [y \in 0 .. n |-> IF y >= x THEN x
                      ELSE IF y \div 2 = 0 THEN 0
                      ELSE f[y][NextGuess(n, y)]]

(* A row of guesses is natural if the rows below it are: the loop only     *)
(* goes on with a smaller guess.                                           *)
LEMMA SqrtRowTyped ==
    ASSUME NEW n \in Nat, NEW f, NEW x \in 0 .. n,
           \A y \in 0 .. x - 1 : f[y] \in [0 .. n -> Nat]
    PROVE  SqrtRow(f, n, x) \in [0 .. n -> Nat]
<1>1. ASSUME NEW y \in 0 .. n, ~(y >= x), y \div 2 # 0
      PROVE  f[y][NextGuess(n, y)] \in Nat
  <2>1. y \in 0 .. x - 1 /\ NextGuess(n, y) \in 0 .. n
    BY <1>1, GuessInRange
  <2> QED BY <2>1
<1>2. ASSUME NEW y \in 0 .. n
      PROVE  (IF y >= x THEN x ELSE IF y \div 2 = 0 THEN 0
              ELSE f[y][NextGuess(n, y)]) \in Nat
  BY <1>1
<1> QED
  BY <1>2 DEF SqrtRow

(* And it looks at no other rows than those.                               *)
LEMMA SqrtRowLocal ==
    ASSUME NEW n \in Nat, NEW f, NEW g, NEW x \in 0 .. n,
           \A y \in 0 .. x - 1 : f[y] = g[y]
    PROVE  SqrtRow(f, n, x) = SqrtRow(g, n, x)
<1>1. ASSUME NEW y \in 0 .. n, ~(y >= x) PROVE f[y] = g[y]
  BY <1>1
<1> QED
  BY <1>1 DEF SqrtRow

(* So the recursion of sqrtBig has a solution, built row by row.           *)
LEMMA SqrtExists ==
    ASSUME NEW n \in Nat
    PROVE  \E s \in [0 .. n -> [0 .. n -> Nat]] :
              \A x \in 0 .. n : s[x] = SqrtRow(s, n, x)
<1> DEFINE Good(s, m) == \A x \in 0 .. m : s[x] = SqrtRow(s, n, x)
           G == {m \in 0 .. n : \E s \in [0 .. m -> [0 .. n -> Nat]] : Good(s, m)}
<1>1. 0 \in G
  <2> DEFINE s == [x \in 0 .. 0 |-> [y \in 0 .. n |-> 0]]
  <2>1. s \in [0 .. 0 -> [0 .. n -> Nat]]
    OBVIOUS
  <2>2. \A y \in 0 .. n : y >= 0
    OBVIOUS
  <2>3. s[0] = SqrtRow(s, n, 0)
    BY <2>2 DEF SqrtRow
  <2>4. Good(s, 0)
    BY <2>3
  <2> QED BY <2>1, <2>4
<1>2. ASSUME NEW i \in 1 .. n, i - 1 \in G PROVE i \in G
  <2>1. PICK s \in [0 .. i - 1 -> [0 .. n -> Nat]] : Good(s, i - 1)
    BY <1>2
  <2> DEFINE r == SqrtRow(s, n, i)
  <2>i. i \in 0 .. n /\ \A y \in 0 .. i - 1 : s[y] \in [0 .. n -> Nat]
    OBVIOUS
  <2>2. r \in [0 .. n -> Nat]
    BY <2>i, SqrtRowTyped
  <2> HIDE DEF r
  <2> DEFINE t == [j \in 0 .. i |-> IF j = i THEN r ELSE s[j]]
  <2>3. t \in [0 .. i -> [0 .. n -> Nat]]
    BY <2>2
  <2>4. \A j \in 0 .. i - 1 : t[j] = s[j]
    OBVIOUS
  <2>5. t[i] = r
    OBVIOUS
  <2> HIDE DEF t
  <2>6. ASSUME NEW x \in 0 .. i PROVE t[x] = SqrtRow(t, n, x)
    <3>1. SqrtRow(t, n, x) = SqrtRow(s, n, x)
      <4>1. x \in 0 .. n /\ \A y \in 0 .. x - 1 : t[y] = s[y]
        BY <2>4
      <4> QED BY <4>1, SqrtRowLocal
    <3>2. CASE x = i
      BY <2>5, <3>1, <3>2 DEF r
    <3>3. CASE x # i
      BY <2>1, <2>4, <3>1, <3>3
    <3> QED BY <3>2, <3>3
  <2>7. Good(t, i)
    BY <2>6
  <2> QED BY <2>i, <2>3, <2>7
<1>3. 0 .. n \subseteq G
  <2> HIDE DEF G
  <2> QED BY <1>1, <1>2, UpTo
<1>4. n \in G
  <2>1. n \in 0 .. n
    OBVIOUS
  <2> HIDE DEF G
  <2> QED BY <1>3, <2>1
<1> QED
  BY <1>4

(* sqrtBig returns a natural number, whatever it is given. *)
LEMMA SqrtBigType ==
    ASSUME NEW n \in Nat PROVE SqrtBig(n) \in Nat
<1> DEFINE Def(f) == [x \in 0 .. n |->
                        [y \in 0 .. n |-> IF y >= x THEN x
                                          ELSE IF y \div 2 = 0 THEN 0
                                          ELSE f[y][NextGuess(n, y)]]]
           f == CHOOSE f : f = Def(f)
<1>1. \A g : Def(g) = [x \in 0 .. n |-> SqrtRow(g, n, x)]
  BY DEF SqrtRow
<1>2. SqrtBig(n) = f[n][(n + 1) \div 2]
  BY DEF SqrtBig
<1>3. f = Def(f)
  <2>1. PICK s \in [0 .. n -> [0 .. n -> Nat]] : \A x \in 0 .. n : s[x] = SqrtRow(s, n, x)
    BY SqrtExists
  <2> HIDE DEF Def
  <2>2. s = Def(s)
    BY <1>1, <2>1
  <2> QED BY <2>2
<1> HIDE DEF f, Def
<1>4. \A x \in 0 .. n : f[x] = SqrtRow(f, n, x)
  BY <1>1, <1>3
<1> DEFINE G == {m \in 0 .. n : \A x \in 0 .. m : f[x] \in [0 .. n -> Nat]}
<1>5. 0 \in G
  <2>1. \A y \in 0 .. 0 - 1 : f[y] \in [0 .. n -> Nat]
    OBVIOUS
  <2>2. f[0] \in [0 .. n -> Nat]
    BY <1>4, <2>1, SqrtRowTyped
  <2> QED BY <2>2
<1>6. ASSUME NEW i \in 1 .. n, i - 1 \in G PROVE i \in G
  <2>1. \A y \in 0 .. i - 1 : f[y] \in [0 .. n -> Nat]
    BY <1>6
  <2>2. f[i] \in [0 .. n -> Nat]
    BY <1>4, <2>1, SqrtRowTyped
  <2>3. \A x \in 0 .. i : x = i \/ x \in 0 .. i - 1
    OBVIOUS
  <2> QED BY <2>1, <2>2, <2>3
<1>7. 0 .. n \subseteq G
  <2> HIDE DEF G
  <2> QED BY <1>5, <1>6, UpTo
<1>8. f[n] \in [0 .. n -> Nat]
  <2>1. n \in 0 .. n
    OBVIOUS
  <2>2. n \in G
    <3> HIDE DEF G
    <3> QED BY <1>7, <2>1
  <2> QED BY <2>1, <2>2
<1>9. (n + 1) \div 2 \in 0 .. n
  <2>1. CASE n = 0
    BY <2>1
  <2>2. CASE n >= 1
    BY <2>2
  <2> QED BY <2>1, <2>2
<1> QED
  BY <1>2, <1>8, <1>9

(***************************************************************************)
(* The pool: shares and what is minted                                     *)
(***************************************************************************)

(* A share is rounded down: it never takes more of a reserve than the LP   *)
(* tokens stand for, and takes everything exactly for all of them.         *)
LEMMA ShareBounds ==
    ASSUME NEW a \in Nat, NEW x \in Nat, NEW s \in Nat, a <= s, s > 0, x > 0
    PROVE  /\ (a * x) \div s \in 0 .. x
           /\ s * ((a * x) \div s) <= a * x
           /\ a = s <=> (a * x) \div s = x
<1> DEFINE p == a * x
           q == p \div s
<1>1. p \in Nat /\ p <= s * x /\ (a < s => p < s * x) /\ (a = s => p = s * x)
  <2>1. s * x = a * x + (s - a) * x /\ (s - a) * x >= 0 /\ (a < s => (s - a) * x > 0)
    OBVIOUS
  <2> QED BY <2>1
<1> HIDE DEF p
<1>2. q \in Nat /\ s * q <= p /\ p < s * (q + 1)
  BY <1>1
<1> HIDE DEF q
<1>3. q <= x
  <2>1. CASE q > x
    <3>1. s * q = s * x + s * (q - x) /\ s * (q - x) > 0
      BY <1>2, <2>1
    <3> QED BY <1>1, <1>2, <3>1
  <2> QED BY <1>2, <2>1
<1>4. a = s => q = x
  <2>1. CASE q < x /\ a = s
    <3>1. s * x = s * (q + 1) + s * (x - (q + 1)) /\ s * (x - (q + 1)) >= 0
      BY <1>2, <2>1
    <3> QED BY <1>1, <1>2, <2>1, <3>1
  <2> QED BY <1>2, <1>3, <2>1
<1>5. a < s => q # x
  BY <1>1, <1>2
<1> QED
  BY <1>2, <1>3, <1>4, <1>5 DEF p, q

(***************************************************************************)
(* The pool: the invariant                                                 *)
(***************************************************************************)

(* What makes PoolBacked last: a withdrawal in flight asks for something.  *)
RemovalsAsk ==
    \A r \in Removals : removal[r] # NoRemoval => removal[r].amount >= 1

PoolInv == PoolTypeOK /\ PoolBacked /\ RemovalsAsk

(* The types, one number at a time. *)
LEMMA PoolTypes ==
    ASSUME PoolTypeOK
    PROVE  /\ NumProviders \in Nat /\ MaxReserve \in Nat /\ MaxRaced \in Nat
           /\ reserve0 \in Int /\ reserve1 \in Int /\ supply \in Int
           /\ lpTokens \in [1 .. NumProviders -> Nat] /\ raced \in Nat
           /\ removal \in [Removals -> [amount : Nat, saw : Nat]]
           /\ \A r \in Removals : Requester[r] \in 1 .. NumProviders
<1>1. Bounded \subseteq Int
  BY PoolAssumption DEF Bounded
<1>2. reserve0 \in Int /\ reserve1 \in Int /\ supply \in Int
  BY <1>1 DEF PoolTypeOK
<1>3. /\ NumProviders \in Nat /\ MaxReserve \in Nat /\ MaxRaced \in Nat
      /\ \A r \in Removals : Requester[r] \in 1 .. NumProviders
  BY PoolAssumption
<1>4. /\ lpTokens \in [1 .. NumProviders -> Nat] /\ raced \in Nat
      /\ removal \in [Removals -> [amount : Nat, saw : Nat]]
  BY <1>3 DEF PoolTypeOK, Providers
<1> QED
  BY <1>2, <1>3, <1>4

(* An empty pool has no tokens out and no removal in flight.               *)
LEMMA PoolInitially == PoolInit => PoolInv
<1> SUFFICES ASSUME PoolInit PROVE PoolInv
  OBVIOUS
<1>1. Sum(lpTokens, NumProviders) = 0
  <2>1. /\ NumProviders \in Nat /\ lpTokens \in [1 .. NumProviders -> Int]
        /\ \A i \in 1 .. NumProviders : lpTokens[i] = 0
    BY PoolAssumption DEF PoolInit, Providers
  <2> QED BY <2>1, SumZero
<1>2. PoolTypeOK
  <2>1. 0 \in Bounded /\ 0 \in 0 .. MaxRaced
    BY PoolAssumption DEF Bounded
  <2> QED BY <2>1 DEF PoolInit, PoolTypeOK, NoRemoval
<1> QED
  BY <1>1, <1>2 DEF PoolInit, PoolInv, PoolBacked, RemovalsAsk

(* big.Int's Div by a positive number rounds down. *)
LEMMA QuotientBelow ==
    ASSUME NEW n \in Int, NEW y \in Int, y # 0
    PROVE  Quotient(n, y) \in Int /\ (y > 0 => Quotient(n, y) * y <= n)
<1>1. CASE y > 0
  <2>1. n \div y \in Int /\ (n \div y) * y <= n
    BY <1>1
  <2> QED BY <1>1, <2>1 DEF Quotient
<1>2. CASE y < 0
  <2> DEFINE z == -y
  <2>1. z \in Int /\ z > 0
    BY <1>2
  <2> HIDE DEF z
  <2>2. n \div z \in Int
    BY <2>1
  <2> QED BY <1>2, <2>2 DEF Quotient, z
<1> QED BY <1>1, <1>2

(* What is minted, and what that leaves of the worth of an LP token.       *)
LEMMA MintedFairly ==
    ASSUME PoolTypeOK, NEW a0 \in Deposits, NEW a1 \in Deposits,
           supply # 0 => reserve0 # 0 /\ reserve1 # 0, Minted(a0, a1) > 0
    PROVE  /\ Minted(a0, a1) \in Nat
           /\ supply > 0 => /\ Minted(a0, a1) * reserve0 <= a0 * supply
                            /\ Minted(a0, a1) * reserve1 <= a1 * supply
<1>1. /\ a0 \in Nat /\ a1 \in Nat /\ supply \in Int
      /\ reserve0 \in Int /\ reserve1 \in Int
  BY PoolTypes, PoolAssumption
<1>2. CASE supply = 0
  <2>1. a0 * a1 \in Nat
    BY <1>1
  <2> QED BY <1>2, <2>1, SqrtBigType DEF Minted
<1>3. CASE supply # 0
  <2> DEFINE p0 == a0 * supply
             p1 == a1 * supply
             m0 == Quotient(p0, reserve0)
             m1 == Quotient(p1, reserve1)
             m == Minted(a0, a1)
  <2>1. p0 \in Int /\ p1 \in Int /\ (supply > 0 => p0 >= 0 /\ p1 >= 0)
    BY <1>1
  <2>2. m = Minimum(m0, m1)
    BY <1>3 DEF Minted
  <2>3. m > 0
    OBVIOUS
  <2> HIDE DEF p0, p1, m
  <2>4. /\ m0 \in Int /\ (reserve0 > 0 => m0 * reserve0 <= p0)
        /\ m1 \in Int /\ (reserve1 > 0 => m1 * reserve1 <= p1)
    BY <1>1, <1>3, <2>1, QuotientBelow
  <2> HIDE DEF m0, m1
  <2>5. m \in Nat /\ m <= m0 /\ m <= m1
    BY <2>2, <2>3, <2>4 DEF Minimum
  <2>6. ASSUME NEW x \in Int, NEW q \in Int, NEW p \in Int,
               x # 0, m <= q, x > 0 => q * x <= p, p >= 0
        PROVE  m * x <= p
    <3>1. CASE x > 0
      <4>1. m * x <= q * x /\ m * x \in Int /\ q * x \in Int
        BY <2>5, <2>6, <3>1
      <4> QED BY <2>6, <3>1, <4>1
    <3>2. CASE x < 0
      <4>1. m * x <= 0 /\ m * x \in Int
        BY <2>5, <3>2
      <4> QED BY <2>6, <4>1
    <3> QED BY <2>6, <3>1, <3>2
  <2>7. supply > 0 => m * reserve0 <= p0 /\ m * reserve1 <= p1
    BY <1>1, <1>3, <2>1, <2>4, <2>5, <2>6
  <2> QED BY <2>5, <2>7 DEF m, p0, p1
<1> QED
  BY <1>2, <1>3

(* The worth of an LP token, in either token, does not fall.               *)
WorthKept ==
    supply > 0 => /\ reserve0' * supply >= reserve0 * supply'
                  /\ reserve1' * supply >= reserve1 * supply'

(* A deposit. *)
LEMMA PoolAdds ==
    ASSUME PoolInv, NEW u \in Providers, NEW a0 \in Deposits, NEW a1 \in Deposits,
           AddLiquidity(u, a0, a1)
    PROVE  PoolInv' /\ WorthKept
<1> DEFINE m == Minted(a0, a1)
<1>1. /\ m \in Nat /\ m > 0
      /\ supply > 0 => m * reserve0 <= a0 * supply /\ m * reserve1 <= a1 * supply
  BY MintedFairly DEF AddLiquidity, PoolInv
<1>2. /\ reserve0' = reserve0 + a0 /\ reserve1' = reserve1 + a1 /\ supply' = supply + m
      /\ lpTokens' = [lpTokens EXCEPT ![u] = lpTokens[u] + m]
      /\ removal' = removal /\ raced' = raced
      /\ {reserve0', reserve1', supply'} \subseteq Bounded
  BY DEF AddLiquidity
<1> HIDE DEF m
<1>3. /\ a0 \in Nat /\ a0 > 0 /\ a1 \in Nat /\ a1 > 0
      /\ NumProviders \in Nat
      /\ reserve0 \in Int /\ reserve1 \in Int /\ supply \in Int
      /\ lpTokens \in [1 .. NumProviders -> Nat] /\ u \in 1 .. NumProviders
  BY PoolTypes, PoolAssumption DEF PoolInv, Providers
<1>4. lpTokens' \in [1 .. NumProviders -> Nat]
  BY <1>1, <1>2, <1>3
<1>5. PoolTypeOK'
  BY <1>2, <1>4 DEF PoolInv, PoolTypeOK, Providers
<1>6. Sum(lpTokens', NumProviders) = Sum(lpTokens, NumProviders) + m
  <2>1. lpTokens' \in [1 .. NumProviders -> Int] /\ lpTokens \in [1 .. NumProviders -> Int]
    BY <1>3, <1>4
  <2>2. \A j \in 1 .. NumProviders : j # u => lpTokens'[j] = lpTokens[j]
    BY <1>2, <1>3
  <2>3. Sum(lpTokens', NumProviders) = Sum(lpTokens, NumProviders) + lpTokens'[u] - lpTokens[u]
    BY <1>3, <2>1, <2>2, SumUpdate
  <2>4. lpTokens'[u] = lpTokens[u] + m /\ lpTokens[u] \in Nat
    BY <1>2, <1>3
  <2>5. Sum(lpTokens, NumProviders) \in Int
    BY <1>3, <2>1, SumType
  <2> QED BY <1>1, <2>3, <2>4, <2>5
<1>7. PoolBacked'
  <2> SUFFICES ASSUME raced = 0
               PROVE  /\ Sum(lpTokens', NumProviders) = supply'
                      /\ supply' > 0 /\ reserve0' > 0 /\ reserve1' > 0
    BY <1>2, <1>3 DEF PoolBacked
  <2>1. /\ Sum(lpTokens, NumProviders) = supply
        /\ supply >= 0 /\ reserve0 >= 0 /\ reserve1 >= 0
    BY <1>3 DEF PoolInv, PoolBacked
  <2> QED BY <1>1, <1>2, <1>3, <1>6, <2>1
<1>8. RemovalsAsk'
  BY <1>2 DEF PoolInv, RemovalsAsk
<1>9. WorthKept
  <2> SUFFICES ASSUME supply > 0
               PROVE  /\ (reserve0 + a0) * supply >= reserve0 * (supply + m)
                      /\ (reserve1 + a1) * supply >= reserve1 * (supply + m)
    BY <1>2 DEF WorthKept
  <2>1. ASSUME NEW x \in Int, NEW a \in Nat, m * x <= a * supply
        PROVE  (x + a) * supply >= x * (supply + m)
    <3>1. (x + a) * supply = x * supply + a * supply /\ x * (supply + m) = x * supply + m * x
      BY <1>1, <1>3
    <3>2. x * supply \in Int /\ a * supply \in Int /\ m * x \in Int
      BY <1>1, <1>3
    <3> QED BY <2>1, <3>1, <3>2
  <2> QED BY <1>1, <1>3, <2>1
<1> QED
  BY <1>5, <1>7, <1>8, <1>9 DEF PoolInv

(* A withdrawal. *)
LEMMA PoolRemoves ==
    ASSUME PoolInv, NEW r \in Removals, CommitRemoval(r)
    PROVE  PoolInv' /\ WorthKept
<1> DEFINE a == removal[r].amount
           u == Requester[r]
           q0 == Share(a, reserve0)
           q1 == Share(a, reserve1)
<1>1. /\ removal[r] # NoRemoval /\ a <= removal[r].saw /\ supply # 0
      /\ reserve0' = reserve0 - q0 /\ reserve1' = reserve1 - q1 /\ supply' = supply - a
      /\ lpTokens' = [lpTokens EXCEPT ![u] = IF lpTokens[u] = 0 THEN 0
                                             ELSE removal[r].saw - a]
      /\ removal' = [removal EXCEPT ![r] = NoRemoval]
      /\ {reserve0', reserve1', supply'} \subseteq Bounded
      /\ raced' = raced + (IF Stale(r) THEN 1 ELSE 0) /\ raced' <= MaxRaced
  BY DEF CommitRemoval, Enough
<1>2. /\ NumProviders \in Nat /\ MaxRaced \in Nat /\ u \in 1 .. NumProviders
      /\ reserve0 \in Int /\ reserve1 \in Int /\ supply \in Int /\ raced \in Nat
      /\ lpTokens \in [1 .. NumProviders -> Nat] /\ a \in Nat /\ removal[r].saw \in Nat
      /\ removal \in [Removals -> [amount : Nat, saw : Nat]]
  BY PoolTypes DEF PoolInv
<1>3. a >= 1
  BY <1>1 DEF PoolInv, RemovalsAsk
<1>4. /\ q0 = Quotient(a * reserve0, supply) /\ q1 = Quotient(a * reserve1, supply)
      /\ q0 \in Int /\ (supply > 0 => q0 * supply <= a * reserve0)
      /\ q1 \in Int /\ (supply > 0 => q1 * supply <= a * reserve1)
  <2>1. a * reserve0 \in Int /\ a * reserve1 \in Int
    BY <1>2
  <2> QED BY <1>1, <1>2, <2>1, QuotientBelow DEF Share
<1>5. (raced' = 0 => raced = 0 /\ ~Stale(r)) /\ raced' \in 0 .. MaxRaced
  BY <1>1, <1>2
<1> HIDE DEF a, u, q0, q1
<1>6. lpTokens' \in [1 .. NumProviders -> Nat]
  BY <1>1, <1>2
<1>7. PoolTypeOK'
  <2>1. removal' \in [Removals -> [amount : Nat, saw : Nat]]
    BY <1>1, <1>2 DEF NoRemoval
  <2> QED BY <1>1, <1>5, <1>6, <2>1 DEF PoolTypeOK, Providers
<1>8. PoolBacked'
  <2> SUFFICES ASSUME raced' = 0
               PROVE  /\ Sum(lpTokens', NumProviders) = supply'
                      /\ \/ supply' = 0 /\ reserve0' = 0 /\ reserve1' = 0
                         \/ supply' > 0 /\ reserve0' > 0 /\ reserve1' > 0
    BY DEF PoolBacked
  <2>1. raced = 0 /\ removal[r].saw = lpTokens[u]
    BY <1>5 DEF Stale, u
  <2>2. /\ supply = Sum(lpTokens, NumProviders)
        /\ supply > 0 /\ reserve0 > 0 /\ reserve1 > 0
    BY <1>1, <2>1 DEF PoolInv, PoolBacked
  <2>3. lpTokens[u] <= supply /\ lpTokens[u] \in Nat /\ a <= supply
    <3>1. lpTokens[u] <= supply
      BY <1>2, <2>2, SumCovers
    <3>2. lpTokens[u] \in Nat /\ a <= lpTokens[u]
      BY <1>1, <1>2, <2>1
    <3> QED BY <1>2, <3>1, <3>2
  <2>4. /\ q0 \in 0 .. reserve0 /\ (a = supply <=> q0 = reserve0)
        /\ q1 \in 0 .. reserve1 /\ (a = supply <=> q1 = reserve1)
    <3>1. ASSUME NEW x \in Nat, x > 0
          PROVE  Quotient(a * x, supply) \in 0 .. x
                 /\ (a = supply <=> Quotient(a * x, supply) = x)
      <4>1. Quotient(a * x, supply) = (a * x) \div supply
        BY <2>2 DEF Quotient
      <4>2. a \in Nat /\ supply \in Nat /\ a <= supply /\ supply > 0
        BY <1>2, <2>2, <2>3
      <4>3. /\ (a * x) \div supply \in 0 .. x
            /\ a = supply <=> (a * x) \div supply = x
        BY <3>1, <4>2, ShareBounds
      <4> QED BY <4>1, <4>3
    <3>2. reserve0 \in Nat /\ reserve1 \in Nat
      BY <1>2, <2>2
    <3> QED BY <1>4, <2>2, <3>1, <3>2
  <2>5. lpTokens' = [lpTokens EXCEPT ![u] = lpTokens[u] - a]
    <3>1. lpTokens[u] # 0 /\ removal[r].saw - a = lpTokens[u] - a
      BY <1>1, <1>2, <1>3, <2>1
    <3> QED BY <1>1, <3>1
  <2>6. Sum(lpTokens', NumProviders) = Sum(lpTokens, NumProviders) - a
    <3>1. lpTokens' \in [1 .. NumProviders -> Int] /\ lpTokens \in [1 .. NumProviders -> Int]
      BY <1>2, <1>6
    <3>2. \A j \in 1 .. NumProviders : j # u => lpTokens'[j] = lpTokens[j]
      BY <1>2, <2>5
    <3>3. Sum(lpTokens', NumProviders) = Sum(lpTokens, NumProviders) + lpTokens'[u] - lpTokens[u]
      BY <1>2, <3>1, <3>2, SumUpdate
    <3>4. lpTokens'[u] = lpTokens[u] - a
      BY <1>2, <2>5
    <3> QED BY <1>2, <2>2, <3>3, <3>4
  <2> QED BY <1>1, <1>2, <2>2, <2>3, <2>4, <2>6
<1>9. RemovalsAsk'
  <2>1. \A s \in Removals : removal'[s] # NoRemoval => removal'[s] = removal[s]
    BY <1>1, <1>2
  <2> QED BY <2>1 DEF PoolInv, RemovalsAsk
<1>10. WorthKept
  <2> SUFFICES ASSUME supply > 0
               PROVE  /\ (reserve0 - q0) * supply >= reserve0 * (supply - a)
                      /\ (reserve1 - q1) * supply >= reserve1 * (supply - a)
    BY <1>1 DEF WorthKept
  <2>1. ASSUME NEW x \in Int, NEW q \in Int, q * supply <= a * x
        PROVE  (x - q) * supply >= x * (supply - a)
    <3>1. (x - q) * supply = x * supply - q * supply /\ x * (supply - a) = x * supply - a * x
      BY <1>2, <2>1
    <3>2. x * supply \in Int /\ q * supply \in Int /\ a * x \in Int
      BY <1>2, <2>1
    <3> QED BY <2>1, <3>1, <3>2
  <2> QED BY <1>2, <1>4, <2>1
<1> QED
  BY <1>7, <1>8, <1>9, <1>10 DEF PoolInv

(* A step of the pool keeps what backs the LP tokens, and their worth.     *)
LEMMA PoolStep ==
    ASSUME PoolInv, [PoolNext]_poolVars PROVE PoolInv' /\ WorthKept
<1>0. reserve0 \in Int /\ reserve1 \in Int /\ supply \in Int
  BY PoolTypes DEF PoolInv
<1>1. ASSUME UNCHANGED <<reserve0, reserve1, supply, lpTokens, raced>>,
             removal' \in [Removals -> [amount : Nat, saw : Nat]], RemovalsAsk'
      PROVE  PoolInv' /\ WorthKept
  <2>1. PoolTypeOK' /\ PoolBacked'
    BY <1>1 DEF PoolInv, PoolTypeOK, PoolBacked
  <2>2. WorthKept
    BY <1>0, <1>1 DEF WorthKept
  <2> QED BY <1>1, <2>1, <2>2 DEF PoolInv
<1>2. ASSUME NEW u \in Providers, NEW a0 \in Deposits, NEW a1 \in Deposits,
             AddLiquidity(u, a0, a1)
      PROVE  PoolInv' /\ WorthKept
  BY <1>2, PoolAdds
<1>3. ASSUME NEW r \in Removals, NEW amount \in Burns, StartRemoval(r, amount)
      PROVE  PoolInv' /\ WorthKept
  <2> DEFINE seen == [amount |-> amount, saw |-> lpTokens[Requester[r]]]
  <2>1. /\ removal' = [removal EXCEPT ![r] = seen]
        /\ UNCHANGED <<reserve0, reserve1, supply, lpTokens, raced>>
    BY <1>3 DEF StartRemoval
  <2>2. /\ removal \in [Removals -> [amount : Nat, saw : Nat]]
        /\ lpTokens[Requester[r]] \in Nat /\ amount \in Nat /\ amount >= 1
    BY PoolTypes, PoolAssumption DEF PoolInv
  <2>3. seen \in [amount : Nat, saw : Nat] /\ seen.amount >= 1
    BY <2>2
  <2> HIDE DEF seen
  <2>4. removal' \in [Removals -> [amount : Nat, saw : Nat]]
        /\ \A s \in Removals : removal'[s] = IF s = r THEN seen ELSE removal[s]
    BY <2>1, <2>2, <2>3
  <2>5. RemovalsAsk'
    BY <2>3, <2>4 DEF PoolInv, RemovalsAsk
  <2> QED BY <1>1, <2>1, <2>4, <2>5
<1>4. ASSUME NEW r \in Removals, CommitRemoval(r) PROVE PoolInv' /\ WorthKept
  BY <1>4, PoolRemoves
<1>5. ASSUME NEW r \in Removals, RefuseRemoval(r) PROVE PoolInv' /\ WorthKept
  <2>1. /\ removal' = [removal EXCEPT ![r] = NoRemoval]
        /\ UNCHANGED <<reserve0, reserve1, supply, lpTokens, raced>>
    BY <1>5 DEF RefuseRemoval
  <2>2. removal' \in [Removals -> [amount : Nat, saw : Nat]]
        /\ \A s \in Removals : removal'[s] = IF s = r THEN NoRemoval ELSE removal[s]
    BY <2>1, PoolTypes DEF PoolInv, NoRemoval
  <2>3. RemovalsAsk'
    BY <2>2 DEF PoolInv, RemovalsAsk
  <2> QED BY <1>1, <2>1, <2>2, <2>3
<1>6. CASE UNCHANGED poolVars
  <2>1. UNCHANGED <<reserve0, reserve1, supply, lpTokens, removal, raced>>
    BY <1>6 DEF poolVars
  <2>2. removal' \in [Removals -> [amount : Nat, saw : Nat]] /\ RemovalsAsk'
    BY <2>1, PoolTypes DEF PoolInv, RemovalsAsk
  <2> QED BY <1>1, <2>1, <2>2
<1> QED
  BY <1>2, <1>3, <1>4, <1>5, <1>6 DEF PoolNext

(* As long as no removal has acted on tokens its user changed meanwhile,   *)
(* the LP tokens of any number of users are the supply and are backed by   *)
(* both reserves, however deposits and removals interleave.                *)
THEOREM Backed == PoolSpec => []PoolBacked
<1>1. PoolInv /\ [PoolNext]_poolVars => PoolInv'
  BY PoolStep
<1>2. PoolInv => PoolBacked
  BY DEF PoolInv
<1> QED
  BY <1>1, <1>2, PoolInitially, PTL DEF PoolSpec

(* Rounding favours those who stay, whatever is deposited and withdrawn    *)
(* and in whatever order, also by removals that race.                      *)
THEOREM Undiluted == PoolSpec => NeverDiluted
<1>1. PoolInv /\ [PoolNext]_poolVars =>
        PoolInv' /\ [supply > 0 => /\ reserve0' * supply >= reserve0 * supply'
                                   /\ reserve1' * supply >= reserve1 * supply']_poolVars
  BY PoolStep DEF WorthKept
<1> QED
  BY <1>1, PoolInitially, PTL DEF PoolSpec, NeverDiluted

(***************************************************************************)
(* Types                                                                   *)
(***************************************************************************)

(* A runner writes a fill and the filled amount together, so they agree.   *)
TwapInv == TwapTypeOK /\ filled = fills

(* Nothing is filled at first. *)
LEMMA TwapInitially == TwapInit => TwapInv
<1>1. 0 \in 0 .. MaxTwapFaults /\ 0 \in 0 .. Slices
  BY TwapAssumption
<1> QED
  BY <1>1 DEF TwapInit, TwapInv, TwapTypeOK

(* Every step of the runner, the handlers and the process. *)
LEMMA TwapStep == TwapInv /\ [TwapNext]_twapVars => TwapInv'
<1> SUFFICES ASSUME TwapInv, [TwapNext]_twapVars PROVE TwapInv'
  OBVIOUS
<1>f. TwapFault => twapFaults' \in 0 .. MaxTwapFaults
  BY TwapAssumption DEF TwapFault, TwapInv, TwapTypeOK
<1> USE DEF TwapInv, TwapTypeOK
<1>1. CASE CreateOrder \/ CancelOrder \/ EndTimePasses \/ IntervalPasses
  BY <1>1 DEF CreateOrder, CancelOrder, EndTimePasses, IntervalPasses
<1>2. CASE SeeStop \/ SliceOfDone \/ SliceCompletes \/ SliceUnpriced
  BY <1>2 DEF SeeStop, SliceOfDone, SliceCompletes, SliceUnpriced
<1>3. CASE SliceFills
  BY <1>3, TwapAssumption DEF SliceFills
<1>4. CASE SliceUnread \/ SliceUnwritten
  BY <1>4, <1>f DEF SliceUnread, SliceUnwritten
<1>5. CASE ProcessEnds \/ ResumeActive \/ ResumeUnread
  BY <1>5, <1>f DEF ProcessEnds, ResumeActive, ResumeUnread
<1>6. CASE UNCHANGED twapVars
  BY <1>6 DEF twapVars
<1> QED
  BY <1>1, <1>2, <1>3, <1>4, <1>5, <1>6 DEF TwapNext, RunnerStep

(* All six services keep their types, the pool also where removals race.   *)
THEOREM ServicesTypeCorrect == ServicesSpec => []ServicesTypeOK
<1> DEFINE Inv == PacketInv /\ PoolInv /\ PayoutInv /\ TwapInv /\ TimelockInv /\ MarketInv
<1>1. ServicesInit => Inv
  BY PacketInitially, PoolInitially, PayoutInitially, TwapInitially, TimelockInitially,
     MarketInitially DEF ServicesInit
<1>2. Inv /\ [ServicesNext]_servicesVars => Inv'
  <2> SUFFICES ASSUME Inv, [ServicesNext]_servicesVars PROVE Inv'
    OBVIOUS
  <2>1. /\ [PacketNext]_packetVars /\ [PoolNext]_poolVars /\ [PayoutNext]_payoutVars
        /\ [TwapNext]_twapVars /\ [TimelockNext]_timelockVars /\ [MarketNext]_marketVars
    BY DEF ServicesNext, servicesVars
  <2> QED
    BY <2>1, PacketStep, PoolStep, PayoutStep, TwapStep, TimelockStep, MarketStep
<1>3. Inv => ServicesTypeOK
  BY DEF PacketInv, PoolInv, PayoutInv, TwapInv, TimelockInv, MarketInv, ServicesTypeOK
<1> QED
  BY <1>1, <1>2, <1>3, PTL DEF ServicesSpec

=============================================================================
