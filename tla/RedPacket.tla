------------------------------ MODULE RedPacket ------------------------------
(***************************************************************************)
(* One red packet (src/go/red_packets_service/redpacket/redpacket.go): an  *)
(* amount split among the first claimers, in equal or in random shares.    *)
(* A claim is one transaction that holds the packet's row throughout, so   *)
(* it is one action; every share is drawn by the claim itself from what is *)
(* left, and the last claimer takes the rest.                              *)
(***************************************************************************)
EXTENDS Sums

CONSTANTS
    NumClaimers,    \* users who may claim
    MaxTotal        \* bound: the amount of a packet

ASSUME PacketAssumption == NumClaimers \in Nat /\ MaxTotal \in Nat \ {0}

VARIABLES
    packet,         \* the red_packets row
    claims          \* amount of each user's red_packet_claims row, 0 for none

packetVars == <<packet, claims>>

Claimers == 1 .. NumClaimers

Packet ==
    [status : {"none", "active", "expired", "completed"},
     kind : {"fixed", "random"}, total : 0 .. MaxTotal, quantity : 0 .. MaxTotal,
     remaining : 0 .. MaxTotal, left : 0 .. MaxTotal]

NoPacket ==
    [status |-> "none", kind |-> "fixed", total |-> 0, quantity |-> 0,
     remaining |-> 0, left |-> 0]

(* Every packet has at least one unit for each of its shares. *)
CreateRedPacket(kind, total, quantity) ==
    /\ packet.status = "none"
    /\ quantity <= total
    /\ packet' = [status |-> "active", kind |-> kind, total |-> total,
                  quantity |-> quantity, remaining |-> total, left |-> quantity]
    /\ UNCHANGED claims

(* Mutant of RandomShares: up to three times the average.                  *)
RandomSharesThrice(remaining, left) ==
    IF left = 1 THEN {remaining} ELSE 1 .. 3 * (remaining \div left)

(* A draw below twice the average, raised to one; the last share is all.   *)
RandomShares(remaining, left) ==
    IF left = 1 THEN {remaining}
    ELSE {1} \cup 2 .. (2 * (remaining \div left) - 1)

FixedShare(remaining, left) == remaining \div left

Shares ==
    IF packet.kind = "fixed" THEN {FixedShare(packet.remaining, packet.left)}
    ELSE RandomShares(packet.remaining, packet.left)

Raised(share) == IF share <= 0 THEN 1 ELSE share

Claim(u) ==
    /\ packet.status = "active" /\ packet.left > 0
    /\ claims[u] = 0
    /\ \E share \in Shares :
          /\ claims' = [claims EXCEPT ![u] = Raised(share)]
          /\ packet' = [packet EXCEPT
                !.remaining = @ - Raised(share),
                !.left = @ - 1,
                !.status = IF packet.left - 1 <= 0 THEN "completed" ELSE @]

(* A claim after expired_at marks the packet and is refused. *)
ClaimLate ==
    /\ packet.status = "active"
    /\ packet' = [packet EXCEPT !.status = "expired"]
    /\ UNCHANGED claims

PacketInit ==
    /\ packet = NoPacket
    /\ claims = [u \in Claimers |-> 0]

PacketNext ==
    \/ \E kind \in {"fixed", "random"}, total, quantity \in 1 .. MaxTotal :
          CreateRedPacket(kind, total, quantity)
    \/ \E u \in Claimers : Claim(u)
    \/ ClaimLate

PacketSpec == PacketInit /\ [][PacketNext]_packetVars

PacketTypeOK ==
    /\ packet \in Packet
    /\ claims \in [Claimers -> 0 .. MaxTotal]

(* Whatever shares were drawn, in whatever order users came: the claims    *)
(* and what remains add up to the packet's amount, a unit remains for each *)
(* share still to be claimed, and when the shares are gone so is the       *)
(* amount (Claim draws every share from what its predecessors left).       *)
PacketAccounted ==
    /\ packet.remaining + Sum(claims, NumClaimers) = packet.total
    /\ packet.remaining >= packet.left
    /\ packet.left = 0 => packet.remaining = 0

=============================================================================
