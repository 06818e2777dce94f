------------------------------ MODULE Services ------------------------------
(***************************************************************************)
(* The small services side by side.  They share no state: one of them      *)
(* runs, chosen at the start, and the others stay as they are.             *)
(***************************************************************************)
EXTENDS RedPacket, LiquidityPool, Payouts, Twap, Timelock, NftMarket

VARIABLE running    \* the service that runs

servicesVars ==
    <<running, packetVars, poolVars, payoutVars, twapVars, timelockVars, marketVars>>

ServicesInit ==
    /\ running \in {"packet", "pool", "payouts", "twap", "timelock", "market"}
    /\ PacketInit /\ PoolInit /\ PayoutInit /\ TwapInit /\ TimelockInit /\ MarketInit

ServicesNext ==
    /\ UNCHANGED running
    /\ \/ /\ running = "packet" /\ PacketNext
          /\ UNCHANGED <<poolVars, payoutVars, twapVars, timelockVars, marketVars>>
       \/ /\ running = "pool" /\ PoolNext
          /\ UNCHANGED <<packetVars, payoutVars, twapVars, timelockVars, marketVars>>
       \/ /\ running = "payouts" /\ PayoutNext
          /\ UNCHANGED <<packetVars, poolVars, twapVars, timelockVars, marketVars>>
       \/ /\ running = "twap" /\ TwapNext
          /\ UNCHANGED <<packetVars, poolVars, payoutVars, timelockVars, marketVars>>
       \/ /\ running = "timelock" /\ TimelockNext
          /\ UNCHANGED <<packetVars, poolVars, payoutVars, twapVars, marketVars>>
       \/ /\ running = "market" /\ MarketNext
          /\ UNCHANGED <<packetVars, poolVars, payoutVars, twapVars, timelockVars>>

ServicesSpec ==
    /\ ServicesInit /\ [][ServicesNext]_servicesVars
    /\ running = "twap" => TwapFairness

ServicesTypeOK ==
    /\ PacketTypeOK /\ PoolTypeOK /\ PayoutTypeOK
    /\ TwapTypeOK /\ TimelockTypeOK /\ MarketTypeOK

=============================================================================
