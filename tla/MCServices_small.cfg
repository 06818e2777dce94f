CONSTANTS
    NumClaimers = 3
    MaxTotal = 6
    NumProviders = 2
    Removals = {1, 2}
    Requester <- Requesters
    Deposits = {1, 4}
    Burns = {1, 2}
    MaxReserve = 4
    MaxRaced = 1
    Withdrawals = {"w1", "w2"}
    Jobs = {"j1", "j2"}
    MaxPaid = 2
    Slices = 3
    MaxTwapFaults = 3
    Calls = {"c1", "c2"}
    MaxBroadcasts = 2
    Traders = {"alice", "bob"}
    Listings = {"l1", "l2"}
    MaxBid = 3
SPECIFICATION ServicesSpec
INVARIANTS ServicesTypeOK PacketAccounted PoolBacked PayoutsCosigned NoFabricatedExecution MarketExplained
PROPERTIES NeverDiluted 
CHECK_DEADLOCK FALSE
