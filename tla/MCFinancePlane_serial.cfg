CONSTANTS
    Users = {alice, bob}
    KycVerified = {alice, bob}
    Currencies = {usdt}
    Parts = 4
    MaxDust = 1
    Amounts = {4, 6}
    Opening = 3
    Tolerance = 0
    Features = {}
    Workers = {w1}
    MaxWithdrawals = 1
    MaxOrders = 1
    Nobody = Nobody
SPECIFICATION PlaneFairSpec
INVARIANT PlaneHoldsCovered
PROPERTIES QueuedIsDecided ImplementsPromise
