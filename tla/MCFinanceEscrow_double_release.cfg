CONSTANTS
    Users = {alice, bob}
    KycVerified = {alice, bob}
    Currencies = {usdt}
    Parts = 4
    MaxDust = 1
    Amounts = {4}
    Opening = 2
    Tolerance = 0
    Features = {}
    Workers = {w1, w2}
    MaxOrders = 2
    Nobody = Nobody
SPECIFICATION EscrowSpec
SYMMETRY FullSymmetry
INVARIANTS NoDoubleRelease
