CONSTANTS
    Users = {alice, bob}
    KycVerified = {alice, bob}
    Currencies = {btc, usdt}
    Parts = 4
    MaxDust = 2
    Amounts = {1, 6}
    Opening = 2
    Tolerance = 8
    Features = {"convert"}
    Workers = {w1}
    Rates = {1, 2}
SPECIFICATION ConvertSpec
SYMMETRY FullSymmetry
INVARIANTS ConvertTypeOK OrdersExplainBalances EntriesExplainBalances
