CONSTANTS
    Users = {alice}
    KycVerified = {alice}
    Currencies = {btc, usdt}
    Parts = 4
    MaxDust = 1
    Amounts = {4, 6}
    Opening = 2
    Tolerance = 0
    Features = {"convert"}
    Workers = {w1}
    Rates = {1, 2}
SPECIFICATION ConvertSpec
SYMMETRY FullSymmetry
INVARIANTS ConvertJournalBalances
