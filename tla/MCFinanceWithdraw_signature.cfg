CONSTANTS
    Users = {alice}
    KycVerified = {alice}
    Currencies = {usdt}
    Parts = 4
    MaxDust = 1
    Amounts = {4}
    Opening = 1
    Tolerance = 0
    Features = {}
    Workers = {w1}
    MaxWithdrawals = 1
SPECIFICATION WithdrawSpec
INVARIANT UntamperedVerifies
