CONSTANTS
    Users = {alice, bob}
    KycVerified = {alice, bob}
    Currencies = {usdt}
    Parts = 4
    MaxDust = 1
    Amounts = {4, 6}
    Opening = 2
    Tolerance = 0
    Features = {"withdraw"}
    Workers = {w1, w2}
    MaxWithdrawals = 2
SPECIFICATION WithdrawSpec
SYMMETRY FullSymmetry
INVARIANTS WithdrawTypeOK LedgerOK WithdrawHoldsCovered WithdrawValueConserved OneDecisionPerWithdrawal
PROPERTY DecisionsMoveOnlyTheHold
