-------------------------- MODULE MCFinanceConvert --------------------------
(* FinanceConvert on small instances for TLC.                              *)
EXTENDS FinanceConvert, TLC

FullSymmetry ==
    Permutations(Workers) \cup Permutations(Users) \cup Permutations(Currencies)

=============================================================================
