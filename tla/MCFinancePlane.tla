--------------------------- MODULE MCFinancePlane ---------------------------
(* FinancePlane on small instances for TLC.                                *)
EXTENDS FinancePlane, TLC

FullSymmetry == Permutations(Workers) \cup Permutations(Users)

=============================================================================
