--------------------------- MODULE MCFinanceEscrow ---------------------------
(* FinanceEscrow on small instances for TLC.                               *)
EXTENDS FinanceEscrow, TLC

WorkerSymmetry == Permutations(Workers)
FullSymmetry == Permutations(Workers) \cup Permutations(Users)

=============================================================================
