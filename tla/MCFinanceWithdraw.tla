-------------------------- MODULE MCFinanceWithdraw --------------------------
(* FinanceWithdraw on small instances for TLC.                             *)
EXTENDS FinanceWithdraw, TLC

(* Workers are interchangeable; so are users when all of them passed KYC.  *)
WorkerSymmetry == Permutations(Workers)
FullSymmetry == Permutations(Workers) \cup Permutations(Users)

=============================================================================
