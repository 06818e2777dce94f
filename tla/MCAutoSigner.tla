----------------------------- MODULE MCAutoSigner -----------------------------
(* AutoSigner on small instances for TLC.                                  *)
EXTENDS AutoSigner, TLC

ReplicaSymmetry == Permutations(Replicas)
RowSymmetry == Permutations(Replicas) \cup Permutations(Txs)

=============================================================================
