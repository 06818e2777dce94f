----------------------------- MODULE MCServices -----------------------------
(* The small services on small instances for TLC.                          *)
EXTENDS Services

(* Both withdrawals are the first provider's; the second one deposits. *)
Requesters == [r \in Removals |-> 1]

=============================================================================
