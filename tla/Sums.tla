-------------------------------- MODULE Sums --------------------------------
(***************************************************************************)
(* Sums over the rows 1 .. n of a table, written as a recursive function   *)
(* so that the proofs can use them, and over a finite set.                 *)
(***************************************************************************)
EXTENDS Integers
Sets == INSTANCE FiniteSetsExt

(* The partial sums of h: entry i is h[1] + ... + h[i]. *)
PartialSums(h, n) ==
    LET s[i \in 0 .. n] == IF i = 0 THEN 0 ELSE s[i - 1] + h[i]
    IN  s

Sum(h, n) == PartialSums(h, n)[n]

(* The sum of h[x] for the x in S.                                         *)
SetSum(h, S) == Sets!MapThenSumSet(LAMBDA x : h[x], S)

=============================================================================
