-------------------------------- MODULE Sums --------------------------------
(* Sums over 1 .. n, as a recursive function, about which SumProofs proves    *)
(* what the other proofs need.                                                *)
EXTENDS Integers

(* v[1] + ... + v[n].                                                         *)
SumTo(n, v) ==
    LET total[i \in 0 .. n] == IF i = 0 THEN 0 ELSE total[i - 1] + v[i]
    IN  total[n]
=============================================================================
