-------------------------------- MODULE Sums --------------------------------
(***************************************************************************)
(* SUM(column) over rows numbered 1..n, as a recursive function: the form  *)
(* of summation the proofs of SumsTheorems can unfold.                     *)
(***************************************************************************)
EXTENDS Integers

SumTo(f, n) ==
  LET sum[i \in 0 .. n] == IF i = 0 THEN 0 ELSE sum[i - 1] + f[i]
  IN  sum[n]

=============================================================================
