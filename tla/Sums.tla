--------------------------------- MODULE Sums ---------------------------------
(***************************************************************************)
(* The sum of a list of numbers, taken number by number: the form in which *)
(* a proof can follow it.                                                  *)
(***************************************************************************)
EXTENDS Integers

\* f[1] + ... + f[n]
SumTo(f, n) ==
  LET sum[k \in 0 .. n] == IF k = 0 THEN 0 ELSE sum[k - 1] + f[k]
  IN sum[n]
=============================================================================
