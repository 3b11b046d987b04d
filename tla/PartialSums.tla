---------------------------- MODULE PartialSums ----------------------------
(***************************************************************************)
(* The running totals of a series of integers, as a recursive function.    *)
(***************************************************************************)
EXTENDS Integers

\* Sums(d)[n] is d[1] + ... + d[n].
Sums(d) ==
  LET s[n \in Nat] == IF n = 0 THEN 0 ELSE s[n - 1] + d[n]
  IN s
=============================================================================
