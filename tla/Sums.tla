-------------------------------- MODULE Sums --------------------------------
(***************************************************************************)
(* Sums of sequences of numbers: the `fold`s by which the vault adds up    *)
(* the holders' weights and the amounts it has paid.  The sum is a         *)
(* recursive function, so that ServicerVaultProofs can reason about it.    *)
(***************************************************************************)
EXTENDS Integers, Sequences

\* PrefixSum(s)[i] is the accumulator after the first i elements of s.
PrefixSum(s) ==
  LET acc[i \in 0 .. Len(s)] == IF i = 0 THEN 0 ELSE acc[i - 1] + s[i]
  IN  acc

Total(s) == PrefixSum(s)[Len(s)]
=============================================================================
