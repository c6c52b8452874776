----------------------------- MODULE PrefixSum ------------------------------
(***************************************************************************)
(* The sum of the first n values of a function on 1..n, as a recursive     *)
(* function, so that TLC evaluates it and theorems can be proved about it. *)
(***************************************************************************)
EXTENDS Integers

SumOf(f, n) ==
    LET sum[i \in 0..n] == IF i = 0 THEN 0 ELSE sum[i - 1] + f[i]
    IN  sum[n]

\* The sum of the values at the indices in S.
SumOver(S, f, n) == SumOf([i \in 1..n |-> IF i \in S THEN f[i] ELSE 0], n)
=============================================================================
