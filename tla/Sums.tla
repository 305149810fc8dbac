-------------------------------- MODULE Sums --------------------------------
(***************************************************************************)
(* The sum of the first n values of a function on 1..n.  The ledger's      *)
(* totals, per currency over the users and over the payments in flight,    *)
(* are sums of this form.                                                  *)
(*                                                                         *)
(* The folds of the community modules pick the elements of a set in an     *)
(* unspecified order; summing along 1..n makes the sum a function whose    *)
(* defining equation can be used in a proof (LedgerProofs).                *)
(***************************************************************************)
EXTENDS Integers

PartialSum(f, n) ==
    LET S[i \in 0..n] == IF i = 0 THEN 0 ELSE S[i - 1] + f[i]
    IN  S

SumTo(f, n) == PartialSum(f, n)[n]
=============================================================================
