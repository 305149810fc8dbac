------------------------------ MODULE MCApiComms ------------------------------
(***************************************************************************)
(* Small instances of ApiComms for TLC.  One unit of time is the five      *)
(* seconds that filters live and most routes wait; a payment waits ten     *)
(* seconds.                                                                *)
(***************************************************************************)
EXTENDS ApiComms, TLC

CONSTANTS r1, r2, r3, id1, id2, id3

MCTimeout == [k \in Kinds |-> IF k = "payment" THEN 2 ELSE 1]

\* A payment, and two calls that pay one withdrawal.
MCMixed == (r1 :> "payment") @@ (r2 :> "withdrawal") @@ (r3 :> "withdrawal")
MCMixedIds == (r1 :> id1) @@ (r2 :> id2) @@ (r3 :> id2)

\* Two users ask for their balances.
MCBalances == (r1 :> "balance") @@ (r2 :> "balance") @@ (r3 :> "plain")
MCFreshIds == (r1 :> id1) @@ (r2 :> id2) @@ (r3 :> id3)
===============================================================================
