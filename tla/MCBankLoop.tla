----------------------------- MODULE MCBankLoop -----------------------------
(***************************************************************************)
(* A small instance of BankLoop: two users, one of whom swaps every day    *)
(* and both every week.                                                    *)
(***************************************************************************)
EXTENDS BankLoop

\* At half a unit of fiat for one of Bitcoin the row of a payment of 3 holds 2.
MCRates == {<<1, 1>>, <<1, 2>>}
\* An empty table, and one with such a payment that failed and a swap.
MCTotals == {<<>>, <<-1, 2>>}
MCIntervals == <<"1d", "1w">>
MCSettings == [i \in {"1d", "1w"} |-> IF i = "1d" THEN <<1>> ELSE <<1, 2>>]
=============================================================================
