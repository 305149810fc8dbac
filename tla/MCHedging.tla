----------------------------- MODULE MCHedging -----------------------------
(***************************************************************************)
(* Small instances of Hedging for TLC: one contract, exposures of half a   *)
(* contract and of two, orders of one contract.                            *)
(***************************************************************************)
EXTENDS Hedging

CONSTANTS USD

\* In half contracts: one rounds to none, the other takes two capped orders.
MCExposures == {-4, -1}

MCTolerance == [s \in Symbols |-> 1]

MCCap == [s \in Symbols |-> 1]
=============================================================================
