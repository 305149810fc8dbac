------------------------------- MODULE MCBank -------------------------------
(***************************************************************************)
(* Small instances of Bank for TLC: one or two users, Bitcoin and one fiat *)
(* currency, two units to a satoshi, amounts of a few units.               *)
(***************************************************************************)
EXTENDS Bank

CONSTANTS usd

\* One fiat unit for two of Bitcoin, or two for one: a swap of one unit may truncate
\* to nothing.
MCRates == {<<1, 2>>, <<2, 1>>}

\* One invoice of another node, of one satoshi and a half.
MCExternalOne == <<3>>

\* The first user holds Bitcoin and fiat, the second is not known yet.
MCFunds == <<[c \in Currency |-> IF c = BTC THEN 8 ELSE 4], [c \in Currency |-> 0]>>

\* One user, who is not known yet.
MCNoFunds == <<[c \in Currency |-> 0]>>
=============================================================================
