--------------------------- MODULE MCDealerQuotes ---------------------------
(***************************************************************************)
(* Two fiat currencies and two users.  The book of one currency moves      *)
(* through levels that bids and asks both visit; the other one is fixed    *)
(* and deep enough for every size, with a wide gap.                        *)
(***************************************************************************)
EXTENDS DealerQuotes, TLC

CONSTANTS usd, eur

\* A side with the given volumes and no other levels.
SideOf(levels) == [p \in Prices |-> IF p \in DOMAIN levels THEN levels[p] ELSE 0]
Full(p) == p :> 20
Half(p) == p :> 10
Book(bids, asks) == [bids |-> SideOf(bids), asks |-> SideOf(asks)]
MCBooks ==
  [f \in {usd, eur} |->
     IF f = eur THEN {Book(Half(2) @@ Half(1), Full(4))}
     ELSE {Book(Half(3) @@ Half(2), Full(4)), Book(Half(1), Half(2) @@ Half(4))}]

MCConversions == {<<BTC, usd>>, <<usd, BTC>>, <<usd, eur>>, <<BTC, BTC>>}
MCAmounts == [c \in {BTC, usd, eur} |-> IF c = BTC THEN {3, 6} ELSE {15}]
MCQuantities == <<10, 20>>
MCHalfSpread == <<1, 40>>
Symmetry == Permutations(Uids)
=============================================================================
