------------------------------- MODULE Ledger -------------------------------
(***************************************************************************)
(* The bank's double-entry ledger: the accounts the engine keeps in memory *)
(* (src/bank/src/ledger.rs), the elementary posting every handler is built *)
(* from (BankEngine::make_tx), the exchange of an amount at a rate         *)
(* (core_types Money::exchange) and the audit that the main loop runs      *)
(* (src/bank/src/accountant.rs).                                           *)
(*                                                                         *)
(* Amounts are integers, in the smallest unit that Money keeps of each     *)
(* currency (Currency::dp; for BTC a fraction of a satoshi).  An account   *)
(* is identified by its owner, currency and type: get_default_account      *)
(* never creates a second one, so the code's account ids tell no more      *)
(* apart.                                                                  *)
(***************************************************************************)
EXTENDS Sums

CONSTANTS NumUsers,   \* the users are 1 .. NumUsers
          BTC,        \* the currency Bitcoin
          Fiat        \* the synthetic fiat currencies

\* The bank serves some number of users, and Bitcoin is not a fiat currency.
ASSUME LedgerAssumption == NumUsers \in Nat /\ BTC \notin Fiat

Users == 1 .. NumUsers
Currency == {BTC} \cup Fiat

\* The two service identities; user ids never collide with them.
BANK_UID == 0
DEALER_UID == -1

UserAccount(u, c) == <<u, c, "Internal">>
BankLiability == <<BANK_UID, BTC, "External">>
DealerAccount(c) == <<DEALER_UID, c, "Internal">>
DealerExternal == <<DEALER_UID, BTC, "External">>

Accounts == { UserAccount(u, c) : u \in Users, c \in Currency }
              \cup { DealerAccount(c) : c \in Currency }
              \cup { BankLiability, DealerExternal }

(***************************************************************************)
(* make_tx works on clones of the two accounts: one is debited, the other  *)
(* credited, by the same amount.  The caller puts the clones back.         *)
(***************************************************************************)
Post(l, out, in, amount) ==
  [l EXCEPT ![out] = l[out] - amount, ![in] = l[in] + amount]

\* make_tx refuses an amount that is not positive.
Postable(amount) == amount > 0

(***************************************************************************)
(* Money::exchange.  A rate is a pair <<n, d>>: n units of the currency    *)
(* bought for d units of the currency sold, both counted in their smallest *)
(* units.  Money::new truncates the result to the decimals of the currency *)
(* bought, so a small amount may be worth nothing.                         *)
(***************************************************************************)
Exchange(amount, rate) == (amount * rate[1]) \div rate[2]

\* Rate::new(c, c, 1), the rate of a payment that changes no currency.
UnitRate == <<1, 1>>

\* The net balance of one currency over every account of the ledger.
NetBalance(l, c) ==
  SumTo([u \in Users |-> l[UserAccount(u, c)]], NumUsers)
    + l[DealerAccount(c)]
    + (IF c = BTC THEN l[BankLiability] + l[DealerExternal] ELSE 0)

\* reconcile_ledger: no user is overdrawn and every currency nets to zero.
reconcile_ledger(l) ==
  /\ \A u \in Users, c \in Currency : l[UserAccount(u, c)] >= 0
  /\ \A c \in Currency : NetBalance(l, c) = 0
=============================================================================
