----------------------------- MODULE LedgerLaws -----------------------------
(***************************************************************************)
(* What the bank proofs use of the ledger: laws of sums, accounts,         *)
(* exchanges and postings that hold for every number of users.             *)
(* LedgerProofs proves them (LedgerLawsHold); the lemmas about the bank    *)
(* name them as an assumption, and the theorems about it discharge it.     *)
(***************************************************************************)
EXTENDS Ledger

\* The total of integer balances is an integer, and changing one summand
\* changes it by the difference.
SumLaw ==
  \A n \in Nat : \A f \in [1..n -> Int] :
    /\ SumTo(f, n) \in Int
    /\ \A g \in [1..n -> Int], k \in 1..n :
         (\A j \in 1..n : j # k => f[j] = g[j])
           => SumTo(g, n) = SumTo(f, n) + g[k] - f[k]

\* The accounts that handlers post to are accounts of the ledger, two of
\* different owners or types are different, and each has its currency.
AccountLaw ==
  /\ \A u \in Users, c \in Currency :
       /\ UserAccount(u, c) \in Accounts /\ UserAccount(u, c)[2] = c
       /\ UserAccount(u, c) # BankLiability /\ UserAccount(u, c) # DealerExternal
       /\ \A d \in Currency : UserAccount(u, c) # DealerAccount(d)
       /\ \A v \in Users, d \in Currency :
            UserAccount(u, c) = UserAccount(v, d) => u = v /\ c = d
  /\ \A c \in Currency :
       /\ DealerAccount(c) \in Accounts /\ DealerAccount(c)[2] = c
       /\ DealerAccount(c) # BankLiability /\ DealerAccount(c) # DealerExternal
       /\ \A d \in Currency : DealerAccount(c) = DealerAccount(d) => c = d
  /\ BankLiability \in Accounts /\ BankLiability[2] = BTC
  /\ DealerExternal \in Accounts /\ DealerExternal[2] = BTC
  /\ BankLiability # DealerExternal
  /\ BTC \in Currency

\* An exchanged amount is a whole number of units and keeps its sign, and the
\* unit rate changes nothing (Money::exchange).
ExchangeLaw ==
  /\ \A v \in Int : Exchange(v, UnitRate) = v
  /\ \A rate \in (Nat \ {0}) \X (Nat \ {0}) :
       /\ \A v \in Int : Exchange(v, rate) \in Int
       /\ \A v \in Nat : Exchange(v, rate) \in Nat

\* The audit accepts a ledger after a posting that takes no more from a user
\* than they have, if it accepted it before.
PostLaw ==
  \A l \in [Accounts -> Int], out \in Accounts, in \in Accounts, amount \in Int :
    /\ reconcile_ledger(l) /\ out # in /\ out[2] = in[2] /\ amount > 0
    /\ \A u \in Users, c \in Currency : out = UserAccount(u, c) => l[out] >= amount
    => reconcile_ledger(Post(l, out, in, amount))

LedgerLaws == SumLaw /\ AccountLaw /\ ExchangeLaw /\ PostLaw
=============================================================================
