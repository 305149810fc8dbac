--------------------------- MODULE BankLoopProofs ---------------------------
(***************************************************************************)
(* The theorems about the operator's transactions, the karma, the loading  *)
(* of the accounts and the channel of the swaps on a schedule, for every   *)
(* number of users and currencies, every set of amounts and reports, every *)
(* schedule and size of the channels, and every set of faults.             *)
(***************************************************************************)
EXTENDS BankLoop, LedgerProofs

\* The prover of a step that names none.
USE Zenon

\* What the accounts of a currency add up to, the insurance fund and the mirror
\* of the karma included.
Total(l, c) ==
  NetBalance(l, c) + (IF c = BTC THEN l[Fund] ELSE 0) + (IF c = KKP THEN l[KarmaExternal] ELSE 0)

UserKarma(l) == SumTo(KarmaOf(l), NumUsers)

(***************************************************************************)
(* The inductive invariant: money of every currency is neither made nor    *)
(* lost, in memory always and in the table as long as every save worked.   *)
(***************************************************************************)
TreasuryOK ==
  /\ ledger \in [AllAccounts -> Int] /\ stored \in [AllAccounts -> Int]
  /\ totals \in [Users -> Int] /\ mostKarma \in Nat
  /\ \A c \in Currency \ {KKP} : Total(ledger, c) = 0
  /\ ~openKarma /\ ~skewed => Total(ledger, KKP) = 0
  /\ ~lostSave => stored = ledger
  /\ ~lostSave /\ ~skewed => UserKarma(ledger) <= mostKarma

-----------------------------------------------------------------------------
\* The fund and the mirror are accounts of their own.
LEMMA AllAccountFacts ==
  /\ Accounts \subseteq AllAccounts
  /\ Fund \in AllAccounts /\ Fund \notin Accounts
  /\ KarmaExternal \in AllAccounts /\ KarmaExternal \notin Accounts
  /\ Fund # KarmaExternal
  /\ KKP \in Currency /\ KKP # BTC
<1>1. KKP \in Currency /\ KKP # BTC
  BY LedgerAssumption, TreasuryAssumption DEF Currency
<1>2. Fund \notin Accounts
  BY SMT DEF Accounts, Fund, UserAccount, DealerAccount, BankLiability, DealerExternal
<1>3. KarmaExternal \notin Accounts
  BY <1>1, SMT DEF Accounts, KarmaExternal, UserAccount, DealerAccount, BankLiability, DealerExternal,
    BANK_UID, DEALER_UID
<1> QED
  BY <1>1, <1>2, <1>3 DEF AllAccounts, Fund, KarmaExternal

\* Net balances look at the accounts of the ledger proper.
LEMMA NetOfCore ==
  ASSUME NEW l \in [AllAccounts -> Int], NEW m \in [Accounts -> Int],
         \A a \in Accounts : m[a] = l[a], NEW c \in Currency
  PROVE  NetBalance(l, c) = NetBalance(m, c) /\ NetBalance(l, c) \in Int
<1>1. \A u \in Users : l[UserAccount(u, c)] = m[UserAccount(u, c)] /\ m[UserAccount(u, c)] \in Int
  BY AccountFacts
<1>2. [u \in Users |-> l[UserAccount(u, c)]] = [u \in Users |-> m[UserAccount(u, c)]]
  BY <1>1
<1>3. [u \in Users |-> m[UserAccount(u, c)]] \in [1 .. NumUsers -> Int]
  BY <1>1 DEF Users
<1>4. SumTo([u \in Users |-> m[UserAccount(u, c)]], NumUsers) \in Int
  BY <1>3, SumType, LedgerAssumption
<1>5. /\ l[DealerAccount(c)] = m[DealerAccount(c)] /\ m[DealerAccount(c)] \in Int
      /\ l[BankLiability] = m[BankLiability] /\ m[BankLiability] \in Int
      /\ l[DealerExternal] = m[DealerExternal] /\ m[DealerExternal] \in Int
  BY AccountFacts
<1> QED
  BY <1>2, <1>4, <1>5, SMT DEF NetBalance

\* The karma of the users is part of the net balance of its currency.
LEMMA KarmaNet ==
  ASSUME NEW l \in [AllAccounts -> Int]
  PROVE  /\ KarmaOf(l) \in [1 .. NumUsers -> Int]
         /\ UserKarma(l) \in Int
         /\ NetBalance(l, KKP) = UserKarma(l) + l[DealerAccount(KKP)]
         /\ l[DealerAccount(KKP)] \in Int
<1>1. \A u \in Users : l[UserAccount(u, KKP)] \in Int
  BY AccountFacts, AllAccountFacts
<1>2. KarmaOf(l) \in [1 .. NumUsers -> Int]
  BY <1>1 DEF KarmaOf, Users
<1>3. UserKarma(l) \in Int
  BY <1>2, SumType, LedgerAssumption DEF UserKarma
<1>4. l[DealerAccount(KKP)] \in Int
  BY AccountFacts, AllAccountFacts
<1>5. NetBalance(l, KKP) = UserKarma(l) + l[DealerAccount(KKP)]
  BY <1>3, <1>4, AllAccountFacts, SMT DEF NetBalance, UserKarma, KarmaOf
<1> QED
  BY <1>2, <1>3, <1>4, <1>5

\* A change to accounts of one currency does not touch the total of another.
LEMMA OtherTotals ==
  ASSUME NEW l \in [AllAccounts -> Int], NEW m \in [AllAccounts -> Int],
         \A a \in AllAccounts : a[2] # KKP => m[a] = l[a]
  PROVE  \A c \in Currency \ {KKP} : Total(m, c) = Total(l, c)
<1> SUFFICES ASSUME NEW c \in Currency \ {KKP} PROVE Total(m, c) = Total(l, c)
  OBVIOUS
<1>1. \A u \in Users : m[UserAccount(u, c)] = l[UserAccount(u, c)]
  BY AccountFacts, AllAccountFacts, SMT
<1>2. [u \in Users |-> m[UserAccount(u, c)]] = [u \in Users |-> l[UserAccount(u, c)]]
  BY <1>1
<1>3. m[DealerAccount(c)] = l[DealerAccount(c)]
  BY AccountFacts, AllAccountFacts
<1>4. m[BankLiability] = l[BankLiability] /\ m[DealerExternal] = l[DealerExternal]
  BY AccountFacts, AllAccountFacts
<1>5. m[Fund] = l[Fund]
  BY AllAccountFacts DEF Fund
<1> QED
  BY <1>2, <1>3, <1>4, <1>5 DEF Total, NetBalance

\* A change of one account of the ledger proper changes its currency's total.
LEMMA TotalAdd ==
  ASSUME NEW l \in [AllAccounts -> Int], NEW m \in [AllAccounts -> Int],
         NEW a \in Accounts, NEW x \in Int, m[a] = l[a] + x,
         \A b \in Accounts : b # a => m[b] = l[b], NEW c \in Currency
  PROVE  /\ NetBalance(l, c) \in Int
         /\ NetBalance(m, c) = NetBalance(l, c) + (IF a[2] = c THEN x ELSE 0)
<1>1. PICK f \in [Accounts -> Int] : \A b \in Accounts : f[b] = l[b]
  <2>1. [b \in Accounts |-> l[b]] \in [Accounts -> Int]
    BY AllAccountFacts
  <2> QED
    BY <2>1
<1>2. PICK g \in [Accounts -> Int] : \A b \in Accounts : g[b] = m[b]
  <2>1. [b \in Accounts |-> m[b]] \in [Accounts -> Int]
    BY AllAccountFacts
  <2> QED
    BY <2>1
<1>3. g[a] = f[a] + x /\ \A b \in Accounts : b # a => g[b] = f[b]
  BY <1>1, <1>2
<1>4. NetBalance(f, c) \in Int /\ NetBalance(g, c) = NetBalance(f, c) + (IF a[2] = c THEN x ELSE 0)
  BY <1>3, NetBalanceAdd, SMTT(20)
<1>5. NetBalance(l, c) = NetBalance(f, c) /\ NetBalance(m, c) = NetBalance(g, c)
  BY <1>1, <1>2, NetOfCore
<1> QED
  BY <1>4, <1>5

\* A transaction of the operator keeps the total of every currency and the karma
\* of the users together (process_make_tx and its refusals).
LEMMA TxTotals ==
  ASSUME NEW l \in [AllAccounts -> Int], NEW out \in Named, NEW in \in Named,
         NEW amount \in Nat, ~Refused(out, in, amount)
  PROVE  /\ Post(l, out, in, amount) \in [AllAccounts -> Int]
         /\ \A c \in Currency : Total(Post(l, out, in, amount), c) = Total(l, c)
         /\ UserKarma(Post(l, out, in, amount)) = UserKarma(l)
         /\ \A a \in AllAccounts \ {out, in} : Post(l, out, in, amount)[a] = l[a]
<1> DEFINE p == Post(l, out, in, amount)
<1>0. /\ out # in /\ out[2] = in[2]
      /\ in = Fund => out = BankLiability
      /\ out = Fund => in = BankLiability
  BY DEF Refused
<1>1. /\ out \in AllAccounts /\ in \in AllAccounts
      /\ out # Fund => out \in Accounts
      /\ in # Fund => in \in Accounts
  BY AccountFacts, AllAccountFacts, SMT DEF Named
<1>2. out # KarmaExternal /\ in # KarmaExternal
  BY <1>1, AllAccountFacts, SMTT(20)
<1>3. \A c \in Currency : out # DealerAccount(c) /\ in # DealerAccount(c)
  BY AccountFacts, SMT DEF Named, DealerAccount, Fund
<1>4. /\ p \in [AllAccounts -> Int]
      /\ p[out] = l[out] - amount /\ p[in] = l[in] + amount
      /\ \A a \in AllAccounts \ {out, in} : p[a] = l[a]
  BY <1>0, <1>1, SMT DEF Post
<1>5. PICK m \in [AllAccounts -> Int] :
        m[out] = l[out] + (-amount) /\ \A b \in AllAccounts : b # out => m[b] = l[b]
  <2>1. [l EXCEPT ![out] = l[out] + (-amount)] \in [AllAccounts -> Int]
    BY <1>1, SMT
  <2> QED
    BY <1>1, <2>1
<1>6. p[in] = m[in] + amount /\ \A b \in AllAccounts : b # in => p[b] = m[b]
  BY <1>0, <1>1, <1>4, <1>5
<1>7. l[Fund] \in Int /\ l[KarmaExternal] \in Int /\ p[KarmaExternal] = l[KarmaExternal]
  BY <1>2, <1>4, AllAccountFacts
<1> HIDE DEF p
<1>8. ASSUME NEW c \in Currency
      PROVE  /\ NetBalance(l, c) \in Int
             /\ NetBalance(m, c) = NetBalance(l, c)
                  + (IF out \in Accounts /\ out[2] = c THEN -amount ELSE 0)
             /\ NetBalance(p, c) = NetBalance(m, c)
                  + (IF in \in Accounts /\ in[2] = c THEN amount ELSE 0)
  <2>0. -amount \in Int /\ amount \in Int /\ 0 \in Int /\ BankLiability \in Accounts
        /\ l[BankLiability] \in Int /\ m[BankLiability] \in Int
    BY AccountFacts, AllAccountFacts, <1>5, SMT
  <2>1. /\ NetBalance(l, c) \in Int
        /\ NetBalance(m, c) = NetBalance(l, c)
             + (IF out \in Accounts /\ out[2] = c THEN -amount ELSE 0)
    <3>1. CASE out \in Accounts
      <4>1. m[out] = l[out] + (-amount) /\ \A b \in Accounts : b # out => m[b] = l[b]
        BY <1>5, AllAccountFacts
      <4> QED
        BY <2>0, <3>1, <4>1, TotalAdd, SMT
    <3>2. CASE out \notin Accounts
      <4>1. m[BankLiability] = l[BankLiability] + 0
            /\ \A b \in Accounts : b # BankLiability => m[b] = l[b]
        BY <1>5, <2>0, <3>2, AllAccountFacts, SMTT(20)
      <4>2. NetBalance(l, c) \in Int
            /\ NetBalance(m, c) = NetBalance(l, c) + (IF BankLiability[2] = c THEN 0 ELSE 0)
        BY <2>0, <4>1, TotalAdd, SMT
      <4> QED
        BY <3>2, <4>2
    <3> QED
      BY <3>1, <3>2
  <2>2. NetBalance(p, c) = NetBalance(m, c) + (IF in \in Accounts /\ in[2] = c THEN amount ELSE 0)
    <3>1. CASE in \in Accounts
      <4>1. p[in] = m[in] + amount /\ \A b \in Accounts : b # in => p[b] = m[b]
        BY <1>6, AllAccountFacts
      <4> QED
        BY <1>4, <1>5, <2>0, <3>1, <4>1, TotalAdd, SMTT(20)
    <3>2. CASE in \notin Accounts
      <4>1. p[BankLiability] = m[BankLiability] + 0
            /\ \A b \in Accounts : b # BankLiability => p[b] = m[b]
        BY <1>6, <2>0, <3>2, AllAccountFacts, SMTT(20)
      <4>2. NetBalance(p, c) = NetBalance(m, c) + (IF BankLiability[2] = c THEN 0 ELSE 0)
        BY <1>4, <1>5, <2>0, <4>1, TotalAdd, SMT
      <4> QED
        BY <3>2, <4>2
    <3> QED
      BY <3>1, <3>2
  <2> QED
    BY <2>1, <2>2
<1>9. ASSUME NEW c \in Currency PROVE Total(p, c) = Total(l, c)
  <2>1. CASE out # Fund /\ in # Fund
    <3>1. p[Fund] = l[Fund]
      BY <1>4, <2>1, AllAccountFacts
    <3>2. NetBalance(p, c) = NetBalance(l, c)
      BY <1>0, <1>1, <1>8, <2>1, SMT
    <3> QED
      BY <1>7, <3>1, <3>2 DEF Total
  <2>2. CASE in = Fund
    <3>1. out = BankLiability /\ out \in Accounts /\ out[2] = BTC /\ in \notin Accounts
      BY <1>0, <2>2, AccountFacts, AllAccountFacts
    <3>2. NetBalance(p, c) = NetBalance(l, c) - (IF c = BTC THEN amount ELSE 0) /\ NetBalance(l, c) \in Int
      BY <1>8, <3>1, SMT
    <3>3. p[Fund] = l[Fund] + amount
      BY <1>4, <2>2
    <3> QED
      BY <1>7, <3>2, <3>3, SMT DEF Total
  <2>3. CASE out = Fund
    <3>1. in = BankLiability /\ in \in Accounts /\ in[2] = BTC /\ out \notin Accounts
      BY <1>0, <2>3, AccountFacts, AllAccountFacts
    <3>2. NetBalance(p, c) = NetBalance(l, c) + (IF c = BTC THEN amount ELSE 0) /\ NetBalance(l, c) \in Int
      BY <1>8, <3>1, SMT
    <3>3. p[Fund] = l[Fund] - amount
      BY <1>4, <2>3
    <3> QED
      BY <1>7, <3>2, <3>3, SMT DEF Total
  <2> QED
    BY <2>1, <2>2, <2>3
<1>10. UserKarma(p) = UserKarma(l)
  <2>1. Total(p, KKP) = Total(l, KKP) /\ KKP # BTC
    BY <1>9, AllAccountFacts
  <2>2. p[DealerAccount(KKP)] = l[DealerAccount(KKP)]
    BY <1>3, <1>4, AccountFacts, AllAccountFacts
  <2>3. NetBalance(l, KKP) \in Int /\ NetBalance(p, KKP) \in Int
    BY <1>4, <1>8, AllAccountFacts, SMT
  <2>4. NetBalance(p, KKP) = NetBalance(l, KKP)
    BY <1>7, <2>1, <2>3, SMT DEF Total
  <2>5. UserKarma(l) \in Int /\ NetBalance(l, KKP) = UserKarma(l) + l[DealerAccount(KKP)]
        /\ l[DealerAccount(KKP)] \in Int
    BY KarmaNet
  <2>6. UserKarma(p) \in Int /\ NetBalance(p, KKP) = UserKarma(p) + p[DealerAccount(KKP)]
    BY <1>4, KarmaNet
  <2>7. UserKarma(p) + l[DealerAccount(KKP)] = UserKarma(l) + l[DealerAccount(KKP)]
    BY <2>2, <2>4, <2>5, <2>6
  <2>8. PICK x \in Int, y \in Int, z \in Int :
          x = UserKarma(p) /\ y = UserKarma(l) /\ z = l[DealerAccount(KKP)]
    BY <2>5, <2>6
  <2>9. x + z = y + z
    BY <2>7, <2>8
  <2>10. x = y
    BY <2>9, SMT
  <2> QED
    BY <2>8, <2>10
<1> QED
  BY <1>4, <1>9, <1>10 DEF p

\* Loading the accounts moves what the fund held to the dealer, and keeps every
\* total and the users' karma (init_accounts).
LEMMA LoadTotals ==
  ASSUME NEW l \in [AllAccounts -> Int]
  PROVE  /\ init_accounts(l) \in [AllAccounts -> Int]
         /\ init_accounts(l)[Fund] = 0
         /\ \A c \in Currency : Total(init_accounts(l), c) = Total(l, c)
         /\ UserKarma(init_accounts(l)) = UserKarma(l)
         /\ \A u \in Users, c \in Currency : init_accounts(l)[UserAccount(u, c)] = l[UserAccount(u, c)]
<1> DEFINE m == init_accounts(l)
<1>0. PICK d \in Accounts : d = DealerAccount(BTC) /\ d \in AllAccounts /\ d # Fund /\ d[2] = BTC
                            /\ d # KarmaExternal
  BY AccountFacts, AllAccountFacts, SMTT(20)
<1>1. /\ m \in [AllAccounts -> Int]
      /\ m[Fund] = 0 /\ m[d] = l[d] + l[Fund] /\ l[Fund] \in Int
      /\ \A a \in AllAccounts : a # d /\ a # Fund => m[a] = l[a]
  BY <1>0, AllAccountFacts, SMTT(20) DEF init_accounts
<1> HIDE DEF m
<1>2. \A u \in Users, c \in Currency : m[UserAccount(u, c)] = l[UserAccount(u, c)]
  BY <1>0, <1>1, AccountFacts, AllAccountFacts, SMTT(20)
<1>3. ASSUME NEW c \in Currency PROVE Total(m, c) = Total(l, c)
  <2>1. m[d] = l[d] + l[Fund] /\ \A b \in Accounts : b # d => m[b] = l[b]
    BY <1>1, AllAccountFacts
  <2>2. NetBalance(l, c) \in Int /\ NetBalance(m, c) = NetBalance(l, c) + (IF d[2] = c THEN l[Fund] ELSE 0)
    BY <1>1, <2>1, TotalAdd, SMT
  <2>3. m[KarmaExternal] = l[KarmaExternal] /\ l[KarmaExternal] \in Int
    BY <1>0, <1>1, AllAccountFacts
  <2> QED
    BY <1>0, <1>1, <2>2, <2>3, SMT DEF Total
<1>4. KarmaOf(m) = KarmaOf(l)
  BY <1>2, AllAccountFacts DEF KarmaOf
<1> QED
  BY <1>1, <1>2, <1>3, <1>4 DEF UserKarma, m

\* The weights add up to the scale they are measured with.
LEMMA WeightFacts ==
  ASSUME totals \in [Users -> Int]
  PROVE  /\ Weight \in [1 .. NumUsers -> Int] /\ TotalSwapped \in Int /\ Scale \in Nat
         /\ SumTo(Weight, NumUsers) = Scale
         /\ TotalSwapped # 0 => Scale > 0
<1>0. NumUsers \in Nat /\ Users = 1 .. NumUsers /\ totals \in [1 .. NumUsers -> Int]
  BY LedgerAssumption DEF Users
<1>1. PICK T \in Int : T = TotalSwapped /\ T = SumTo(totals, NumUsers)
  BY <1>0, SumType DEF TotalSwapped
<1>2. Weight = [u \in 1 .. NumUsers |-> IF T < 0 THEN -totals[u] ELSE totals[u]]
  BY <1>0, <1>1 DEF Weight
<1>3. Scale = IF T < 0 THEN -T ELSE T
  BY <1>1 DEF Scale
<1>4. Weight \in [1 .. NumUsers -> Int]
  BY <1>0, <1>2, SMT
<1>5. Scale \in Nat /\ (T # 0 => Scale > 0)
  BY <1>3, SMT
<1>6. CASE T < 0
  <2> DEFINE zero == [u \in 1 .. NumUsers |-> 0]
  <2>1. zero \in [1 .. NumUsers -> Int] /\ \A j \in 1 .. NumUsers : zero[j] = 0 /\ zero[j] >= 0
    BY SMT
  <2>2. \A j \in 1 .. NumUsers : zero[j] = totals[j] + Weight[j]
    BY <1>0, <1>2, <1>6, SMT
  <2> HIDE DEF zero
  <2>3. SumTo(zero, NumUsers) = 0
    BY <1>0, <2>1, SumNat
  <2>4. SumTo(zero, NumUsers) = SumTo(totals, NumUsers) + SumTo(Weight, NumUsers)
    BY <1>0, <1>4, <2>1, <2>2, SumAdd
  <2>5. SumTo(Weight, NumUsers) \in Int
    BY <1>0, <1>4, SumType
  <2>6. 0 = T + SumTo(Weight, NumUsers)
    BY <1>1, <2>3, <2>4
  <2>7. SumTo(Weight, NumUsers) = -T
    BY <2>5, <2>6, SMT
  <2> QED
    BY <1>1, <1>3, <1>4, <1>5, <1>6, <2>7
<1>7. CASE ~(T < 0)
  <2>1. Weight = totals
    BY <1>0, <1>2, <1>7
  <2> QED
    BY <1>1, <1>3, <1>4, <1>5, <1>7, <2>1
<1> QED
  BY <1>6, <1>7

\* The parts that the users receive are not more than what is shared, if no
\* total has the other sign (distribute_karma truncates them).
LEMMA ReceivedFacts ==
  ASSUME totals \in [Users -> Int], ~Panics, NEW amount \in Nat
  PROVE  /\ Received(amount) \in [1 .. NumUsers -> Int]
         /\ SumTo(Received(amount), NumUsers) \in Int
         /\ Credited(amount) \in [1 .. NumUsers -> Int]
         /\ \A u \in Users : ~(Received(amount)[u] > 0) => Credited(amount)[u] = 0
         /\ ~Mixed => /\ Credited(amount) = Received(amount)
                      /\ SumTo(Received(amount), NumUsers) <= amount
<1> DEFINE r == Received(amount)
           S == Scale
<1>0. NumUsers \in Nat /\ Users = 1 .. NumUsers
  BY LedgerAssumption DEF Users
<1>1. /\ Weight \in [1 .. NumUsers -> Int] /\ S \in Nat /\ SumTo(Weight, NumUsers) = S
      /\ listed # {} => S > 0
  BY WeightFacts DEF Panics
<1>2. r = [u \in 1 .. NumUsers |->
             IF u \notin listed THEN 0
             ELSE IF Weight[u] >= 0 THEN (Weight[u] * amount) \div S
             ELSE -(((-Weight[u]) * amount) \div S)]
  BY <1>0 DEF Received
<1>3. Credited(amount) = [u \in 1 .. NumUsers |-> IF r[u] > 0 THEN r[u] ELSE 0]
  BY <1>0 DEF Credited
<1> HIDE DEF r, S
<1>4. S > 0 => \A x \in Nat : x \div S \in Nat /\ (x \div S) * S <= x
  BY <1>1, SMT
<1>5. \A y, z \in Nat : y * z \in Nat
  BY SMT
<1>6. ASSUME NEW u \in 1 .. NumUsers
      PROVE  /\ r[u] \in Int
             /\ Weight[u] >= 0 => r[u] \in Nat /\ r[u] * S <= Weight[u] * amount
  <2>1. PICK w \in Int : w = Weight[u]
    BY <1>1
  <2>2. CASE u \notin listed
    <3>1. r[u] = 0
      BY <1>2, <2>2
    <3>2. w >= 0 => w * amount \in Nat
      <4>1. w >= 0 => w \in Nat
        BY SMT
      <4> QED
        BY <1>5, <4>1
    <3>3. 0 \in Nat /\ 0 \in Int /\ 0 * S = 0 /\ (w >= 0 => 0 <= w * amount)
      BY <1>1, <3>2, SMT
    <3> QED
      BY <2>1, <3>1, <3>3
  <2>3. CASE u \in listed /\ w >= 0
    <3>1. PICK x \in Nat : x = w * amount
      <4>1. w \in Nat
        BY <2>3, SMT
      <4> QED
        BY <1>5, <4>1
    <3>2. r[u] = x \div S
      BY <1>2, <2>1, <2>3, <3>1
    <3>3. x \div S \in Nat /\ (x \div S) * S <= x
      BY <1>1, <1>4, <2>3
    <3>4. x \div S \in Int
      BY <3>3, SMT
    <3> QED
      BY <2>1, <3>1, <3>2, <3>3, <3>4
  <2>4. CASE u \in listed /\ ~(w >= 0)
    <3>1. PICK x \in Nat : x = (-w) * amount
      <4>1. -w \in Nat
        BY <2>4, SMT
      <4> QED
        BY <1>5, <4>1
    <3>2. r[u] = -(x \div S)
      BY <1>2, <2>1, <2>4, <3>1
    <3>3. x \div S \in Nat
      BY <1>1, <1>4, <2>4
    <3>4. -(x \div S) \in Int
      BY <3>3, SMT
    <3> QED
      BY <2>1, <2>4, <3>2, <3>4
  <2> QED
    BY <2>2, <2>3, <2>4
<1>7. r \in [1 .. NumUsers -> Int]
  BY <1>2, <1>6
<1>8. SumTo(r, NumUsers) \in Int
  BY <1>0, <1>7, SumType
<1>9. Credited(amount) \in [1 .. NumUsers -> Int]
  BY <1>3, <1>6, SMT
<1>10. \A u \in Users : ~(r[u] > 0) => Credited(amount)[u] = 0
  BY <1>0, <1>3
<1>11. ASSUME ~Mixed PROVE Credited(amount) = r /\ SumTo(r, NumUsers) <= amount
  <2>1. \A u \in 1 .. NumUsers : Weight[u] >= 0
    BY <1>0, <1>1, <1>11, SMT DEF Mixed
  <2>2. \A u \in 1 .. NumUsers : r[u] \in Nat /\ r[u] * S <= Weight[u] * amount
    BY <1>6, <2>1
  <2>3. r \in [1 .. NumUsers -> Nat]
    BY <1>2, <2>2
  <2>4. \A u \in 1 .. NumUsers : r[u] = IF r[u] > 0 THEN r[u] ELSE 0
    BY <2>2, SMT
  <2>5. Credited(amount) = r
    BY <1>2, <1>3, <2>4
  <2>6. Weight \in [1 .. NumUsers -> Nat]
    BY <1>1, <2>1, SMT
  <2>7. CASE S > 0
    BY <1>0, <1>1, <2>2, <2>3, <2>5, <2>6, <2>7, SumShare
  <2>8. CASE ~(S > 0)
    <3>1. listed = {}
      BY <1>1, <2>8
    <3>2. \A j \in 1 .. NumUsers : r[j] = 0
      BY <1>2, <3>1
    <3>3. \A j \in 1 .. NumUsers : r[j] >= 0
      BY <3>2, SMT
    <3>4. SumTo(r, NumUsers) = 0
      BY <1>0, <1>7, <3>2, <3>3, SumNat
    <3>5. 0 <= amount
      BY SMT
    <3> QED
      BY <2>5, <3>4, <3>5
  <2> QED
    BY <2>7, <2>8
<1> QED
  BY <1>7, <1>8, <1>9, <1>10, <1>11 DEF r

\* Sharing what the mirror has and the users have not settles the karma, if no
\* total has the other sign: its total is zero again, and the users do not have
\* more than was reported.
LEMMA ShareTotals ==
  ASSUME NEW l \in [AllAccounts -> Int], NEW karma \in Nat, NEW amount \in Nat,
         l[KarmaExternal] = -karma, amount = karma - UserKarma(l), ~Panics,
         totals \in [Users -> Int]
  PROVE  /\ distribute_karma(l, amount) \in [AllAccounts -> Int]
         /\ ~Mixed => /\ Total(distribute_karma(l, amount), KKP) = 0
                      /\ UserKarma(distribute_karma(l, amount)) <= karma
         /\ \A a \in AllAccounts :
              /\ a # DealerAccount(KKP)
              /\ \A u \in Users : a = UserAccount(u, KKP) => ~(Received(amount)[u] > 0)
              => distribute_karma(l, amount)[a] = l[a]
<1> DEFINE s == distribute_karma(l, amount)
           r == Received(amount)
           d == Credited(amount)
           R == SumTo(r, NumUsers)
<1>0. NumUsers \in Nat /\ Users = 1 .. NumUsers
  BY LedgerAssumption DEF Users
<1>1. /\ r \in [1 .. NumUsers -> Int] /\ d \in [1 .. NumUsers -> Int] /\ R \in Int
      /\ \A u \in Users : ~(r[u] > 0) => d[u] = 0
      /\ ~Mixed => d = r /\ R <= amount
  BY ReceivedFacts
<1>2. /\ DealerAccount(KKP) \in AllAccounts /\ KarmaExternal \in AllAccounts
      /\ KarmaExternal # DealerAccount(KKP)
      /\ \A u \in Users : /\ UserAccount(u, KKP) \in AllAccounts
                          /\ UserAccount(u, KKP)[1] = u
                          /\ UserAccount(u, KKP) # DealerAccount(KKP)
                          /\ UserAccount(u, KKP) # KarmaExternal
                          /\ \A v \in Users : UserAccount(u, KKP) = UserAccount(v, KKP) => u = v
  BY AccountFacts, AllAccountFacts, SMT DEF UserAccount
<1>3. s = [[a \in AllAccounts |->
              IF \E u \in Users : a = UserAccount(u, KKP) THEN l[a] + d[a[1]] ELSE l[a]]
            EXCEPT ![DealerAccount(KKP)] = amount - R]
  BY DEF distribute_karma
<1> HIDE DEF s, r, d, R
<1>4. \A a \in AllAccounts : s[a] \in Int /\
        s[a] = IF a = DealerAccount(KKP) THEN amount - R
               ELSE IF \E u \in Users : a = UserAccount(u, KKP) THEN l[a] + d[a[1]] ELSE l[a]
  <2> SUFFICES ASSUME NEW a \in AllAccounts
               PROVE  s[a] \in Int /\
                        s[a] = IF a = DealerAccount(KKP) THEN amount - R
                               ELSE IF \E u \in Users : a = UserAccount(u, KKP)
                                    THEN l[a] + d[a[1]] ELSE l[a]
    OBVIOUS
  <2>1. amount - R \in Int /\ l[a] \in Int
    BY <1>1, SMT
  <2>2. CASE \E u \in Users : a = UserAccount(u, KKP)
    <3>1. PICK u \in Users : a = UserAccount(u, KKP)
      BY <2>2
    <3>2. a[1] = u /\ d[u] \in Int /\ a # DealerAccount(KKP)
      BY <1>0, <1>1, <1>2, <3>1, SMTT(20)
    <3>3. s[a] = l[a] + d[a[1]]
      BY <1>2, <1>3, <2>2, <3>2
    <3> QED
      BY <2>1, <2>2, <3>2, <3>3, SMT
  <2>3. CASE ~\E u \in Users : a = UserAccount(u, KKP)
    BY <1>2, <1>3, <2>1, <2>3
  <2> QED
    BY <2>2, <2>3
<1>5. s \in [AllAccounts -> Int]
  BY <1>3, <1>4
<1>6. \A u \in Users : s[UserAccount(u, KKP)] = l[UserAccount(u, KKP)] + d[u]
  BY <1>2, <1>4
<1>7. ASSUME ~Mixed PROVE UserKarma(s) = UserKarma(l) + R
  <2>1. KarmaOf(l) \in [1 .. NumUsers -> Int] /\ KarmaOf(s) \in [1 .. NumUsers -> Int]
    BY <1>5, KarmaNet
  <2>2. r \in [1 .. NumUsers -> Int] /\ d = r
    BY <1>1, <1>7
  <2>3. \A j \in 1 .. NumUsers : KarmaOf(s)[j] = KarmaOf(l)[j] + r[j]
    BY <1>0, <1>6, <2>2 DEF KarmaOf
  <2> QED
    BY <1>0, <2>1, <2>2, <2>3, SumAdd DEF UserKarma, R
<1>8. UserKarma(l) \in Int
  BY KarmaNet
<1>9. ASSUME ~Mixed PROVE UserKarma(s) <= karma
  <2>1. R <= amount /\ UserKarma(s) = UserKarma(l) + R
    BY <1>1, <1>7, <1>9
  <2> QED
    BY <1>1, <1>8, <2>1, SMTT(20)
<1>10. ASSUME ~Mixed PROVE Total(s, KKP) = 0
  <2>1. s[DealerAccount(KKP)] = amount - R
    BY <1>2, <1>4
  <2>2. s[KarmaExternal] = -karma
    BY <1>2, <1>4
  <2>3. NetBalance(s, KKP) = UserKarma(s) + s[DealerAccount(KKP)]
    BY <1>5, KarmaNet
  <2>4. NetBalance(s, KKP) = karma
    <3>1. PICK x \in Int : x = UserKarma(l)
      BY <1>8
    <3>2. NetBalance(s, KKP) = (x + R) + (amount - R) /\ amount = karma - x
      BY <1>7, <1>10, <2>1, <2>3, <3>1
    <3> QED
      BY <1>1, <3>2, SMT
  <2> QED
    BY <2>2, <2>4, AllAccountFacts, SMT DEF Total
<1>11. ASSUME NEW a \in AllAccounts, a # DealerAccount(KKP),
              \A u \in Users : a = UserAccount(u, KKP) => ~(r[u] > 0)
       PROVE  s[a] = l[a]
  <2>1. CASE \E u \in Users : a = UserAccount(u, KKP)
    <3>1. PICK u \in Users : a = UserAccount(u, KKP)
      BY <2>1
    <3>2. d[u] = 0 /\ l[a] \in Int
      BY <1>1, <1>11, <3>1
    <3> QED
      BY <1>6, <3>1, <3>2, SMT
  <2>2. CASE ~\E u \in Users : a = UserAccount(u, KKP)
    BY <1>4, <1>11, <2>2
  <2> QED
    BY <2>1, <2>2
<1> QED
  BY <1>5, <1>9, <1>10, <1>11 DEF s, r

-----------------------------------------------------------------------------
\* Saving the accounts that changed keeps the table equal to the ledger, unless
\* a save is lost (update_account).
LEMMA SavedBooks ==
  ASSUME TreasuryOK, NEW l \in [AllAccounts -> Int], NEW touched,
         \A a \in AllAccounts \ touched : l[a] = ledger[a],
         update_account(l, touched)
  PROVE  /\ ledger' = l /\ stored' \in [AllAccounts -> Int]
         /\ ~lostSave' => ~lostSave /\ stored' = ledger'
<1>1. PICK saved : /\ saved \subseteq touched
                   /\ ledger' = l
                   /\ stored' = [a \in AllAccounts |-> IF a \in saved THEN l[a] ELSE stored[a]]
                   /\ lostSave' = (lostSave \/ saved # touched)
  <2>1. PICK saved \in IF "save" \in Faults THEN SUBSET touched ELSE {touched} :
          /\ ledger' = l
          /\ stored' = [a \in AllAccounts |-> IF a \in saved THEN l[a] ELSE stored[a]]
          /\ lostSave' = (lostSave \/ saved # touched)
    BY DEF update_account
  <2>2. saved \subseteq touched
    OBVIOUS
  <2> QED
    BY <2>1, <2>2
<1>2. stored \in [AllAccounts -> Int] /\ (~lostSave => stored = ledger)
      /\ ledger \in [AllAccounts -> Int]
  BY DEF TreasuryOK
<1>3. stored' \in [AllAccounts -> Int]
  BY <1>1, <1>2
<1>4. ASSUME ~lostSave' PROVE ~lostSave /\ stored' = ledger'
  <2>1. ~lostSave /\ saved = touched
    BY <1>1, <1>4
  <2>2. stored = ledger
    BY <1>2, <2>1
  <2>3. \A a \in AllAccounts : stored'[a] = l[a]
    BY <1>1, <2>1, <2>2
  <2> QED
    BY <1>1, <1>3, <2>1, <2>3
<1> QED
  BY <1>1, <1>3, <1>4

\* A transaction of the operator keeps the invariant.
LEMMA MakeTxOK ==
  ASSUME TreasuryOK, NEW out \in Named, NEW in \in Named, NEW amount \in Amounts,
         MakeTx(out, in, amount)
  PROVE  TreasuryOK'
<1>0. /\ UNCHANGED <<totals, openKarma, skewed, mostKarma>> /\ amount \in Nat
      /\ KKP \in Currency
  BY TreasuryAssumption, AllAccountFacts DEF MakeTx, rowVars, karmaVars
<1>1. CASE UNCHANGED <<ledger, stored, lostSave>>
  BY <1>0, <1>1 DEF TreasuryOK, Total, UserKarma, KarmaOf, NetBalance
<1>2. CASE /\ ~Refused(out, in, amount)
           /\ update_account(Post(ledger, out, in, amount), {out, in})
  <2>1. ledger \in [AllAccounts -> Int]
    BY DEF TreasuryOK
  <2>2. PICK l \in [AllAccounts -> Int] :
          /\ l = Post(ledger, out, in, amount)
          /\ \A c \in Currency : Total(l, c) = Total(ledger, c)
          /\ UserKarma(l) = UserKarma(ledger)
          /\ \A a \in AllAccounts \ {out, in} : l[a] = ledger[a]
    <3>1. /\ Post(ledger, out, in, amount) \in [AllAccounts -> Int]
          /\ \A c \in Currency : Total(Post(ledger, out, in, amount), c) = Total(ledger, c)
          /\ UserKarma(Post(ledger, out, in, amount)) = UserKarma(ledger)
          /\ \A a \in AllAccounts \ {out, in} : Post(ledger, out, in, amount)[a] = ledger[a]
      BY <1>0, <1>2, <2>1, TxTotals, SMT
    <3> QED
      BY <3>1
  <2>3. /\ ledger' = l /\ stored' \in [AllAccounts -> Int]
        /\ ~lostSave' => ~lostSave /\ stored' = ledger'
    BY <1>2, <2>2, SavedBooks
  <2>4. /\ \A c \in Currency : Total(ledger', c) = Total(ledger, c)
        /\ UserKarma(ledger') = UserKarma(ledger)
    BY <2>2, <2>3
  <2> QED
    BY <1>0, <2>2, <2>3, <2>4 DEF TreasuryOK
<1> QED
  BY <1>1, <1>2 DEF MakeTx

\* A report of karma keeps the invariant, shared or not (KarmaBalance).
LEMMA KarmaOK ==
  ASSUME TreasuryOK, NEW karma \in KarmaReports, NEW died, KarmaBalance(karma, died)
  PROVE  TreasuryOK'
<1>0. /\ ledger \in [AllAccounts -> Int] /\ totals \in [Users -> Int]
      /\ karma \in Nat /\ mostKarma \in Nat /\ KKP \in Currency /\ KarmaExternal \in AllAccounts
  BY TreasuryAssumption, AllAccountFacts DEF TreasuryOK
<1>1. /\ UNCHANGED totals
      /\ mostKarma' \in Nat /\ mostKarma' >= mostKarma /\ mostKarma' >= karma
  <2>1. UNCHANGED totals
    BY DEF KarmaBalance, rowVars
  <2>2. mostKarma' = IF karma > mostKarma THEN karma ELSE mostKarma
    BY DEF KarmaBalance
  <2> QED
    BY <1>0, <2>1, <2>2, SMT
<1>2. PICK l \in [AllAccounts -> Int] :
        /\ l = [ledger EXCEPT ![KarmaExternal] = -karma]
        /\ l[KarmaExternal] = -karma
        /\ \A a \in AllAccounts : a # KarmaExternal => l[a] = ledger[a]
  <2>1. [ledger EXCEPT ![KarmaExternal] = -karma] \in [AllAccounts -> Int]
    BY <1>0, SMT
  <2> QED
    BY <1>0, <2>1
<1>3. KarmaExternal[2] = KKP
  BY DEF KarmaExternal
<1>4. \A c \in Currency \ {KKP} : Total(l, c) = Total(ledger, c)
  BY <1>0, <1>2, <1>3, OtherTotals
<1>5. UserKarma(l) = UserKarma(ledger) /\ UserKarma(l) \in Int
  <2>1. \A u \in Users : l[UserAccount(u, KKP)] = ledger[UserAccount(u, KKP)]
    BY <1>0, <1>2, AccountFacts, AllAccountFacts, SMT
  <2>2. KarmaOf(l) = KarmaOf(ledger)
    BY <2>1 DEF KarmaOf
  <2> QED
    BY <2>2, KarmaNet DEF UserKarma
<1>6. Diff(karma) = karma - UserKarma(l) /\ Diff(karma) \in Int
  BY <1>0, <1>5, SMT DEF Diff, UserKarma
<1>7. CASE Diff(karma) > 0 /\ ~Panics
  <2>1. PICK amount \in Nat : amount = Diff(karma)
    BY <1>6, <1>7, SMT
  <2>2. amount = karma - UserKarma(l)
    BY <1>6, <2>1
  <2>3. PICK s \in [AllAccounts -> Int] :
          /\ s = distribute_karma(l, amount)
          /\ ~Mixed => Total(s, KKP) = 0 /\ UserKarma(s) <= karma
          /\ \A a \in AllAccounts :
               /\ a # DealerAccount(KKP)
               /\ \A u \in Users : a = UserAccount(u, KKP) => ~(Received(amount)[u] > 0)
               => s[a] = l[a]
    <3>1. /\ distribute_karma(l, amount) \in [AllAccounts -> Int]
          /\ ~Mixed => /\ Total(distribute_karma(l, amount), KKP) = 0
                       /\ UserKarma(distribute_karma(l, amount)) <= karma
          /\ \A a \in AllAccounts :
               /\ a # DealerAccount(KKP)
               /\ \A u \in Users : a = UserAccount(u, KKP) => ~(Received(amount)[u] > 0)
               => distribute_karma(l, amount)[a] = l[a]
      <4>1. /\ l[KarmaExternal] = -karma /\ amount = karma - UserKarma(l) /\ ~Panics
            /\ karma \in Nat /\ totals \in [Users -> Int]
        BY <1>0, <1>2, <1>7, <2>2
      <4> QED
        BY <4>1, ShareTotals, ZenonT(30)
    <3> QED
      BY <3>1
  <2>4. update_account(s, Touched(karma)) /\ openKarma' = FALSE /\ skewed' = Mixed
    BY <1>2, <1>7, <2>1, <2>3 DEF KarmaBalance
  <2>5. \A a \in AllAccounts \ Touched(karma) : s[a] = ledger[a]
    BY <1>2, <2>1, <2>3 DEF Touched
  <2>6. /\ ledger' = s /\ stored' \in [AllAccounts -> Int]
        /\ ~lostSave' => ~lostSave /\ stored' = ledger'
    BY <2>4, <2>5, SavedBooks
  <2>7. \A a \in AllAccounts : a[2] # KKP => s[a] = l[a]
    <3>1. DealerAccount(KKP)[2] = KKP /\ \A u \in Users : UserAccount(u, KKP)[2] = KKP
      BY <1>0, AccountFacts
    <3> QED
      BY <2>3, <3>1
  <2>8. \A c \in Currency \ {KKP} : Total(s, c) = Total(l, c)
    BY <2>7, OtherTotals
  <2>9. \A c \in Currency \ {KKP} : Total(ledger', c) = 0
    BY <1>4, <2>6, <2>8 DEF TreasuryOK
  <2>10. ~skewed' => Total(ledger', KKP) = 0
    BY <2>3, <2>4, <2>6
  <2>11. ASSUME ~skewed' PROVE UserKarma(ledger') <= mostKarma'
    <3>1. UserKarma(s) \in Int /\ UserKarma(s) <= karma
      BY <2>3, <2>4, <2>11, KarmaNet
    <3>2. UserKarma(s) <= mostKarma'
      BY <1>0, <1>1, <3>1, SMTT(20)
    <3> QED
      BY <2>6, <3>2
  <2>12. ledger' \in [AllAccounts -> Int] /\ totals' = totals
    BY <1>1, <2>6
  <2> QED
    BY <1>0, <1>1, <2>6, <2>9, <2>10, <2>11, <2>12 DEF TreasuryOK
<1>8. CASE ~(Diff(karma) > 0 /\ ~Panics)
  <2>1. /\ update_account(l, {KarmaExternal}) /\ openKarma' = (openKarma \/ l # ledger)
        /\ skewed' = skewed
    BY <1>2, <1>8 DEF KarmaBalance
  <2>2. \A a \in AllAccounts \ {KarmaExternal} : l[a] = ledger[a]
    BY <1>2
  <2>3. /\ ledger' = l /\ stored' \in [AllAccounts -> Int]
        /\ ~lostSave' => ~lostSave /\ stored' = ledger'
    BY <2>1, <2>2, SavedBooks
  <2>4. \A c \in Currency \ {KKP} : Total(ledger', c) = 0
    BY <1>4, <2>3 DEF TreasuryOK
  <2>5. ~openKarma' /\ ~skewed' => Total(ledger', KKP) = 0
    BY <2>1, <2>3 DEF TreasuryOK
  <2>6. ~lostSave /\ ~skewed' => UserKarma(ledger') <= mostKarma'
    <3>1. UserKarma(ledger') = UserKarma(ledger) /\ UserKarma(ledger) \in Int
      BY <1>5, <2>3
    <3>2. ~lostSave /\ ~skewed' => UserKarma(ledger) <= mostKarma
      BY <2>1 DEF TreasuryOK
    <3>3. UserKarma(ledger) <= mostKarma => UserKarma(ledger) <= mostKarma'
      BY <1>0, <1>1, <3>1, SMT
    <3> QED
      BY <3>1, <3>2, <3>3
  <2>7. ledger' \in [AllAccounts -> Int] /\ totals' = totals
    BY <1>1, <2>3
  <2> QED
    BY <1>0, <1>1, <2>3, <2>4, <2>5, <2>6, <2>7 DEF TreasuryOK
<1> QED
  BY <1>7, <1>8

\* A row that counts for the totals keeps the invariant (Counted).
LEMMA RowOK ==
  ASSUME TreasuryOK, Swaps \/ FiatPayment \/ FiatRefund,
         UNCHANGED <<ledger, stored, lostSave, karmaVars>>
  PROVE  TreasuryOK'
<1>0. totals \in [Users -> Int]
  BY DEF TreasuryOK
<1>1. ASSUME NEW u \in Users, NEW x \in Int, Counted(u, x) PROVE totals' \in [Users -> Int]
  BY <1>0, <1>1, SMT DEF Counted
<1>2. PICK u \in Users, x \in Int : Counted(u, x)
  <2>1. SwapValues \subseteq Int /\ \A value \in PaymentValues : -value \in Int
    BY TreasuryAssumption, SMT
  <2>2. ASSUME NEW value \in PaymentValues, NEW rate \in PaymentRates
        PROVE  PaymentRowValue(value, rate) \in Int
    <3>1. PICK n \in Nat \ {0}, d \in Nat \ {0} : rate = <<n, d>>
      <4>1. rate \in (Nat \ {0}) \X (Nat \ {0})
        BY TreasuryAssumption
      <4> QED
        BY <4>1, SMT
    <3>2. value \in Nat /\ RateUnit \in Nat /\ RateUnit > 0 /\ n > 0 /\ d > 0
      BY TreasuryAssumption, SMT
    <3>3. \A y, z \in Nat : y * z \in Nat /\ (z > 0 => y \div z \in Nat)
      BY SMT
    <3>4. (value * n) \div d \in Nat /\ (RateUnit * d) \div n \in Nat
      BY <3>2, <3>3
    <3>5. PICK x \in Nat, y \in Nat : x = (value * n) \div d /\ y = (RateUnit * d) \div n
      BY <3>4
    <3>6. (x * y) \div RateUnit \in Nat
      BY <3>2, <3>3
    <3>7. PaymentRowValue(value, rate) = (x * y) \div RateUnit
      BY <3>1, <3>5 DEF PaymentRowValue, InverseRate, Exchange
    <3>8. \A z \in Nat : z \in Int
      BY SMT
    <3> QED
      BY <3>6, <3>7, <3>8
  <2> QED
    BY <2>1, <2>2 DEF Swaps, FiatPayment, FiatRefund, SwapRow, PaymentRow, RefundRow
<1>3. totals' \in [Users -> Int]
  BY <1>1, <1>2
<1> QED
  BY <1>3 DEF TreasuryOK, Total, UserKarma, KarmaOf, NetBalance, karmaVars

\* A start keeps the invariant: what was loaded passed the audit.
LEMMA StartOK ==
  ASSUME TreasuryOK, Start
  PROVE  TreasuryOK'
<1>0. stored \in [AllAccounts -> Int] /\ KKP \in Currency
  BY AllAccountFacts DEF TreasuryOK
<1>1. PICK l \in [AllAccounts -> Int] :
        /\ l = init_accounts(stored) /\ l[Fund] = 0
        /\ UserKarma(l) = UserKarma(stored)
  <2>1. /\ init_accounts(stored) \in [AllAccounts -> Int] /\ init_accounts(stored)[Fund] = 0
        /\ UserKarma(init_accounts(stored)) = UserKarma(stored)
    BY <1>0, LoadTotals
  <2> QED
    BY <2>1
<1>2. /\ ledger' = l /\ stored' = l /\ Reconciles(l)
      /\ UNCHANGED <<totals, lostSave, openKarma, skewed, mostKarma>>
  BY <1>1 DEF Start, karmaVars
<1>3. ASSUME NEW c \in Currency PROVE Total(l, c) = 0
  <2>1. NetBalance(l, c) + (IF c = KKP THEN l[KarmaExternal] ELSE 0) = 0
    BY <1>2 DEF Reconciles
  <2>2. NetBalance(l, c) \in Int /\ l[KarmaExternal] \in Int
    <3>1. [a \in Accounts |-> l[a]] \in [Accounts -> Int]
      BY AllAccountFacts
    <3> QED
      BY <3>1, NetOfCore, AllAccountFacts
  <2> QED
    BY <1>1, <2>1, <2>2, SMT DEF Total
<1>4. /\ \A c \in Currency \ {KKP} : Total(ledger', c) = 0
      /\ Total(ledger', KKP) = 0
  BY <1>0, <1>2, <1>3
<1>5. ~lostSave /\ ~skewed => UserKarma(ledger') <= mostKarma'
  BY <1>1, <1>2 DEF TreasuryOK
<1>6. ledger' \in [AllAccounts -> Int] /\ stored' \in [AllAccounts -> Int] /\ stored' = ledger'
  BY <1>2
<1> QED
  BY <1>2, <1>4, <1>5, <1>6 DEF TreasuryOK

\* The first state has no money at all.
LEMMA TreasuryInitOK == Init => TreasuryOK
<1> SUFFICES ASSUME Init PROVE TreasuryOK
  OBVIOUS
<1>1. /\ ledger = [a \in AllAccounts |-> 0] /\ stored = ledger
      /\ mostKarma = 0
  BY DEF Init, TreasuryInit
<1>2. ledger \in [AllAccounts -> Int] /\ totals \in [Users -> Int]
  <2>1. PICK t \in InitTotals :
          listed = DOMAIN t /\ totals = [u \in Users |-> IF u \in listed THEN t[u] ELSE 0]
    BY DEF Init, TreasuryInit
  <2>2. 0 \in Int /\ \A u \in DOMAIN t : t[u] \in Int
    BY TreasuryAssumption, SMT
  <2> QED
    BY <1>1, <2>1, <2>2
<1>3. ASSUME NEW c \in Currency PROVE SumTo([u \in Users |-> ledger[UserAccount(u, c)]], NumUsers) = 0
  <2>1. \A u \in Users : ledger[UserAccount(u, c)] = 0
    BY <1>1, AccountFacts, AllAccountFacts
  <2> DEFINE f == [u \in Users |-> ledger[UserAccount(u, c)]]
  <2>2. f \in [1 .. NumUsers -> Int] /\ \A j \in 1 .. NumUsers : f[j] = 0
    BY <2>1, SMT DEF Users
  <2> HIDE DEF f
  <2>3. \A j \in 1 .. NumUsers : f[j] >= 0
    BY <2>2, SMT
  <2>4. SumTo(f, NumUsers) = 0
    BY <2>2, <2>3, SumNat, LedgerAssumption
  <2> QED
    BY <2>4 DEF f
<1>4. ASSUME NEW c \in Currency PROVE Total(ledger, c) = 0
  <2>1. /\ ledger[DealerAccount(c)] = 0 /\ ledger[BankLiability] = 0 /\ ledger[DealerExternal] = 0
        /\ ledger[Fund] = 0 /\ ledger[KarmaExternal] = 0
    BY <1>1, AccountFacts, AllAccountFacts
  <2> QED
    BY <1>3, <2>1, SMT DEF Total, NetBalance
<1>5. UserKarma(ledger) = 0
  BY <1>3, AllAccountFacts DEF UserKarma, KarmaOf
<1> QED
  BY <1>1, <1>2, <1>4, <1>5, AllAccountFacts, SMT DEF TreasuryOK

\* Every step of the loop keeps the invariant.
LEMMA TreasuryNextOK == TreasuryOK /\ [Next]_vars => TreasuryOK'
<1> SUFFICES ASSUME TreasuryOK, [Next]_vars PROVE TreasuryOK'
  OBVIOUS
<1>1. CASE UNCHANGED treasuryVars
  BY <1>1 DEF treasuryVars, rowVars, karmaVars, TreasuryOK, Total, UserKarma, KarmaOf, NetBalance
<1>2. CASE UNCHANGED <<ledger, stored, lostSave, totals, karmaVars>>
  BY <1>2 DEF karmaVars, TreasuryOK, Total, UserKarma, KarmaOf, NetBalance
<1>3. CASE Cli
  BY <1>3, MakeTxOK DEF Cli
<1>4. CASE Karma
  BY <1>1, <1>4, KarmaOK DEF Karma
<1>5. CASE Start
  BY <1>5, StartOK
<1>6. CASE PaymentResult \/ DealerQuote \/ Loopback
  BY <1>2, <1>6, RowOK DEF PaymentResult, DealerQuote, Loopback, NoRow, rowVars
<1>7. CASE \/ ApiTransaction \/ PayLnurlWithdrawalRequest \/ InvoiceSettled \/ DcaRebalance
           \/ WriteJournal \/ Audit \/ Nothing \/ DcaTask \/ Crash \/ UNCHANGED vars
  BY <1>1, <1>7 DEF ApiTransaction, PayLnurlWithdrawalRequest, InvoiceSettled, DcaRebalance,
    WriteJournal, Audit, Nothing, DcaTask, Crash, vars
<1> QED
  BY <1>3, <1>4, <1>5, <1>6, <1>7 DEF Next, LoopStep

-----------------------------------------------------------------------------
\* Money is neither made nor lost by the operator's transactions, by sharing
\* karma or by a start, for any number of users, currencies, messages and faults.
THEOREM TreasuryInvariant == Spec => []TreasuryOK
<1> QED
  BY TreasuryInitOK, TreasuryNextOK, PTL DEF Spec

\* The audited Bitcoin accounts are off by what the fund holds, and by nothing
\* else (process_make_tx, init_accounts).
THEOREM LoopFundedBooks == Spec => []FundedBooks
<1>1. TreasuryOK => FundedBooks
  <2> SUFFICES ASSUME TreasuryOK PROVE FundedBooks
    OBVIOUS
  <2>1. BTC \in Currency \ {KKP} /\ KKP # BTC
    BY AccountFacts, AllAccountFacts
  <2>2. Total(ledger, BTC) = 0
    BY <2>1 DEF TreasuryOK
  <2>3. NetBalance(ledger, BTC) + ledger[Fund] = 0
    <3>1. [a \in Accounts |-> ledger[a]] \in [Accounts -> Int]
      BY AllAccountFacts DEF TreasuryOK
    <3>2. NetBalance(ledger, BTC) \in Int /\ ledger[Fund] \in Int
      BY <2>1, <3>1, NetOfCore, AllAccountFacts DEF TreasuryOK
    <3> QED
      BY <2>1, <2>2, <3>2, SMT DEF Total
  <2>4. ~lostSave => stored = ledger
    BY DEF TreasuryOK
  <2> QED
    BY <2>3, <2>4 DEF FundedBooks
<1> QED
  BY <1>1, TreasuryInvariant, PTL

\* The users never have more karma together than the exchange reported, unless
\* it was last shared over totals of both signs (distribute_karma).
THEOREM LoopKarmaBacked == Spec => []KarmaBacked
<1>1. TreasuryOK => KarmaBacked
  BY DEF TreasuryOK, KarmaBacked, UserKarma
<1> QED
  BY <1>1, TreasuryInvariant, PTL

\* The rows of a bank that stopped pass the audit at start-up, with the
\* exceptions that StartsAgain names (init_accounts, reconcile_ledger).
THEOREM LoopStartsAgain == Spec => []StartsAgain
<1>1. TreasuryOK => StartsAgain
  <2> SUFFICES ASSUME TreasuryOK, ~lostSave, ~openKarma, ~skewed,
                      \A u \in Users, c \in Currency : stored[UserAccount(u, c)] >= 0
               PROVE  Reconciles(init_accounts(stored))
    BY DEF StartsAgain
  <2>1. stored \in [AllAccounts -> Int] /\ stored = ledger /\ \A c \in Currency : Total(stored, c) = 0
    BY DEF TreasuryOK
  <2>2. PICK l \in [AllAccounts -> Int] :
          /\ l = init_accounts(stored) /\ l[Fund] = 0
          /\ \A c \in Currency : Total(l, c) = 0
          /\ \A u \in Users, c \in Currency : l[UserAccount(u, c)] = stored[UserAccount(u, c)]
    <3>1. /\ init_accounts(stored) \in [AllAccounts -> Int] /\ init_accounts(stored)[Fund] = 0
          /\ \A c \in Currency : Total(init_accounts(stored), c) = Total(stored, c)
          /\ \A u \in Users, c \in Currency :
               init_accounts(stored)[UserAccount(u, c)] = stored[UserAccount(u, c)]
      BY <2>1, LoadTotals
    <3> QED
      BY <2>1, <3>1
  <2>3. ASSUME NEW c \in Currency
        PROVE  NetBalance(l, c) + (IF c = KKP THEN l[KarmaExternal] ELSE 0) = 0
    <3>1. [a \in Accounts |-> l[a]] \in [Accounts -> Int]
      BY AllAccountFacts
    <3>2. NetBalance(l, c) \in Int /\ l[KarmaExternal] \in Int /\ Total(l, c) = 0
      BY <2>2, <3>1, NetOfCore, AllAccountFacts
    <3> QED
      BY <2>2, <3>2, SMT DEF Total
  <2>4. \A u \in Users, c \in Currency : l[UserAccount(u, c)] >= 0
    BY <2>2
  <2> QED
    BY <2>2, <2>3, <2>4 DEF Reconciles
<1> QED
  BY <1>1, TreasuryInvariant, PTL

-----------------------------------------------------------------------------
\* The sum over two sequences, one after the other, is the sum of their sums.
LEMMA SumConcat ==
  ASSUME NEW n \in Nat, NEW m \in Nat, NEW f \in [1..n -> Int], NEW g \in [1..m -> Int],
         NEW h \in [1 .. n + m -> Int],
         \A j \in 1..n : h[j] = f[j], \A j \in 1..m : h[n + j] = g[j]
  PROVE  SumTo(h, n + m) = SumTo(f, n) + SumTo(g, m)
<1> DEFINE F == PartialSum(f, n)
           G == PartialSum(g, m)
           H == PartialSum(h, n + m)
           BadF == {i \in 0..n : H[i] # F[i]}
           BadG == {i \in 0..m : H[n + i] # F[n] + G[i]}
<1>1. F[0] = 0 /\ (\A i \in 1..n : F[i] = F[i - 1] + f[i]) /\ (\A i \in 0..n : F[i] \in Int)
  BY PartialSumStep, PartialSumType
<1>2. G[0] = 0 /\ (\A i \in 1..m : G[i] = G[i - 1] + g[i]) /\ (\A i \in 0..m : G[i] \in Int)
  BY PartialSumStep, PartialSumType
<1>3. /\ H[0] = 0 /\ \A i \in 1 .. n + m : H[i] = H[i - 1] + h[i]
      /\ \A i \in 0 .. n + m : H[i] \in Int
  <2>1. n + m \in Nat
    BY SMT
  <2> QED
    BY <2>1, PartialSumStep, PartialSumType
<1> HIDE DEF F, G, H
<1>4. BadF = {}
  <2>1. SUFFICES ASSUME BadF # {} PROVE FALSE
    OBVIOUS
  <2> BadF \subseteq Nat
    BY SMT
  <2>2. PICK i \in BadF : \A k \in BadF : i <= k
    BY <2>1, NatMin
  <2>3. i \in 1..n /\ i - 1 \in 0..n
    BY <1>1, <1>3, SMT
  <2>4. H[i - 1] = F[i - 1]
    BY <2>2, <2>3, SMTT(20)
  <2> QED
    BY <1>1, <1>3, <2>3, <2>4, SMT
<1>5. BadG = {}
  <2>1. SUFFICES ASSUME BadG # {} PROVE FALSE
    OBVIOUS
  <2> BadG \subseteq Nat
    BY SMT
  <2>2. PICK i \in BadG : \A k \in BadG : i <= k
    BY <2>1, NatMin
  <2>3. i # 0
    <3>1. n \in 0..n /\ n + 0 = n
      BY SMT
    <3>2. H[n] = F[n] /\ F[n] \in Int
      BY <1>1, <1>4, <3>1
    <3>3. H[n + 0] = F[n] + G[0]
      BY <1>2, <3>1, <3>2, SMT
    <3> QED
      BY <3>3
  <2>4. i \in 1..m /\ i - 1 \in 0..m /\ n + i \in 1 .. n + m /\ n + i - 1 = n + (i - 1)
    BY <2>3, SMT
  <2>5. H[n + (i - 1)] = F[n] + G[i - 1]
    BY <2>2, <2>4, SMTT(20)
  <2>6. H[n + i] = H[n + (i - 1)] + g[i] /\ G[i] = G[i - 1] + g[i]
    BY <1>2, <1>3, <2>4, SMTT(20)
  <2>7. F[n] \in Int /\ G[i - 1] \in Int /\ g[i] \in Int
    BY <1>1, <1>2, <2>4, SMT
  <2> QED
    BY <2>5, <2>6, <2>7, SMTT(20)
<1>6. H[n + m] = F[n] + G[m]
  <2>1. m \in 0..m
    BY SMT
  <2> QED
    BY <1>5, <2>1
<1> QED
  BY <1>6 DEF SumTo, F, G, H

\* The sum without the first summand.
LEMMA SumTail ==
  ASSUME NEW n \in Nat, NEW f \in [1 .. n + 1 -> Int], NEW g \in [1..n -> Int],
         \A j \in 1..n : g[j] = f[j + 1]
  PROVE  SumTo(f, n + 1) = f[1] + SumTo(g, n)
<1> DEFINE e == [k \in 1..1 |-> f[1]]
<1>1. 1 \in Nat /\ 1 + n = n + 1 /\ e \in [1..1 -> Int] /\ e[1] = f[1] /\ f[1] \in Int
  BY SMT
<1>2. SumTo(e, 1) = f[1]
  <2>1. PartialSum(e, 1)[0] = 0 /\ PartialSum(e, 1)[1] = PartialSum(e, 1)[1 - 1] + e[1]
    BY <1>1, PartialSumStep, SMT
  <2> QED
    BY <1>1, <2>1, SMT DEF SumTo
<1> HIDE DEF e
<1>3. SumTo(f, 1 + n) = SumTo(e, 1) + SumTo(g, n)
  <2>1. f \in [1 .. 1 + n -> Int] /\ (\A j \in 1..1 : f[j] = e[j]) /\ (\A j \in 1..n : f[1 + j] = g[j])
    BY <1>1, SMT
  <2> QED
    BY <1>1, <2>1, SumConcat
<1> QED
  BY <1>1, <1>2, <1>3

\* Some of the summands, in their order, add up to no more than all of them.
LEMMA SumPick ==
  ASSUME NEW n \in Nat, NEW m \in Nat, NEW w \in [1..m -> Int], NEW g \in [1..n -> Int],
         \A j \in 1..m : w[j] >= 0,
         NEW p \in [1..n -> 1..m], \A j, k \in 1..n : j < k => p[j] < p[k],
         \A j \in 1..n : g[j] = w[p[j]]
  PROVE  SumTo(g, n) <= SumTo(w, m)
<1> DEFINE G == PartialSum(g, n)
           W == PartialSum(w, m)
           BadW == {b \in 0..m : \E a \in 0..b : W[a] > W[b]}
           Reached(i, a) == i > 0 => p[i] <= a
           BadG == {i \in 0..n : \E a \in 0..m : Reached(i, a) /\ G[i] > W[a]}
<1>1. G[0] = 0 /\ (\A i \in 1..n : G[i] = G[i - 1] + g[i]) /\ (\A i \in 0..n : G[i] \in Int)
  BY PartialSumStep, PartialSumType
<1>2. W[0] = 0 /\ (\A i \in 1..m : W[i] = W[i - 1] + w[i]) /\ (\A i \in 0..m : W[i] \in Int)
  BY PartialSumStep, PartialSumType
<1> HIDE DEF G, W
<1>3. BadW = {}
  <2>1. SUFFICES ASSUME BadW # {} PROVE FALSE
    OBVIOUS
  <2> BadW \subseteq Nat
    BY SMT
  <2>2. PICK b \in BadW : \A k \in BadW : b <= k
    BY <2>1, NatMin
  <2>3. PICK a \in 0..b : W[a] > W[b]
    OBVIOUS
  <2>4. b \in 1..m /\ b - 1 \in 0..m /\ a \in 0 .. b - 1
    BY <1>2, <2>3, SMTT(20)
  <2>5. ~(W[a] > W[b - 1])
    BY <2>2, <2>4, SMT
  <2>6. W[b] = W[b - 1] + w[b] /\ w[b] >= 0 /\ w[b] \in Int /\ W[b - 1] \in Int /\ W[a] \in Int
    BY <1>2, <2>4, SMT
  <2> QED
    BY <2>3, <2>5, <2>6, SMTT(20)
<1>4. \A b \in 0..m : \A a \in 0..b : W[a] <= W[b]
  <2>1. ASSUME NEW b \in 0..m, NEW a \in 0..b PROVE W[a] <= W[b]
    <3>1. ~(W[a] > W[b])
      BY <1>3
    <3>2. a \in 0..m
      BY SMT
    <3> QED
      BY <1>2, <3>1, <3>2, SMT
  <2> QED
    BY <2>1
<1>5. BadG = {}
  <2>1. SUFFICES ASSUME BadG # {} PROVE FALSE
    OBVIOUS
  <2> BadG \subseteq Nat
    BY SMT
  <2>2. PICK i \in BadG : \A k \in BadG : i <= k
    BY <2>1, NatMin
  <2>3. PICK a \in 0..m : Reached(i, a) /\ G[i] > W[a]
    OBVIOUS
  <2>4. i # 0
    BY <1>1, <1>2, <1>4, <2>3, SMT
  <2>5. i \in 1..n /\ i - 1 \in 0..n /\ p[i] \in 1..m /\ p[i] <= a /\ p[i] - 1 \in 0..m
    BY <2>3, <2>4, SMTT(20)
  <2>6. Reached(i - 1, p[i] - 1)
    BY <2>5, SMTT(20)
  <2>7. ~(G[i - 1] > W[p[i] - 1])
    BY <2>2, <2>5, <2>6, SMTT(20)
  <2>8. G[i] = G[i - 1] + w[p[i]] /\ W[p[i]] = W[p[i] - 1] + w[p[i]]
    BY <1>1, <1>2, <2>5
  <2>9. W[p[i]] <= W[a]
    BY <1>4, <2>5, SMTT(20)
  <2>10. PICK q \in 1..m : q = p[i]
    BY <2>5
  <2>11. q \in 0..m /\ q - 1 \in 0..m
    BY SMT
  <2>12. /\ G[i - 1] \in Int /\ w[q] \in Int /\ W[q] \in Int /\ W[q - 1] \in Int
         /\ W[a] \in Int
    BY <1>1, <1>2, <2>5, <2>11
  <2>13. G[i] = G[i - 1] + w[q] /\ W[q] = W[q - 1] + w[q] /\ W[q] <= W[a] /\ ~(G[i - 1] > W[q - 1])
    BY <2>7, <2>8, <2>9, <2>10
  <2>14. G[i] > W[a]
    BY <2>3
  <2> HIDE DEF Reached, BadG
  <2> QED
    BY <2>12, <2>13, <2>14, SMTT(20)
<1>6. Reached(n, m)
  BY SMT
<1>7. G[n] <= W[m]
  <2>1. n \in 0..n /\ m \in 0..m
    BY SMT
  <2>2. ~(G[n] > W[m])
    BY <1>5, <1>6, <2>1
  <2> QED
    BY <1>1, <1>2, <2>1, <2>2, SMTT(20)
<1> QED
  BY <1>7 DEF SumTo, G, W

\* How often u is in a sequence is an integer.
LEMMA CountType ==
  ASSUME NEW u, NEW S, NEW s \in Seq(S)
  PROVE  Count(u, s) \in Int
<1> DEFINE f == [k \in DOMAIN s |-> IF s[k] = u THEN 1 ELSE 0]
<1>1. Len(s) \in Nat /\ f \in [1 .. Len(s) -> Int]
  BY SMT
<1> HIDE DEF f
<1>2. SumTo(f, Len(s)) \in Int
  BY <1>1, SumType
<1> QED
  BY <1>2 DEF Count, f

\* Two sequences, one after the other, hold u as often as both together.
LEMMA CountConcat ==
  ASSUME NEW u, NEW S, NEW s \in Seq(S), NEW t \in Seq(S)
  PROVE  Count(u, s \o t) = Count(u, s) + Count(u, t)
<1> DEFINE f(a) == [k \in DOMAIN a |-> IF a[k] = u THEN 1 ELSE 0]
<1>1. /\ s \o t \in Seq(S) /\ Len(s \o t) = Len(s) + Len(t)
      /\ \A j \in 1 .. Len(s) : (s \o t)[j] = s[j]
      /\ \A j \in 1 .. Len(t) : (s \o t)[Len(s) + j] = t[j]
  BY SMT
<1>2. /\ Len(s) \in Nat /\ Len(t) \in Nat /\ f(s) \in [1 .. Len(s) -> Int]
      /\ f(t) \in [1 .. Len(t) -> Int] /\ f(s \o t) \in [1 .. Len(s) + Len(t) -> Int]
  BY <1>1, SMT
<1>3. /\ \A j \in 1 .. Len(s) : f(s \o t)[j] = f(s)[j]
      /\ \A j \in 1 .. Len(t) : f(s \o t)[Len(s) + j] = f(t)[j]
  BY <1>1, SMT
<1> HIDE DEF f
<1>4. SumTo(f(s \o t), Len(s) + Len(t)) = SumTo(f(s), Len(s)) + SumTo(f(t), Len(t))
  BY <1>2, <1>3, SumConcat
<1> QED
  BY <1>1, <1>4 DEF Count, f

\* The empty sequence holds nothing, and one message counts for itself.
LEMMA CountOne ==
  /\ \A u : Count(u, <<>>) = 0
  /\ \A u, x : Count(u, <<x>>) = IF x = u THEN 1 ELSE 0
<1> DEFINE f(u, a) == [k \in DOMAIN a |-> IF a[k] = u THEN 1 ELSE 0]
<1>1. \A g : SumTo(g, 0) = 0
  BY PartialSumStep DEF SumTo
<1>2. Len(<<>>) = 0
  OBVIOUS
<1>3. ASSUME NEW u, NEW x PROVE Count(u, <<x>>) = IF x = u THEN 1 ELSE 0
  <2>1. Len(<<x>>) = 1 /\ f(u, <<x>>)[1] = IF x = u THEN 1 ELSE 0
    BY SMT
  <2>2. /\ PartialSum(f(u, <<x>>), 1)[0] = 0
        /\ PartialSum(f(u, <<x>>), 1)[1] = PartialSum(f(u, <<x>>), 1)[1 - 1] + f(u, <<x>>)[1]
    BY PartialSumStep, SMT
  <2>3. SumTo(f(u, <<x>>), 1) = f(u, <<x>>)[1]
    BY <2>1, <2>2, SMT DEF SumTo
  <2>4. Count(u, <<x>>) = SumTo(f(u, <<x>>), 1)
    BY <2>1 DEF Count
  <2> HIDE DEF f
  <2> QED
    BY <2>1, <2>3, <2>4
<1> QED
  BY <1>1, <1>2, <1>3 DEF Count

\* Taking the first message off a sequence.
LEMMA CountTail ==
  ASSUME NEW u, NEW S, NEW s \in Seq(S), s # <<>>
  PROVE  Count(u, s) = (IF Head(s) = u THEN 1 ELSE 0) + Count(u, Tail(s))
<1>1. <<Head(s)>> \in Seq(S) /\ Tail(s) \in Seq(S) /\ s = <<Head(s)>> \o Tail(s)
  BY SMT
<1>2. Count(u, <<Head(s)>> \o Tail(s)) = Count(u, <<Head(s)>>) + Count(u, Tail(s))
  BY <1>1, CountConcat
<1> QED
  BY <1>1, <1>2, CountOne

\* What the settings hold for a sequence of intervals without its first.
LEMMA IntervalFacts ==
  ASSUME NEW s \in Seq(DOMAIN DcaSettings)
  PROVE  /\ SwapsOf(s) \in Nat /\ SwapsOf(<<>>) = 0
         /\ s # <<>> => SwapsOf(s) = Len(DcaSettings[Head(s)]) + SwapsOf(Tail(s))
         /\ \A u \in Users :
              /\ DueIn(u, s) \in Int /\ DueIn(u, <<>>) = 0
              /\ s # <<>> => DueIn(u, s) = Count(u, DcaSettings[Head(s)]) + DueIn(u, Tail(s))
<1> DEFINE f(t) == [k \in DOMAIN t |-> Len(DcaSettings[t[k]])]
           g(u, t) == [k \in DOMAIN t |-> Count(u, DcaSettings[t[k]])]
<1>1. \A i \in DOMAIN DcaSettings : DcaSettings[i] \in Seq(Users)
  BY LoopAssumption
<1>2. ASSUME NEW t \in Seq(DOMAIN DcaSettings)
      PROVE  /\ Len(t) \in Nat /\ f(t) \in [1 .. Len(t) -> Int]
             /\ \A k \in 1 .. Len(t) : f(t)[k] >= 0
             /\ \A u \in Users : g(u, t) \in [1 .. Len(t) -> Int]
  <2>1. \A k \in 1 .. Len(t) : DcaSettings[t[k]] \in Seq(Users)
    BY <1>1, SMT
  <2>2. \A u, k : k \in 1 .. Len(t) => Count(u, DcaSettings[t[k]]) \in Int
    BY <2>1, CountType
  <2>3. \A k \in 1 .. Len(t) : Len(DcaSettings[t[k]]) \in Nat
    BY <2>1, SMT
  <2>4. Len(t) \in Nat /\ DOMAIN t = 1 .. Len(t)
    BY SMT
  <2>5. f(t) \in [1 .. Len(t) -> Int] /\ \A k \in 1 .. Len(t) : f(t)[k] >= 0
    BY <2>3, <2>4, SMT
  <2>6. \A u \in Users : g(u, t) \in [1 .. Len(t) -> Int]
    BY <2>2, <2>4
  <2> QED
    BY <2>4, <2>5, <2>6
<1>3. <<>> \in Seq(DOMAIN DcaSettings) /\ Len(<<>>) = 0
  BY SMT
<1>4. SwapsOf(s) \in Nat /\ \A u \in Users : DueIn(u, s) \in Int
  BY <1>2, SumNat, SumType DEF SwapsOf, DueIn
<1>5. SwapsOf(<<>>) = 0 /\ \A u \in Users : DueIn(u, <<>>) = 0
  <2>1. \A h : SumTo(h, 0) = 0
    BY PartialSumStep DEF SumTo
  <2> QED
    BY <1>3, <2>1 DEF SwapsOf, DueIn
<1>6. ASSUME s # <<>>
      PROVE  /\ SwapsOf(s) = Len(DcaSettings[Head(s)]) + SwapsOf(Tail(s))
             /\ \A u \in Users : DueIn(u, s) = Count(u, DcaSettings[Head(s)]) + DueIn(u, Tail(s))
  <2>1. PICK n \in Nat : Len(s) = n + 1 /\ Len(Tail(s)) = n
    BY <1>6, SMT
  <2>2. Tail(s) \in Seq(DOMAIN DcaSettings) /\ \A j \in 1..n : Tail(s)[j] = s[j + 1]
    BY <1>6, <2>1, SMT
  <2>3. s[1] = Head(s) /\ 1 \in DOMAIN s /\ \A j \in 1..n : j + 1 \in DOMAIN s /\ j \in DOMAIN Tail(s)
    BY <1>6, <2>1, <2>2, SMT
  <2>4. /\ f(s) \in [1 .. n + 1 -> Int] /\ f(Tail(s)) \in [1..n -> Int]
        /\ f(s)[1] = Len(DcaSettings[Head(s)]) /\ \A j \in 1..n : f(Tail(s))[j] = f(s)[j + 1]
    BY <1>2, <2>1, <2>2, <2>3
  <2>5. ASSUME NEW u \in Users
        PROVE  /\ g(u, s) \in [1 .. n + 1 -> Int] /\ g(u, Tail(s)) \in [1..n -> Int]
               /\ g(u, s)[1] = Count(u, DcaSettings[Head(s)])
               /\ \A j \in 1..n : g(u, Tail(s))[j] = g(u, s)[j + 1]
    BY <1>2, <2>1, <2>2, <2>3
  <2> HIDE DEF f, g
  <2>6. SumTo(f(s), n + 1) = f(s)[1] + SumTo(f(Tail(s)), n)
    BY <2>4, SumTail
  <2>7. \A u \in Users : SumTo(g(u, s), n + 1) = g(u, s)[1] + SumTo(g(u, Tail(s)), n)
    BY <2>5, SumTail
  <2> QED
    BY <2>1, <2>4, <2>5, <2>6, <2>7 DEF SwapsOf, DueIn, f, g
<1> QED
  BY <1>4, <1>5, <1>6

\* What dca_task reports asks for no more swaps than all intervals together.
LEMMA EndedFacts ==
  ASSUME NEW n \in Nat, NEW ended \in Ended(n), NEW d, d = [k \in 1..n |-> Intervals[ended[k]]]
  PROVE  d \in Seq(DOMAIN DcaSettings) /\ SwapsOf(d) <= SwapsOf(Intervals)
<1>1. PICK m \in Nat : m = Len(Intervals) /\ DOMAIN Intervals = 1..m
  BY LoopAssumption, SMTT(20)
<1>2. ended \in [1..n -> 1..m] /\ \A j, k \in 1..n : j < k => ended[j] < ended[k]
  BY <1>1 DEF Ended
<1>3. \A i \in 1..m : Intervals[i] \in DOMAIN DcaSettings
  BY <1>1, LoopAssumption, SMT
<1>4. d \in Seq(DOMAIN DcaSettings) /\ Len(d) = n /\ DOMAIN d = 1..n
  <2>1. d \in [1..n -> DOMAIN DcaSettings]
    BY <1>2, <1>3
  <2> QED
    BY <2>1, SMT
<1> DEFINE w == [k \in DOMAIN Intervals |-> Len(DcaSettings[Intervals[k]])]
           g == [k \in DOMAIN d |-> Len(DcaSettings[d[k]])]
<1>5. \A i \in DOMAIN DcaSettings : Len(DcaSettings[i]) \in Nat
  BY LoopAssumption, SMT
<1>6. w \in [1..m -> Int] /\ (\A j \in 1..m : w[j] >= 0) /\ g \in [1..n -> Int]
  BY <1>1, <1>3, <1>4, <1>5, SMT
<1>7. \A j \in 1..n : g[j] = w[ended[j]]
  BY <1>1, <1>2, <1>4
<1> HIDE DEF w, g
<1>8. SumTo(g, n) <= SumTo(w, m)
  BY <1>2, <1>6, <1>7, SumPick
<1> QED
  BY <1>1, <1>4, <1>8 DEF SwapsOf, w, g

-----------------------------------------------------------------------------
ChannelTypes ==
  /\ status \in {"up", "blocked", "down"}
  /\ at \in {"payment", "api", "invoice", "dca", "dealer", "loopback", "journal", "cli", "audit"}
  /\ dca \in Seq(DOMAIN DcaSettings) /\ loopback \in Seq(Users \cup {Withdrawal})
  /\ journal \in 0 .. JournalSize
  /\ owed \in [Users -> Int] /\ dropped \in [Users -> Int]

\* A withdrawal may have come in since the loopback was last read.
Room(s) == IF s \in {"invoice", "dca", "dealer", "loopback"} THEN 1 ELSE 0

\* What waits for the dealer, here or in the reports of dca_task, is no more
\* than the swaps of all intervals and that withdrawal.
FewWait ==
  status = "up" =>
    /\ SwapsOf(dca) <= SwapsOf(Intervals)
    /\ Len(loopback) + SwapsOf(dca) <= SwapsOf(Intervals) + Room(at)

\* The inductive invariant of the two channels.
ChannelInv == ChannelTypes /\ FewWait /\ LoopbackFits /\ DcaExact

\* The order in which the loop turns to its sources.
LEMMA AfterFacts ==
  /\ After("payment") = "api" /\ After("api") = "invoice" /\ After("invoice") = "dca"
  /\ After("dca") = "dealer" /\ After("dealer") = "loopback" /\ After("loopback") = "journal"
  /\ After("journal") = "cli" /\ After("cli") = "audit" /\ After("audit") = "payment"
<1>1. /\ DOMAIN Sources = 1..9 /\ Len(Sources) = 9 /\ Head(Sources) = "payment"
      /\ Sources[1] = "payment" /\ Sources[2] = "api" /\ Sources[3] = "invoice" /\ Sources[4] = "dca"
      /\ Sources[5] = "dealer" /\ Sources[6] = "loopback" /\ Sources[7] = "journal"
      /\ Sources[8] = "cli" /\ Sources[9] = "audit"
  BY SMT DEF Sources
<1>2. \A i, j \in 1..9 : Sources[i] = Sources[j] => i = j
  BY <1>1, SMT
<1>3. ASSUME NEW i \in 1..9
      PROVE  After(Sources[i]) = IF i = 9 THEN "payment" ELSE Sources[i + 1]
  <2>1. (CHOOSE j \in DOMAIN Sources : Sources[j] = Sources[i]) = i
    BY <1>1, <1>2
  <2> QED
    BY <1>1, <2>1 DEF After
<1>4. After(Sources[9]) = "payment" /\ \A i \in 1..8 : After(Sources[i]) = Sources[i + 1]
  BY <1>3, SMT
<1> QED
  BY <1>1, <1>4, SMT

\* A message to the journal leaves it within its size, or blocks on a full one.
LEMMA JournalFacts ==
  ASSUME journal \in 0 .. JournalSize, SendJournal
  PROVE  /\ journal' \in 0 .. JournalSize /\ status' \in {"up", "blocked"}
         /\ status' = "blocked" => journal' = JournalSize
BY LoopAssumption, SMT DEF SendJournal

\* A turn that leaves the two channels alone.
LEMMA QuietTurn ==
  ASSUME ChannelInv, status = "up", at' = After(at),
         UNCHANGED <<dca, loopback, owed, dropped>>,
         at = "loopback" => loopback = <<>>,
         status' \in {"up", "blocked", "down"}, journal' \in 0 .. JournalSize,
         status' = "blocked" => journal' = JournalSize
  PROVE  ChannelInv'
<1>1. ChannelTypes'
  BY AfterFacts DEF ChannelInv, ChannelTypes
<1>2. FewWait'
  <2>1. SwapsOf(dca) \in Nat /\ SwapsOf(Intervals) \in Nat
    BY IntervalFacts, LoopAssumption DEF ChannelInv, ChannelTypes
  <2>2. Room(at) <= Room(at') \/ at = "loopback"
    BY AfterFacts, SMT DEF Room, ChannelInv, ChannelTypes
  <2>3. Room(at) \in Nat /\ Room(at') \in Nat /\ Len(loopback) \in Nat
    BY SMT DEF Room, ChannelInv, ChannelTypes
  <2>4. at = "loopback" => Len(loopback) = 0
    BY SMT
  <2> QED
    BY <2>1, <2>2, <2>3, <2>4, SMT DEF FewWait, ChannelInv
<1>3. LoopbackFits' /\ DcaExact'
  BY DEF LoopbackFits, DcaExact, ChannelInv
<1> QED
  BY <1>1, <1>2, <1>3 DEF ChannelInv

\* A withdrawal goes to the loopback.
LEMMA WithdrawalTurn ==
  ASSUME ChannelInv, PayLnurlWithdrawalRequest
  PROVE  ChannelInv'
<1> DEFINE all == loopback \o <<Withdrawal>>
<1>1. /\ ChannelTypes /\ status = "up" /\ at = "api" /\ at' = "invoice"
      /\ UNCHANGED <<dca, journal, owed, dropped>> /\ SendLoopback(<<Withdrawal>>)
  BY AfterFacts DEF ChannelInv, PayLnurlWithdrawalRequest, Message, Turn, dcaHistory
<1>2. all \in Seq(Users \cup {Withdrawal}) /\ Len(all) = Len(loopback) + 1 /\ Len(loopback) \in Nat
  BY <1>1, SMT DEF ChannelTypes
<1>3. SwapsOf(dca) \in Nat /\ SwapsOf(Intervals) \in Nat /\ LoopbackSize \in Nat
  BY <1>1, IntervalFacts, LoopAssumption DEF ChannelTypes
<1>4. Len(loopback) + SwapsOf(dca) <= SwapsOf(Intervals) /\ SwapsOf(dca) <= SwapsOf(Intervals)
  BY <1>1, <1>3, SMT DEF ChannelInv, FewWait, Room
<1>5. CASE Len(all) <= LoopbackSize
  <2>1. loopback' = all /\ status' = "up"
    BY <1>1, <1>5 DEF SendLoopback
  <2>2. ASSUME NEW u \in Users PROVE Count(u, all) = Count(u, loopback)
    <3>1. /\ Withdrawal \in Users \cup {Withdrawal} /\ Withdrawal # u
          /\ <<Withdrawal>> \in Seq(Users \cup {Withdrawal})
      BY SMT DEF Withdrawal, Users
    <3>2. loopback \in Seq(Users \cup {Withdrawal})
      BY <1>1 DEF ChannelTypes
    <3>3. Count(u, all) = Count(u, loopback) + Count(u, <<Withdrawal>>)
      BY <3>1, <3>2, CountConcat
    <3>4. Count(u, <<Withdrawal>>) = 0 /\ Count(u, loopback) \in Int
      BY <3>1, <3>2, CountOne, CountType
    <3> QED
      BY <3>3, <3>4, SMT
  <2>3. ChannelTypes'
    BY <1>1, <1>2, <2>1 DEF ChannelTypes
  <2>4. FewWait'
    BY <1>1, <1>2, <1>3, <1>4, <2>1, SMTT(20) DEF FewWait, Room
  <2>5. LoopbackFits' /\ DcaExact'
    BY <1>1, <2>1, <2>2 DEF LoopbackFits, DcaExact, ChannelInv
  <2> QED
    BY <2>3, <2>4, <2>5 DEF ChannelInv
<1>6. CASE ~(Len(all) <= LoopbackSize)
  <2>1. loopback' = SubSeq(all, 1, LoopbackSize) /\ status' = "blocked"
    BY <1>1, <1>6 DEF SendLoopback
  <2>2. ~(SwapsOf(Intervals) < LoopbackSize)
    BY <1>2, <1>3, <1>4, <1>6, SMTT(20)
  <2>3. SubSeq(all, 1, LoopbackSize) \in Seq(Users \cup {Withdrawal})
    BY <1>2, <1>3, <1>6, SMT
  <2>4. ChannelTypes'
    BY <1>1, <2>1, <2>3 DEF ChannelTypes
  <2> QED
    BY <2>1, <2>2, <2>4 DEF ChannelInv, FewWait, LoopbackFits, DcaExact
<1> QED
  BY <1>5, <1>6

\* The swaps of an interval go to the loopback, or are dropped.
LEMMA RebalanceTurn ==
  ASSUME ChannelInv, DcaRebalance
  PROVE  ChannelInv'
<1> DEFINE due == DcaSettings[Head(dca)]
           all == loopback \o due
<1>1. /\ ChannelTypes /\ status = "up" /\ at = "dca" /\ at' = "dealer"
      /\ dca # <<>> /\ dca' = Tail(dca) /\ journal' = journal /\ owed' = owed
      /\ \/ SendLoopback(due) /\ dropped' = dropped
         \/ /\ dropped' = [u \in Users |-> dropped[u] + Count(u, due)]
            /\ UNCHANGED <<loopback, status>>
  BY AfterFacts DEF ChannelInv, DcaRebalance, Turn
<1>2. /\ due \in Seq(Users) /\ due \in Seq(Users \cup {Withdrawal}) /\ Len(due) \in Nat
      /\ dca' \in Seq(DOMAIN DcaSettings)
  <2>1. Head(dca) \in DOMAIN DcaSettings /\ Tail(dca) \in Seq(DOMAIN DcaSettings)
    BY <1>1, SMT DEF ChannelTypes
  <2>2. due \in Seq(Users)
    BY <2>1, LoopAssumption
  <2> QED
    BY <1>1, <2>1, <2>2, SMTT(20)
<1>3. /\ SwapsOf(dca) = Len(due) + SwapsOf(dca')
      /\ \A u \in Users : DueIn(u, dca) = Count(u, due) + DueIn(u, dca')
      /\ SwapsOf(dca) \in Nat /\ SwapsOf(dca') \in Nat /\ \A u \in Users : DueIn(u, dca') \in Int
  BY <1>1, <1>2, IntervalFacts DEF ChannelTypes
<1>4. ASSUME NEW u \in Users
      PROVE  /\ Count(u, all) = Count(u, loopback) + Count(u, due)
             /\ Count(u, loopback) \in Int /\ Count(u, due) \in Int
  <2>1. loopback \in Seq(Users \cup {Withdrawal})
    BY <1>1 DEF ChannelTypes
  <2> QED
    BY <1>2, <2>1, CountConcat, CountType
<1>5. all \in Seq(Users \cup {Withdrawal}) /\ Len(all) = Len(loopback) + Len(due) /\ Len(loopback) \in Nat
  BY <1>1, <1>2, SMT DEF ChannelTypes
<1>6. SwapsOf(Intervals) \in Nat /\ LoopbackSize \in Nat
  BY IntervalFacts, LoopAssumption
<1>7. Len(loopback) + SwapsOf(dca) <= SwapsOf(Intervals) + 1 /\ SwapsOf(dca) <= SwapsOf(Intervals)
  BY <1>1, <1>6 DEF ChannelInv, FewWait, Room
<1>8. \A u \in Users : /\ owed[u] = Count(u, loopback) + DueIn(u, dca) + dropped[u]
                       /\ owed[u] \in Int /\ dropped[u] \in Int
  BY <1>1 DEF ChannelInv, DcaExact, ChannelTypes
<1> HIDE DEF due, all
<1>9. CASE SendLoopback(due) /\ dropped' = dropped /\ Len(all) <= LoopbackSize
  <2>1. loopback' = all /\ status' = "up"
    BY <1>9 DEF SendLoopback, all
  <2>2. ChannelTypes'
    BY <1>1, <1>2, <1>5, <1>9, <2>1 DEF ChannelTypes
  <2>3. FewWait'
    BY <1>1, <1>2, <1>3, <1>5, <1>6, <1>7, <2>1, SMTT(20) DEF FewWait, Room
  <2>4. DcaExact' /\ LoopbackFits'
    BY <1>1, <1>3, <1>4, <1>8, <1>9, <2>1, SMTT(20) DEF DcaExact, LoopbackFits
  <2> QED
    BY <2>2, <2>3, <2>4 DEF ChannelInv
<1>10. CASE SendLoopback(due) /\ dropped' = dropped /\ ~(Len(all) <= LoopbackSize)
  <2>1. loopback' = SubSeq(all, 1, LoopbackSize) /\ status' = "blocked"
    BY <1>10 DEF SendLoopback, all
  <2>2. ~(SwapsOf(Intervals) < LoopbackSize)
    BY <1>2, <1>3, <1>5, <1>6, <1>7, <1>10, SMTT(20)
  <2>3. SubSeq(all, 1, LoopbackSize) \in Seq(Users \cup {Withdrawal})
    BY <1>5, <1>6, <1>10, SMT
  <2>4. ChannelTypes'
    BY <1>1, <1>2, <1>10, <2>1, <2>3 DEF ChannelTypes
  <2> QED
    BY <2>1, <2>2, <2>4 DEF ChannelInv, FewWait, LoopbackFits, DcaExact
<1>11. CASE /\ dropped' = [u \in Users |-> dropped[u] + Count(u, due)]
            /\ UNCHANGED <<loopback, status>>
  <2>1. ChannelTypes'
    BY <1>1, <1>2, <1>4, <1>8, <1>11, SMTT(20) DEF ChannelTypes
  <2>2. FewWait'
    BY <1>1, <1>2, <1>3, <1>5, <1>6, <1>7, <1>11, SMTT(20) DEF FewWait, Room
  <2>3. DcaExact' /\ LoopbackFits'
    BY <1>1, <1>3, <1>4, <1>8, <1>11, SMTT(20) DEF DcaExact, LoopbackFits
  <2> QED
    BY <2>1, <2>2, <2>3 DEF ChannelInv
<1> QED
  BY <1>1, <1>9, <1>10, <1>11

\* A message of the loopback is handled.
LEMMA LoopbackTurn ==
  ASSUME ChannelInv, Loopback
  PROVE  ChannelInv'
<1>1. /\ ChannelTypes /\ status = "up" /\ at = "loopback" /\ at' = "journal" /\ dca' = dca
      /\ loopback # <<>> /\ loopback' = Tail(loopback)
  BY AfterFacts DEF ChannelInv, Loopback, Turn
<1>2. /\ Head(loopback) \in Users \cup {Withdrawal} /\ loopback' \in Seq(Users \cup {Withdrawal})
      /\ Len(loopback') = Len(loopback) - 1 /\ Len(loopback) \in Nat
  BY <1>1, SMT DEF ChannelTypes
<1>3. /\ journal' \in 0 .. JournalSize /\ status' \in {"up", "blocked"}
      /\ status' = "blocked" => journal' = JournalSize
  BY <1>1, JournalFacts DEF Loopback, ChannelTypes
<1>4. ASSUME NEW u \in Users
      PROVE  /\ Count(u, loopback) = (IF Head(loopback) = u THEN 1 ELSE 0) + Count(u, loopback')
             /\ Count(u, loopback') \in Int /\ DueIn(u, dca) \in Int
  <2>1. loopback \in Seq(Users \cup {Withdrawal}) /\ dca \in Seq(DOMAIN DcaSettings)
    BY <1>1 DEF ChannelTypes
  <2> QED
    BY <1>1, <1>2, <2>1, CountTail, CountType, IntervalFacts
<1>5. SwapsOf(dca) \in Nat /\ SwapsOf(Intervals) \in Nat
  BY <1>1, IntervalFacts, LoopAssumption DEF ChannelTypes
<1>6. \A u \in Users : owed'[u] = owed[u] - (IF Head(loopback) = u THEN 1 ELSE 0)
  <2>1. Withdrawal \notin Users
    BY SMT DEF Withdrawal, Users
  <2> QED
    BY <1>1, <1>2, <2>1, SMT DEF Loopback, ChannelTypes
<1>7. owed' \in [Users -> Int] /\ dropped' = dropped
  BY <1>1, <1>2, SMT DEF Loopback, ChannelTypes
<1>8. ChannelTypes'
  BY <1>1, <1>2, <1>3, <1>7 DEF ChannelTypes
<1>9. FewWait'
  BY <1>1, <1>2, <1>5, SMT DEF FewWait, Room, ChannelInv
<1>10. LoopbackFits'
  BY <1>3 DEF LoopbackFits
<1>11. DcaExact'
  <2>1. ASSUME NEW u \in Users
        PROVE  owed'[u] = Count(u, loopback') + DueIn(u, dca') + dropped'[u]
    <3>1. PICK x \in Int, y \in Int, z \in Int, one \in {0, 1} :
            /\ x = Count(u, loopback') /\ y = DueIn(u, dca) /\ z = dropped[u]
            /\ one = IF Head(loopback) = u THEN 1 ELSE 0
      BY <1>1, <1>4 DEF ChannelTypes
    <3>2. owed'[u] = ((one + x) + y + z) - one
      BY <1>1, <1>4, <1>6, <3>1 DEF DcaExact, ChannelInv
    <3>3. ((one + x) + y + z) - one = x + y + z
      BY SMT
    <3> QED
      BY <1>1, <1>7, <3>1, <3>2, <3>3
  <2> QED
    BY <2>1 DEF DcaExact
<1> QED
  BY <1>8, <1>9, <1>10, <1>11 DEF ChannelInv

\* dca_task reports the intervals that have ended.
LEMMA TaskStep ==
  ASSUME ChannelInv, DcaTask
  PROVE  ChannelInv'
<1>1. /\ ChannelTypes /\ status = "up" /\ status' = "up" /\ dca = <<>> /\ loopback = <<>>
      /\ UNCHANGED <<at, loopback, journal, dropped>>
      /\ owed' = [u \in Users |-> owed[u] + DueIn(u, dca')]
  BY DEF ChannelInv, DcaTask
<1>2. dca' \in Seq(DOMAIN DcaSettings) /\ SwapsOf(dca') <= SwapsOf(Intervals)
  <2>1. PICK n \in 1 .. Len(Intervals) : \E ended \in Ended(n) :
          dca' = [k \in 1..n |-> Intervals[ended[k]]]
    BY DEF DcaTask
  <2>2. n \in Nat
    BY LoopAssumption, SMT
  <2> QED
    BY <2>1, <2>2, EndedFacts
<1>3. /\ SwapsOf(dca') \in Nat /\ SwapsOf(Intervals) \in Nat
      /\ \A u \in Users : DueIn(u, dca') \in Int /\ DueIn(u, <<>>) = 0
  BY <1>2, IntervalFacts, LoopAssumption
<1>4. \A u \in Users : Count(u, <<>>) = 0
  BY CountOne
<1>5. \A u \in Users : owed[u] = dropped[u] /\ dropped[u] \in Int
  BY <1>1, <1>3, <1>4, SMTT(20) DEF ChannelInv, DcaExact, ChannelTypes
<1>6. ChannelTypes'
  BY <1>1, <1>2, <1>3, SMTT(20) DEF ChannelTypes
<1>7. FewWait'
  <2>1. Len(loopback') = 0 /\ Room(at') \in Nat
    BY <1>1 DEF Room
  <2> QED
    BY <1>2, <1>3, <2>1, SMT DEF FewWait
<1>8. DcaExact' /\ LoopbackFits'
  BY <1>1, <1>3, <1>4, <1>5, SMTT(20) DEF DcaExact, LoopbackFits
<1> QED
  BY <1>6, <1>7, <1>8 DEF ChannelInv

\* A bank that starts has empty channels.
LEMMA EmptyChannels ==
  /\ Init => ChannelInv
  /\ Start => ChannelInv'
<1>1. /\ <<>> \in Seq(DOMAIN DcaSettings) /\ <<>> \in Seq(Users \cup {Withdrawal})
      /\ 0 \in 0 .. JournalSize /\ Head(Sources) = "payment" /\ Len(<<>>) = 0
  BY LoopAssumption, SMT DEF Sources
<1>2. /\ SwapsOf(<<>>) = 0 /\ SwapsOf(Intervals) \in Nat
      /\ \A u \in Users : DueIn(u, <<>>) = 0 /\ Count(u, <<>>) = 0
  BY <1>1, IntervalFacts, CountOne, LoopAssumption
<1>3. ASSUME Init PROVE ChannelInv
  BY <1>1, <1>2, <1>3, SMTT(20) DEF Init, ChannelInv, ChannelTypes, FewWait, Room, LoopbackFits, DcaExact
<1>4. ASSUME Start PROVE ChannelInv'
  BY <1>1, <1>2, <1>4, SMT DEF Start, ChannelInv, ChannelTypes, FewWait, Room, LoopbackFits, DcaExact
<1> QED
  BY <1>3, <1>4

\* Every step keeps the channels in order.
LEMMA ChannelNext == ChannelInv /\ [Next]_vars => ChannelInv'
<1> SUFFICES ASSUME ChannelInv, [Next]_vars PROVE ChannelInv'
  OBVIOUS
<1>0. ChannelTypes /\ journal \in 0 .. JournalSize /\ JournalSize \in Nat
  BY LoopAssumption DEF ChannelInv, ChannelTypes
<1>1. CASE PaymentResult \/ ApiTransaction \/ InvoiceSettled \/ DealerQuote
  <2>1. /\ SendJournal \/ UNCHANGED <<journal, status>>
        /\ status = "up" /\ at' = After(at) /\ at # "loopback"
        /\ UNCHANGED <<dca, loopback, owed, dropped>>
    BY <1>1 DEF PaymentResult, ApiTransaction, InvoiceSettled, DealerQuote, Message, Turn, dcaHistory
  <2> QED
    BY <1>0, <2>1, JournalFacts, QuietTurn
<1>2. CASE Karma \/ WriteJournal \/ Cli \/ Audit \/ Nothing
  <2>1. /\ status = "up" /\ at' = After(at) /\ (at = "loopback" => loopback = <<>>)
        /\ UNCHANGED <<dca, loopback, owed, dropped>> /\ status' \in {"up", "down"}
        /\ journal' \in 0 .. JournalSize
    BY <1>0, <1>2, SMT DEF Karma, WriteJournal, Cli, Audit, Nothing, Message, Turn, dcaHistory
  <2> QED
    BY <2>1, QuietTurn
<1>3. CASE Crash
  BY <1>0, <1>3 DEF Crash, dcaHistory, ChannelInv, ChannelTypes, FewWait, LoopbackFits, DcaExact
<1>4. CASE UNCHANGED vars
  BY <1>4 DEF vars, loopVars, dcaHistory, ChannelInv, ChannelTypes, FewWait, LoopbackFits, DcaExact
<1> QED
  BY <1>1, <1>2, <1>3, <1>4, WithdrawalTurn, RebalanceTurn, LoopbackTurn, TaskStep, EmptyChannels
  DEF Next, LoopStep

\* The loop never waits for itself on the loopback: while it has room for the
\* swaps of all intervals and one withdrawal, only a full journal blocks it.
THEOREM LoopbackNeverBlocks == Spec => []LoopbackFits
<1>1. Init => ChannelInv
  BY EmptyChannels
<1>2. ChannelInv => LoopbackFits
  BY DEF ChannelInv
<1> QED
  BY <1>1, <1>2, ChannelNext, PTL DEF Spec

\* Every recurring swap that fell due is in exactly one place, the reports of
\* dca_task or the loopback, until the dealer is asked for it, or was dropped
\* with settings that could not be read (DcaRebalance).
THEOREM LoopDcaExact == Spec => []DcaExact
<1>1. Init => ChannelInv
  BY EmptyChannels
<1>2. ChannelInv => DcaExact
  BY DEF ChannelInv
<1> QED
  BY <1>1, <1>2, ChannelNext, PTL DEF Spec
=============================================================================
