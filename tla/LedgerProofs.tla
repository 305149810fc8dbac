---------------------------- MODULE LedgerProofs ----------------------------
(***************************************************************************)
(* Facts about sums and about the ledger that hold for every number of     *)
(* users: a posting moves an amount and nothing else, and leaves the net   *)
(* balance of every currency alone.                                        *)
(*                                                                         *)
(* An induction over the partial sums is written as an argument about the  *)
(* least index at which the claim fails: NatMin, a consequence of the      *)
(* well-foundedness of < on the naturals, provides that index.             *)
(***************************************************************************)
EXTENDS LedgerLaws, TLAPS, WellFoundedInduction

\* The order of the naturals, as a set of pairs.
LessOnNat == {ss \in Nat \X Nat : ss[1] < ss[2]}

\* The order of the naturals, as a relation, is well-founded.
LEMMA NatWF == IsWellFoundedOn(LessOnNat, Nat)
BY NatLessThanWellFounded DEF OpToRel, LessOnNat

\* A set of natural numbers that is not empty has a least element.
LEMMA NatMin ==
    ASSUME NEW T, T \subseteq Nat, T # {}
    PROVE  \E x \in T : \A y \in T : x <= y
<1>1. \E x \in T : \A y \in T : ~ (<<y, x>> \in LessOnNat)
  BY NatWF, WFMin, Zenon
<1>2. PICK x \in T : \A y \in T : ~ (<<y, x>> \in LessOnNat)
  BY <1>1
<1>3. ASSUME NEW y \in T PROVE x <= y
  <2>1. x \in Nat /\ y \in Nat
    OBVIOUS
  <2>2. y < x => <<y, x>> \in LessOnNat
    BY <2>1 DEF LessOnNat
  <2>3. QED
    BY <1>2, <2>1, <2>2
<1>4. QED
  BY <1>3

\* g is the sequence of the partial sums of f.
IsPartialSum(g, f, n) ==
    g = [i \in 0..n |-> IF i = 0 THEN 0 ELSE g[i - 1] + f[i]]

\* The recursive definition of the partial sums (of balances or of gaps) has a
\* solution for every length.
LEMMA PartialSumExists ==
    ASSUME NEW m \in Nat, NEW f
    PROVE  \A n \in 0..m : \E g : IsPartialSum(g, f, n)
<1> DEFINE Bad == {n \in 0..m : ~ \E g : IsPartialSum(g, f, n)}
<1>1. SUFFICES ASSUME Bad # {} PROVE FALSE
  OBVIOUS
<1>2. PICK n \in Bad : \A k \in Bad : n <= k
  BY <1>1, NatMin, Bad \subseteq Nat, Zenon
<1>3. n # 0
  <2>1. IsPartialSum([i \in 0..0 |-> 0], f, 0)
    BY DEF IsPartialSum
  <2>2. QED
    BY <2>1
<1>4. PICK g : IsPartialSum(g, f, n - 1)
  <2>1. n - 1 \in 0..m /\ ~ (n - 1 \in Bad)
    BY <1>2, <1>3
  <2>2. QED
    BY <2>1
<1>5. IsPartialSum([i \in 0..n |-> IF i = n THEN g[n - 1] + f[n] ELSE g[i]], f, n)
  <2> DEFINE h == [i \in 0..n |-> IF i = n THEN g[n - 1] + f[n] ELSE g[i]]
  <2>1. ASSUME NEW i \in 0..n PROVE h[i] = IF i = 0 THEN 0 ELSE h[i - 1] + f[i]
    <3>1. n \in Nat /\ n # 0 /\ n - 1 \in 0..n /\ n-1 # n
      BY <1>3
    <3>2. \A j \in 0..(n-1) : g[j] = IF j = 0 THEN 0 ELSE g[j - 1] + f[j]
      BY <1>4 DEF IsPartialSum
    <3>3. CASE i = n
      BY <3>1, <3>3
    <3>4. CASE i # n
      BY <3>1, <3>2, <3>4
    <3>5. QED
      BY <3>3, <3>4
  <2>2. QED
    BY <2>1 DEF IsPartialSum
<1>6. QED
  BY <1>5

\* PartialSum satisfies its recursive definition.
LEMMA PartialSumDef ==
    ASSUME NEW n \in Nat, NEW f
    PROVE  IsPartialSum(PartialSum(f, n), f, n)
<1>1. \E g : IsPartialSum(g, f, n)
  BY PartialSumExists
<1>2. QED
  BY <1>1, SMTT(20) DEF PartialSum, IsPartialSum

\* The same, as the two equations that the proofs use.
LEMMA PartialSumStep ==
    ASSUME NEW n \in Nat, NEW f
    PROVE  /\ PartialSum(f, n)[0] = 0
           /\ \A i \in 1..n : PartialSum(f, n)[i] = PartialSum(f, n)[i - 1] + f[i]
<1> DEFINE S == PartialSum(f, n)
<1>1. S = [i \in 0..n |-> IF i = 0 THEN 0 ELSE S[i - 1] + f[i]]
  BY PartialSumDef DEF IsPartialSum
<1> HIDE DEF S
<1>2. \A i \in 0..n : S[i] = IF i = 0 THEN 0 ELSE S[i - 1] + f[i]
  BY <1>1
<1>3. /\ S[0] = 0
      /\ \A i \in 1..n : S[i] = S[i - 1] + f[i]
  BY <1>2
<1>4. QED
  BY <1>3 DEF S

\* Partial sums of integers are integers.
LEMMA PartialSumType ==
    ASSUME NEW n \in Nat, NEW f \in [1..n -> Int]
    PROVE  \A i \in 0..n : PartialSum(f, n)[i] \in Int
<1> DEFINE S == PartialSum(f, n)
           Bad == {i \in 0..n : S[i] \notin Int}
<1>1. /\ S[0] = 0
      /\ \A i \in 1..n : S[i] = S[i - 1] + f[i]
  BY PartialSumStep, SMTT(20)
<1> HIDE DEF S
<1>2. SUFFICES ASSUME Bad # {} PROVE FALSE
  BY DEF S
<1>3. PICK i \in Bad : \A k \in Bad : i <= k
  BY <1>2, NatMin, Bad \subseteq Nat, Zenon
<1>4. i # 0 /\ i \in 1..n
  BY <1>1
<1>5. i - 1 \in 0..n /\ ~ (i - 1 \in Bad)
  BY <1>3, <1>4
<1>6. S[i] \in Int
  BY <1>1, <1>4, <1>5
<1>7. QED
  BY <1>6

\* The total of integer balances is an integer.
LEMMA SumType ==
    ASSUME NEW n \in Nat, NEW f \in [1..n -> Int]
    PROVE  SumTo(f, n) \in Int
BY PartialSumType DEF SumTo

\* Changing one summand changes the sum by the difference: what a posting to
\* the account of one user does to the total of a currency.
LEMMA SumUpdate ==
    ASSUME NEW n \in Nat, NEW f \in [1..n -> Int], NEW g \in [1..n -> Int],
           NEW k \in 1..n, \A j \in 1..n : j # k => f[j] = g[j]
    PROVE  SumTo(g, n) = SumTo(f, n) + g[k] - f[k]
<1> DEFINE F == PartialSum(f, n)
           G == PartialSum(g, n)
           d == g[k] - f[k]
           Bad == {i \in 0..n : G[i] # F[i] + (IF i >= k THEN d ELSE 0)}
<1>1. /\ F[0] = 0
      /\ \A i \in 1..n : F[i] = F[i - 1] + f[i]
      /\ \A i \in 0..n : F[i] \in Int
  BY PartialSumStep, PartialSumType, Zenon
<1>2. /\ G[0] = 0
      /\ \A i \in 1..n : G[i] = G[i - 1] + g[i]
      /\ \A i \in 0..n : G[i] \in Int
  BY PartialSumStep, PartialSumType, Zenon
<1> HIDE DEF F, G
<1>3. Bad = {}
  <2>1. SUFFICES ASSUME Bad # {} PROVE FALSE
    OBVIOUS
  <2>2. PICK i \in Bad : \A m \in Bad : i <= m
    BY <2>1, NatMin, Bad \subseteq Nat, Zenon
  <2>3. i \in 1..n
    BY <1>1, <1>2
  <2>4. i - 1 \in 0..n /\ ~ (i - 1 \in Bad)
    BY <2>2, <2>3
  <2>5. G[i - 1] = F[i - 1] + (IF i - 1 >= k THEN d ELSE 0)
    BY <2>4
  <2>6. f[i] \in Int /\ g[i] \in Int /\ f[k] \in Int /\ g[k] \in Int
    BY <2>3
  <2>7. G[i] = F[i] + (IF i >= k THEN d ELSE 0)
    <3>1. /\ F[i] = F[i - 1] + f[i] /\ G[i] = G[i - 1] + g[i]
          /\ F[i - 1] \in Int /\ G[i - 1] \in Int
      BY <1>1, <1>2, <2>3, <2>4
    <3>2. CASE i < k
      <4>1. f[i] = g[i] /\ ~(i >= k) /\ ~(i - 1 >= k)
        BY <2>3, <3>2
      <4> QED
        BY <2>5, <2>6, <3>1, <4>1, SMTT(20)
    <3>3. CASE i = k
      <4>1. i >= k /\ ~(i - 1 >= k)
        BY <2>3, <3>3
      <4> QED
        BY <2>5, <2>6, <3>1, <3>3, <4>1, SMTT(20)
    <3>4. CASE i > k
      <4>1. f[i] = g[i] /\ i >= k /\ i - 1 >= k
        BY <2>3, <3>4
      <4>2. d \in Int
        BY <2>6
      <4> HIDE DEF d
      <4> QED
        BY <2>5, <2>6, <3>1, <4>1, <4>2, SMTT(20)
    <3>5. QED
      BY <2>3, <3>2, <3>3, <3>4
  <2>8. QED
    BY <2>7
<1>4. G[n] = F[n] + d
  BY <1>3, SMTT(20)
<1>5. F[n] \in Int /\ f[k] \in Int /\ g[k] \in Int
  BY <1>1
<1>6. QED
  BY <1>4, <1>5 DEF SumTo, F, G

\* Equal summands have equal sums.
LEMMA SumSame ==
    ASSUME NEW n \in Nat, NEW f \in [1..n -> Int], NEW g \in [1..n -> Int],
           \A j \in 1..n : f[j] = g[j]
    PROVE  SumTo(g, n) = SumTo(f, n)
BY f = g

\* A sum of natural numbers is a natural number, and of zeros is zero.
LEMMA SumNat ==
    ASSUME NEW n \in Nat, NEW f \in [1..n -> Int], \A j \in 1..n : f[j] >= 0
    PROVE  /\ SumTo(f, n) \in Nat
           /\ (\A j \in 1..n : f[j] = 0) => SumTo(f, n) = 0
<1> DEFINE F == PartialSum(f, n)
           Neg == {i \in 0..n : F[i] < 0}
           NonZero == {i \in 0..n : F[i] # 0}
<1>1. /\ F[0] = 0
      /\ \A i \in 1..n : F[i] = F[i - 1] + f[i]
      /\ \A i \in 0..n : F[i] \in Int
  BY PartialSumStep, PartialSumType, Zenon
<1> HIDE DEF F
<1>2. Neg = {}
  <2>1. SUFFICES ASSUME Neg # {} PROVE FALSE
    OBVIOUS
  <2>2. PICK i \in Neg : \A m \in Neg : i <= m
    BY <2>1, NatMin, Neg \subseteq Nat, Zenon
  <2>3. i \in 1..n
    BY <1>1
  <2>4. i - 1 \in 0..n /\ ~(i - 1 \in Neg)
    BY <2>2, <2>3
  <2>5. F[i - 1] >= 0 /\ F[i] = F[i - 1] + f[i] /\ f[i] >= 0 /\ f[i] \in Int
        /\ F[i - 1] \in Int
    BY <1>1, <2>3, <2>4, SMTT(20)
  <2> QED
    BY <2>5, SMTT(20)
<1>3. ASSUME \A j \in 1..n : f[j] = 0 PROVE NonZero = {}
  <2>1. SUFFICES ASSUME NonZero # {} PROVE FALSE
    OBVIOUS
  <2>2. PICK i \in NonZero : \A m \in NonZero : i <= m
    BY <2>1, NatMin, NonZero \subseteq Nat, Zenon
  <2>3. i \in 1..n
    BY <1>1
  <2>4. i - 1 \in 0..n /\ ~(i - 1 \in NonZero)
    BY <2>2, <2>3
  <2>5. F[i - 1] = 0 /\ F[i] = F[i - 1] + f[i] /\ f[i] = 0
    BY <1>1, <1>3, <2>3, <2>4
  <2> QED
    BY <2>5
<1> QED
  BY <1>1, <1>2, <1>3, SMTT(20) DEF SumTo, F

\* The sum of the sums is the sum of both.
LEMMA SumAdd ==
    ASSUME NEW n \in Nat, NEW f \in [1..n -> Int], NEW g \in [1..n -> Int],
           NEW h \in [1..n -> Int], \A j \in 1..n : h[j] = f[j] + g[j]
    PROVE  SumTo(h, n) = SumTo(f, n) + SumTo(g, n)
<1> DEFINE F == PartialSum(f, n)
           G == PartialSum(g, n)
           H == PartialSum(h, n)
           Bad == {i \in 0..n : H[i] # F[i] + G[i]}
<1>1. /\ F[0] = 0
      /\ \A i \in 1..n : F[i] = F[i - 1] + f[i]
      /\ \A i \in 0..n : F[i] \in Int
  BY PartialSumStep, PartialSumType, Zenon
<1>2. /\ G[0] = 0
      /\ \A i \in 1..n : G[i] = G[i - 1] + g[i]
      /\ \A i \in 0..n : G[i] \in Int
  BY PartialSumStep, PartialSumType, Zenon
<1>3. /\ H[0] = 0
      /\ \A i \in 1..n : H[i] = H[i - 1] + h[i]
      /\ \A i \in 0..n : H[i] \in Int
  BY PartialSumStep, PartialSumType, Zenon
<1> HIDE DEF F, G, H
<1>4. Bad = {}
  <2>1. SUFFICES ASSUME Bad # {} PROVE FALSE
    OBVIOUS
  <2>2. PICK i \in Bad : \A m \in Bad : i <= m
    BY <2>1, NatMin, Bad \subseteq Nat, Zenon
  <2>3. i \in 1..n
    BY <1>1, <1>2, <1>3
  <2>4. i - 1 \in 0..n /\ ~ (i - 1 \in Bad)
    BY <2>2, <2>3
  <2>5. /\ F[i] = F[i - 1] + f[i] /\ G[i] = G[i - 1] + g[i] /\ H[i] = H[i - 1] + h[i]
        /\ h[i] = f[i] + g[i] /\ H[i - 1] = F[i - 1] + G[i - 1]
        /\ F[i - 1] \in Int /\ G[i - 1] \in Int /\ f[i] \in Int /\ g[i] \in Int
    BY <1>1, <1>2, <1>3, <2>3, <2>4
  <2>6. H[i] = F[i] + G[i]
    BY <2>5, SMTT(20)
  <2> QED
    BY <2>6
<1>5. H[n] = F[n] + G[n]
  BY <1>4
<1> QED
  BY <1>5 DEF SumTo, F, G, H

\* Shares of an amount that are in proportion to f and rounded down are not
\* more than the amount together.
LEMMA SumShare ==
    ASSUME NEW n \in Nat, NEW f \in [1..n -> Nat], NEW g \in [1..n -> Nat],
           NEW a \in Nat, NEW T \in Nat, T > 0, SumTo(f, n) = T,
           \A j \in 1..n : g[j] * T <= f[j] * a
    PROVE  SumTo(g, n) <= a
<1> DEFINE F == PartialSum(f, n)
           G == PartialSum(g, n)
           Bad == {i \in 0..n : ~(G[i] * T <= F[i] * a)}
<1>0. f \in [1..n -> Int] /\ g \in [1..n -> Int] /\ a \in Int /\ T \in Int
  OBVIOUS
<1>1. /\ F[0] = 0
      /\ \A i \in 1..n : F[i] = F[i - 1] + f[i]
      /\ \A i \in 0..n : F[i] \in Int
  BY <1>0, PartialSumStep, PartialSumType, Zenon
<1>2. /\ G[0] = 0
      /\ \A i \in 1..n : G[i] = G[i - 1] + g[i]
      /\ \A i \in 0..n : G[i] \in Int
  BY <1>0, PartialSumStep, PartialSumType, Zenon
<1> HIDE DEF F, G
<1>3. \A x, y, z \in Int : (x + y) * z = x * z + y * z /\ x * z \in Int /\ 0 * z = 0
  OBVIOUS
<1>4. Bad = {}
  <2>1. SUFFICES ASSUME Bad # {} PROVE FALSE
    OBVIOUS
  <2>2. PICK i \in Bad : \A m \in Bad : i <= m
    BY <2>1, NatMin, Bad \subseteq Nat, Zenon
  <2>3. i \in 1..n
    BY <1>1, <1>2, <1>3
  <2>4. i - 1 \in 0..n /\ ~ (i - 1 \in Bad)
    BY <2>2, <2>3
  <2>5. /\ F[i] = F[i - 1] + f[i] /\ G[i] = G[i - 1] + g[i]
        /\ G[i - 1] * T <= F[i - 1] * a /\ g[i] * T <= f[i] * a
        /\ F[i - 1] \in Int /\ G[i - 1] \in Int /\ f[i] \in Int /\ g[i] \in Int
    BY <1>1, <1>2, <2>3, <2>4
  <2>6. G[i] * T = G[i - 1] * T + g[i] * T /\ F[i] * a = F[i - 1] * a + f[i] * a
    <3>1. PICK p \in Int, q \in Int, r \in Int, s \in Int :
            p = G[i - 1] /\ q = g[i] /\ r = F[i - 1] /\ s = f[i]
      BY <2>5, Zenon
    <3>2. (p + q) * T = p * T + q * T /\ (r + s) * a = r * a + s * a
      OBVIOUS
    <3> QED
      BY <2>5, <3>1, <3>2, Zenon
  <2>7. PICK p \in Int, q \in Int, r \in Int, s \in Int :
          p = G[i - 1] * T /\ q = g[i] * T /\ r = F[i - 1] * a /\ s = f[i] * a
    BY <1>0, <1>3, <2>5, Zenon
  <2>8. p <= r /\ q <= s /\ G[i] * T = p + q /\ F[i] * a = r + s
    BY <2>5, <2>6, <2>7, Zenon
  <2>9. p + q <= r + s
    BY <2>8
  <2>10. G[i] * T <= F[i] * a
    BY <2>8, <2>9, Zenon
  <2> QED
    BY <2>10
<1>5. G[n] * T <= T * a /\ G[n] \in Int
  <2>1. n \in 0..n /\ F[n] = T
    BY DEF SumTo, F
  <2>2. G[n] * T <= F[n] * a
    BY <1>4, <2>1, Zenon
  <2> QED
    BY <1>2, <2>1, <2>2
<1>6. \A x, y, z \in Int : z > 0 /\ x * z <= z * y => x <= y
  OBVIOUS
<1>7. G[n] <= a
  BY <1>5, <1>6
<1> QED
  BY <1>7 DEF SumTo, G

-----------------------------------------------------------------------------
\* Adding x to one account adds x to the net balance of its currency and
\* leaves the other currencies alone (the tally of reconcile_ledger).
LEMMA NetBalanceAdd ==
  ASSUME NEW l \in [Accounts -> Int], NEW m \in [Accounts -> Int],
         NEW a \in Accounts, NEW x \in Int, NEW c \in Currency,
         m[a] = l[a] + x, \A b \in Accounts : b # a => m[b] = l[b]
  PROVE  /\ NetBalance(l, c) \in Int
         /\ NetBalance(m, c) = NetBalance(l, c) + (IF a[2] = c THEN x ELSE 0)
<1> DEFINE f == [u \in Users |-> l[UserAccount(u, c)]]
<1> DEFINE g == [u \in Users |-> m[UserAccount(u, c)]]
<1>0. NumUsers \in Nat /\ BTC \notin Fiat
  BY LedgerAssumption
<1>1. /\ \A u \in Users : UserAccount(u, c) \in Accounts
      /\ DealerAccount(c) \in Accounts
      /\ BankLiability \in Accounts /\ DealerExternal \in Accounts
  BY DEF Accounts
<1>3. f \in [1 .. NumUsers -> Int] /\ g \in [1 .. NumUsers -> Int]
  BY <1>1 DEF Users
<1>4. SumTo(f, NumUsers) \in Int /\ SumTo(g, NumUsers) \in Int
  BY <1>0, <1>3, SumType, Zenon
<1>5. NetBalance(l, c) \in Int
  BY <1>1, <1>4 DEF NetBalance
<1>6. CASE \E u \in Users, d \in Currency : a = UserAccount(u, d)
  <2>1. PICK u \in Users, d \in Currency : a = UserAccount(u, d)
    BY <1>6
  <2>2. /\ m[DealerAccount(c)] = l[DealerAccount(c)]
        /\ m[BankLiability] = l[BankLiability]
        /\ m[DealerExternal] = l[DealerExternal]
    BY <1>0, <1>1, <2>1
    DEF UserAccount, DealerAccount, BankLiability, DealerExternal, Users, BANK_UID, DEALER_UID
  <2>3. CASE d = c
    <3>1. \A v \in 1 .. NumUsers : v # u => g[v] = f[v]
      BY <1>1, <2>1, <2>3 DEF UserAccount, Users
    <3>2. g[u] = f[u] + x
      BY <1>1, <2>1, <2>3 DEF UserAccount, Users
    <3>3. SumTo(g, NumUsers) = SumTo(f, NumUsers) + g[u] - f[u]
      <4> HIDE DEF f, g
      <4>1. u \in 1 .. NumUsers
        BY DEF Users
      <4> QED
        BY <1>0, <1>3, <3>1, <4>1, SumUpdate, Zenon
    <3>4. SumTo(g, NumUsers) = SumTo(f, NumUsers) + x
      BY <1>3, <1>4, <3>2, <3>3, SMTT(20) DEF Users
    <3>5. a[2] = c
      BY <2>1, <2>3 DEF UserAccount
    <3> QED
      BY <1>1, <1>4, <1>5, <2>2, <3>4, <3>5 DEF NetBalance
  <2>4. CASE d # c
    <3>1. g = f
      BY <1>1, <2>1, <2>4 DEF UserAccount
    <3>2. a[2] # c
      BY <2>1, <2>4 DEF UserAccount
    <3> QED
      BY <1>1, <1>5, <2>2, <3>1, <3>2 DEF NetBalance
  <2> QED
    BY <2>3, <2>4
<1>7. CASE a \notin { UserAccount(u, d) : u \in Users, d \in Currency }
  <2>1. g = f
    BY <1>1, <1>7
  <2>2. PICK d \in Currency : a = DealerAccount(d) \/ (d = BTC /\ a \in {BankLiability, DealerExternal})
    BY <1>7 DEF Accounts, Currency
  <2>3. CASE a = DealerAccount(d)
    <3>1. m[BankLiability] = l[BankLiability] /\ m[DealerExternal] = l[DealerExternal]
      BY <1>1, <2>3 DEF DealerAccount, BankLiability, DealerExternal, BANK_UID, DEALER_UID
    <3>2. m[DealerAccount(c)] = l[DealerAccount(c)] + (IF d = c THEN x ELSE 0)
      BY <1>1, <2>3 DEF DealerAccount
    <3>3. a[2] = d
      BY <2>3 DEF DealerAccount
    <3> QED
      BY <1>1, <1>4, <1>5, <2>1, <3>1, <3>2, <3>3 DEF NetBalance
  <2>4. CASE d = BTC /\ a \in {BankLiability, DealerExternal}
    <3>1. m[DealerAccount(c)] = l[DealerAccount(c)]
      BY <1>1, <2>4 DEF DealerAccount, BankLiability, DealerExternal, BANK_UID, DEALER_UID
    <3>2. m[BankLiability] + m[DealerExternal] = l[BankLiability] + l[DealerExternal] + x
      BY <1>1, <2>4 DEF BankLiability, DealerExternal, BANK_UID, DEALER_UID
    <3>3. a[2] = BTC
      BY <2>4 DEF BankLiability, DealerExternal
    <3> QED
      BY <1>1, <1>4, <1>5, <2>1, <3>1, <3>2, <3>3 DEF NetBalance
  <2> QED
    BY <2>2, <2>3, <2>4
<1> QED
  BY <1>5, <1>6, <1>7

\* A posting between two different accounts of one currency moves the amount
\* and leaves every net balance alone (make_tx, whose clones are put back).
LEMMA PostBalanced ==
  ASSUME NEW l \in [Accounts -> Int], NEW out \in Accounts, NEW in \in Accounts,
         out # in, out[2] = in[2], NEW amount \in Int
  PROVE  /\ Post(l, out, in, amount) \in [Accounts -> Int]
         /\ Post(l, out, in, amount)[out] = l[out] - amount
         /\ Post(l, out, in, amount)[in] = l[in] + amount
         /\ \A a \in Accounts \ {out, in} : Post(l, out, in, amount)[a] = l[a]
         /\ \A c \in Currency : NetBalance(Post(l, out, in, amount), c) = NetBalance(l, c)
<1> DEFINE p == Post(l, out, in, amount)
<1>1. PICK m \in [Accounts -> Int] :
        m[out] = l[out] + (-amount) /\ \A b \in Accounts : b # out => m[b] = l[b]
  <2>1. [l EXCEPT ![out] = l[out] + (-amount)] \in [Accounts -> Int]
    OBVIOUS
  <2> QED
    BY <2>1, Zenon
<1>2. /\ p \in [Accounts -> Int]
      /\ p[out] = l[out] - amount
      /\ p[in] = l[in] + amount
      /\ \A a \in Accounts \ {out, in} : p[a] = l[a]
  BY DEF Post
<1>3. p[in] = m[in] + amount /\ \A b \in Accounts : b # in => p[b] = m[b]
  BY <1>1, <1>2
<1> HIDE DEF p
<1>4. ASSUME NEW c \in Currency PROVE NetBalance(p, c) = NetBalance(l, c)
  <2>0. -amount \in Int
    OBVIOUS
  <2>1. NetBalance(l, c) \in Int
        /\ NetBalance(m, c) = NetBalance(l, c) + (IF out[2] = c THEN -amount ELSE 0)
    BY <1>1, <2>0, NetBalanceAdd
  <2>2. NetBalance(p, c) = NetBalance(m, c) + (IF in[2] = c THEN amount ELSE 0)
    BY <1>2, <1>3, NetBalanceAdd, SMTT(20)
  <2> QED
    BY <2>1, <2>2
<1> QED
  BY <1>2, <1>4 DEF p

\* The accounts that handlers post to are accounts of the ledger, two of
\* different owners or types are different, and each has its currency.
LEMMA AccountFacts ==
  /\ \A u \in Users, c \in Currency :
       /\ UserAccount(u, c) \in Accounts /\ UserAccount(u, c)[2] = c
       /\ UserAccount(u, c) # BankLiability /\ UserAccount(u, c) # DealerExternal
       /\ \A d \in Currency : UserAccount(u, c) # DealerAccount(d)
       /\ \A v \in Users, d \in Currency :
            UserAccount(u, c) = UserAccount(v, d) => u = v /\ c = d
  /\ \A c \in Currency :
       /\ DealerAccount(c) \in Accounts /\ DealerAccount(c)[2] = c
       /\ DealerAccount(c) # BankLiability /\ DealerAccount(c) # DealerExternal
       /\ \A d \in Currency : DealerAccount(c) = DealerAccount(d) => c = d
  /\ BankLiability \in Accounts /\ BankLiability[2] = BTC
  /\ DealerExternal \in Accounts /\ DealerExternal[2] = BTC
  /\ BankLiability # DealerExternal
  /\ BTC \in Currency
BY LedgerAssumption DEF Accounts, UserAccount, DealerAccount, BankLiability,
  DealerExternal, Users, Currency, BANK_UID, DEALER_UID

\* An exchanged amount is a whole number of units, and the unit rate changes
\* nothing (Money::exchange).
LEMMA ExchangeType ==
  /\ \A v \in Int, rate \in (Nat \ {0}) \X (Nat \ {0}) : Exchange(v, rate) \in Int
  /\ \A v \in Int : Exchange(v, UnitRate) = v
BY DEF Exchange, UnitRate

\* An exchanged amount is not negative.
LEMMA ExchangeNat ==
  ASSUME NEW v \in Nat, NEW rate \in (Nat \ {0}) \X (Nat \ {0})
  PROVE  Exchange(v, rate) \in Nat
<1>1. rate[1] \in Nat /\ rate[2] \in Nat /\ rate[2] > 0
  OBVIOUS
<1>2. \A n, m \in Nat : n * m \in Nat
  OBVIOUS
<1>3. \A n, m \in Nat : m > 0 => n \div m \in Nat
  OBVIOUS
<1> QED
  BY <1>1, <1>2, <1>3 DEF Exchange

\* What the audit says of a ledger after a posting that takes no more from a
\* user than they have.
LEMMA PostReconciles ==
  ASSUME NEW l \in [Accounts -> Int], reconcile_ledger(l),
         NEW out \in Accounts, NEW in \in Accounts, out # in, out[2] = in[2],
         NEW amount \in Int, amount > 0,
         \A u \in Users, c \in Currency : out = UserAccount(u, c) => l[out] >= amount
  PROVE  reconcile_ledger(Post(l, out, in, amount))
<1> DEFINE p == Post(l, out, in, amount)
<1>1. /\ p[out] = l[out] - amount
      /\ p[in] = l[in] + amount
      /\ \A a \in Accounts \ {out, in} : p[a] = l[a]
  BY DEF Post
<1>2. \A c \in Currency : NetBalance(p, c) = NetBalance(l, c)
  BY PostBalanced
<1> HIDE DEF p
<1>3. ASSUME NEW u \in Users, NEW c \in Currency
      PROVE  p[UserAccount(u, c)] >= 0
  <2>1. UserAccount(u, c) \in Accounts /\ l[UserAccount(u, c)] \in Int
        /\ l[UserAccount(u, c)] >= 0
    BY AccountFacts DEF reconcile_ledger
  <2> QED
    BY <1>1, <2>1
<1> QED
  BY <1>2, <1>3 DEF reconcile_ledger, p

\* The laws that the proofs about the bank assume of sums, accounts, exchanges
\* and postings hold.
THEOREM LedgerLawsHold == LedgerLaws
<1>1. SumLaw
  BY SumType, SumUpdate, Zenon DEF SumLaw
<1>2. AccountLaw
  BY AccountFacts, Zenon DEF AccountLaw
<1>3. ExchangeLaw
  BY ExchangeType, ExchangeNat, Zenon DEF ExchangeLaw
<1>4. PostLaw
  BY PostReconciles, Zenon DEF PostLaw
<1> QED
  BY <1>1, <1>2, <1>3, <1>4 DEF LedgerLaws
=============================================================================
