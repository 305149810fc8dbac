---------------------------- MODULE QuotesProofs ----------------------------
(***************************************************************************)
(* The theorems about the dealer's prices, for every number of users,      *)
(* currencies and order sizes, all books whose bids are below their asks,  *)
(* every spread and every life of a quote.                                 *)
(*                                                                         *)
(* The walk of update_quotes stops, for every size, where the book has     *)
(* given as much as the size asks for or all it has, and has paid for it   *)
(* what the levels cost: an invariant of the inner loop (Sound), carried   *)
(* from one size to the next.                                              *)
(***************************************************************************)
EXTENDS DealerQuotes, LedgerProofs

\* The prover of a step that names none.
USE Zenon

-----------------------------------------------------------------------------
(***************************************************************************)
(* The two loops are defined.                                              *)
(***************************************************************************)
IsRounds(R, w, price, volume, m) ==
  R = [n \in 0 .. m |-> IF n = 0 THEN w ELSE Round(R[n - 1], price, volume)]

\* The rounds of the inner loop have a solution for every number of rounds.
LEMMA RoundsExist ==
  ASSUME NEW w, NEW price, NEW volume, NEW m \in Nat
  PROVE  \A n \in 0 .. m : \E R : IsRounds(R, w, price, volume, n)
<1> DEFINE Bad == {n \in 0 .. m : ~ \E R : IsRounds(R, w, price, volume, n)}
<1>1. SUFFICES ASSUME Bad # {} PROVE FALSE
  OBVIOUS
<1> Bad \subseteq Nat
  BY SMT
<1>2. PICK n \in Bad : \A k \in Bad : n <= k
  BY <1>1, NatMin
<1>3. n # 0
  <2>1. IsRounds([i \in 0 .. 0 |-> w], w, price, volume, 0)
    BY SMT DEF IsRounds
  <2> QED
    BY <2>1
<1>4. PICK R : IsRounds(R, w, price, volume, n - 1)
  <2>1. n - 1 \in 0 .. m /\ ~ (n - 1 \in Bad)
    BY <1>2, <1>3, SMT
  <2> QED
    BY <2>1
<1> DEFINE Q == [i \in 0 .. n |-> IF i = n THEN Round(R[n - 1], price, volume) ELSE R[i]]
<1>5. ASSUME NEW i \in 0 .. n PROVE Q[i] = IF i = 0 THEN w ELSE Round(Q[i - 1], price, volume)
  <2>1. n \in Nat /\ n - 1 \in 0 .. n /\ n - 1 # n
    BY <1>3, SMT
  <2>2. \A j \in 0 .. n - 1 : R[j] = IF j = 0 THEN w ELSE Round(R[j - 1], price, volume)
    BY <1>4 DEF IsRounds
  <2>3. CASE i = n
    BY <1>3, <2>1, <2>3
  <2>4. CASE i # n
    <3>1. i \in 0 .. n - 1 /\ (i # 0 => i - 1 \in 0 .. n /\ i - 1 # n)
      BY <2>1, <2>4, SMT
    <3> QED
      BY <2>2, <2>4, <3>1
  <2> QED
    BY <2>3, <2>4
<1>6. IsRounds(Q, w, price, volume, n)
  BY <1>5 DEF IsRounds
<1> QED
  BY <1>6

\* The rounds of the inner loop, as the two equations that the proofs use.
LEMMA RoundsStep ==
  ASSUME NEW w, NEW price, NEW volume
  PROVE  /\ Rounds(w, price, volume)[0] = w
         /\ \A n \in 1 .. MaxPrice + 1 :
              Rounds(w, price, volume)[n] = Round(Rounds(w, price, volume)[n - 1], price, volume)
<1> DEFINE R == Rounds(w, price, volume)
<1>1. MaxPrice + 1 \in Nat
  BY QuotesAssumption, SMT
<1>2. \E Q : IsRounds(Q, w, price, volume, MaxPrice + 1)
  <2>1. MaxPrice + 1 \in 0 .. MaxPrice + 1
    BY <1>1, SMT
  <2> QED
    BY <1>1, <2>1, RoundsExist
<1>3. R = [n \in 0 .. MaxPrice + 1 |-> IF n = 0 THEN w ELSE Round(R[n - 1], price, volume)]
  BY <1>2 DEF Rounds, IsRounds
<1> HIDE DEF R
<1>4. 0 \in 0 .. MaxPrice + 1 /\ \A n \in 1 .. MaxPrice + 1 : n \in 0 .. MaxPrice + 1 /\ n # 0
  BY <1>1, SMT
<1>5. R[0] = w /\ \A n \in 1 .. MaxPrice + 1 : R[n] = Round(R[n - 1], price, volume)
  BY <1>3, <1>4
<1> QED
  BY <1>5 DEF R

IsWalk(W, price, volume, m) ==
  W = [i \in 0 .. m |-> IF i = 0 THEN Start ELSE Match(Resumed(W[i - 1], i), price, volume)]

\* The loop over the sizes has a solution for every number of sizes.
LEMMA WalkExists ==
  ASSUME NEW price, NEW volume, NEW m \in Nat
  PROVE  \A n \in 0 .. m : \E W : IsWalk(W, price, volume, n)
<1> DEFINE Bad == {n \in 0 .. m : ~ \E W : IsWalk(W, price, volume, n)}
<1>1. SUFFICES ASSUME Bad # {} PROVE FALSE
  OBVIOUS
<1> Bad \subseteq Nat
  BY SMT
<1>2. PICK n \in Bad : \A k \in Bad : n <= k
  BY <1>1, NatMin
<1>3. n # 0
  <2>1. IsWalk([i \in 0 .. 0 |-> Start], price, volume, 0)
    BY SMT DEF IsWalk
  <2> QED
    BY <2>1
<1>4. PICK W : IsWalk(W, price, volume, n - 1)
  <2>1. n - 1 \in 0 .. m /\ ~ (n - 1 \in Bad)
    BY <1>2, <1>3, SMT
  <2> QED
    BY <2>1
<1> DEFINE Q == [i \in 0 .. n |-> IF i = n THEN Match(Resumed(W[n - 1], n), price, volume) ELSE W[i]]
<1>5. ASSUME NEW i \in 0 .. n PROVE Q[i] = IF i = 0 THEN Start ELSE Match(Resumed(Q[i - 1], i), price, volume)
  <2>1. n \in Nat /\ n - 1 \in 0 .. n /\ n - 1 # n
    BY <1>3, SMT
  <2>2. \A j \in 0 .. n - 1 : W[j] = IF j = 0 THEN Start ELSE Match(Resumed(W[j - 1], j), price, volume)
    BY <1>4 DEF IsWalk
  <2>3. CASE i = n
    BY <1>3, <2>1, <2>3
  <2>4. CASE i # n
    <3>1. i \in 0 .. n - 1 /\ (i # 0 => i - 1 \in 0 .. n /\ i - 1 # n)
      BY <2>1, <2>4, SMT
    <3> QED
      BY <2>2, <2>4, <3>1
  <2> QED
    BY <2>3, <2>4
<1>6. IsWalk(Q, price, volume, n)
  BY <1>5 DEF IsWalk
<1> QED
  BY <1>6

\* The loop over the sizes, as the two equations that the proofs use.
LEMMA WalkStep ==
  ASSUME NEW price, NEW volume
  PROVE  /\ Walk(price, volume)[0] = Start
         /\ \A i \in 1 .. Len(Quantities) :
              Walk(price, volume)[i] = Match(Resumed(Walk(price, volume)[i - 1], i), price, volume)
<1> DEFINE W == Walk(price, volume)
           m == Len(Quantities)
<1>1. m \in Nat
  BY QuotesAssumption, SMT
<1> HIDE DEF m
<1>2. \E Q : IsWalk(Q, price, volume, m)
  <2>1. m \in 0 .. m
    BY <1>1, SMT
  <2> QED
    BY <1>1, <2>1, WalkExists
<1>3. W = [i \in 0 .. m |-> IF i = 0 THEN Start ELSE Match(Resumed(W[i - 1], i), price, volume)]
  BY <1>2 DEF Walk, IsWalk, m
<1> HIDE DEF W
<1>4. 0 \in 0 .. m /\ \A i \in 1 .. m : i \in 0 .. m /\ i # 0
  BY <1>1, SMT
<1>5. W[0] = Start /\ \A i \in 1 .. m : W[i] = Match(Resumed(W[i - 1], i), price, volume)
  BY <1>3, <1>4
<1> QED
  BY <1>5 DEF W, m

-----------------------------------------------------------------------------
(***************************************************************************)
(* The walk.                                                               *)
(***************************************************************************)
Walks == [level : 0 .. MaxPrice, price : Nat, left : Nat, sofar : Nat, num : Nat, toMatch : Nat]

Costs(price, volume) == [k \in Prices |-> price[k] * volume[k]]

\* What was taken and what is left at the level reached is the volume up to
\* there, and so is the cost.
Sound(w, price, volume) ==
  /\ w \in Walks
  /\ w.sofar + w.left = PartialSum(volume, MaxPrice)[w.level]
  /\ w.num + w.price * w.left = PartialSum(Costs(price, volume), MaxPrice)[w.level]
  /\ w.left > 0 => /\ w.level \in Prices /\ w.price = price[w.level]
                   /\ w.left <= volume[w.level]

\* The inner loop has ended.
Done(w) == w.toMatch = 0 \/ (w.level = MaxPrice /\ w.left = 0)

LEMMA Products ==
  /\ \A x, y \in Nat : x * y \in Nat
  /\ \A x, y, z \in Nat : x <= y => x * z <= y * z
  /\ \A p \in Nat, x, y \in Int : p * (x - y) = p * x - p * y
  /\ \A p \in Nat : p * 0 = 0 /\ 0 * p = 0
BY SMT

\* Taking n units leaves a walk.
LEMMA TakenWalks ==
  ASSUME NEW w, NEW n, NEW level \in 0 .. MaxPrice, NEW price \in Nat, NEW left \in Nat,
         w.sofar + n \in Nat, w.num + w.price * n \in Nat, w.toMatch - n \in Nat
  PROVE  Taken(w, n, level, price, left) \in Walks
BY DEF Taken, Walks

\* The volumes and the costs up to each level of a side.
LEMMA SideSums ==
  ASSUME NEW price \in Sides, NEW volume \in Sides
  PROVE  /\ MaxPrice \in Nat /\ Costs(price, volume) \in Sides
         /\ \A s \in Sides :
              /\ PartialSum(s, MaxPrice)[0] = 0
              /\ \A k \in Prices : PartialSum(s, MaxPrice)[k] = PartialSum(s, MaxPrice)[k - 1] + s[k]
              /\ \A k \in 0 .. MaxPrice : PartialSum(s, MaxPrice)[k] \in Int
              /\ SumTo(s, MaxPrice) = PartialSum(s, MaxPrice)[MaxPrice]
<1>1. MaxPrice \in Nat
  BY QuotesAssumption
<1>2. Costs(price, volume) \in Sides
  BY Products DEF Costs, Sides
<1>3. ASSUME NEW s \in Sides
      PROVE  /\ PartialSum(s, MaxPrice)[0] = 0
             /\ \A k \in Prices : PartialSum(s, MaxPrice)[k] = PartialSum(s, MaxPrice)[k - 1] + s[k]
             /\ \A k \in 0 .. MaxPrice : PartialSum(s, MaxPrice)[k] \in Int
             /\ SumTo(s, MaxPrice) = PartialSum(s, MaxPrice)[MaxPrice]
  <2>1. s \in [1 .. MaxPrice -> Int]
    BY SMT DEF Sides, Prices
  <2> QED
    BY <1>1, <2>1, PartialSumStep, PartialSumType DEF Prices, SumTo
<1> QED
  BY <1>1, <1>2, <1>3

\* One round keeps the walk sound and what the size asks for, and ends the loop
\* or reaches the next level.
LEMMA RoundSound ==
  ASSUME NEW price \in Sides, NEW volume \in Sides, NEW w, Sound(w, price, volume)
  PROVE  LET v == Round(w, price, volume)
         IN /\ Sound(v, price, volume)
            /\ v.sofar + v.toMatch = w.sofar + w.toMatch
            /\ Done(w) => Done(v)
            /\ Done(v) \/ v.level = w.level + 1
<1> DEFINE v == Round(w, price, volume)
           V == PartialSum(volume, MaxPrice)
           C == PartialSum(Costs(price, volume), MaxPrice)
<1>0. /\ w \in Walks /\ MaxPrice \in Nat
      /\ w.level \in 0 .. MaxPrice /\ w.price \in Nat /\ w.left \in Nat /\ w.sofar \in Nat /\ w.num \in Nat
      /\ w.toMatch \in Nat /\ w.price * w.left \in Nat /\ w.price * w.toMatch \in Nat
  BY SideSums, Products DEF Sound, Walks
<1>1. /\ w.sofar + w.left = V[w.level] /\ w.num + w.price * w.left = C[w.level]
      /\ w.left > 0 => w.level \in Prices /\ w.price = price[w.level] /\ w.left <= volume[w.level]
  BY DEF Sound
<1> HIDE DEF V, C
<1>2. CASE w.toMatch <= w.left
  <2>1. v = Taken(w, w.toMatch, w.level, w.price, w.left - w.toMatch)
    BY <1>2 DEF Round
  <2> HIDE DEF v
  <2>2. /\ v.level = w.level /\ v.price = w.price /\ v.left = w.left - w.toMatch
        /\ v.sofar = w.sofar + w.toMatch /\ v.num = w.num + w.price * w.toMatch
        /\ v.toMatch = w.toMatch - w.toMatch
    BY <2>1 DEF Taken
  <2>3. v.left \in Nat /\ v.sofar \in Nat /\ v.num \in Nat /\ v.toMatch = 0 /\ v.toMatch \in Nat
    BY <1>0, <1>2, <2>2, SMT
  <2>4. v \in Walks
    BY <1>0, <2>1, <2>2, <2>3, TakenWalks
  <2>5. v.price * v.left = w.price * w.left - w.price * w.toMatch
    <3>1. w.left \in Int /\ w.toMatch \in Int
      BY <1>0, SMT
    <3>2. w.price * (w.left - w.toMatch) = w.price * w.left - w.price * w.toMatch
      BY <1>0, <3>1, Products
    <3> QED
      BY <2>2, <3>2
  <2>6. v.sofar + v.left = V[v.level] /\ v.num + v.price * v.left = C[v.level]
    <3>1. v.sofar + v.left = w.sofar + w.left
      BY <1>0, <2>2, SMT
    <3>2. v.num + v.price * v.left = w.num + w.price * w.left
      <4>1. w.num \in Nat /\ w.price * w.left \in Nat /\ w.price * w.toMatch \in Nat
        BY <1>0
      <4>2. (w.num + w.price * w.toMatch) + (w.price * w.left - w.price * w.toMatch) = w.num + w.price * w.left
        BY <4>1, SMT
      <4> QED
        BY <2>2, <2>5, <4>2
    <3> QED
      BY <1>1, <2>2, <3>1, <3>2
  <2>7. v.left > 0 => v.level \in Prices /\ v.price = price[v.level] /\ v.left <= volume[v.level]
    BY <1>0, <1>1, <1>2, <2>2, SMT DEF Sides
  <2>8. v.sofar + v.toMatch = w.sofar + w.toMatch
    BY <1>0, <2>2, <2>3, SMT
  <2> QED
    BY <2>3, <2>4, <2>6, <2>7, <2>8 DEF Sound, Done, V, C, v
<1>3. CASE ~(w.toMatch <= w.left) /\ w.level = MaxPrice
  <2>1. v = Taken(w, w.left, w.level, 0, 0)
    BY <1>3 DEF Round
  <2> HIDE DEF v
  <2>2. /\ v.level = w.level /\ v.price = 0 /\ v.left = 0
        /\ v.sofar = w.sofar + w.left /\ v.num = w.num + w.price * w.left
        /\ v.toMatch = w.toMatch - w.left
    BY <2>1 DEF Taken
  <2>3. /\ v.left \in Nat /\ v.price \in Nat /\ v.sofar \in Nat /\ v.num \in Nat /\ v.toMatch \in Nat
        /\ v.price * v.left = 0
    BY <1>0, <1>3, <2>2, SMT
  <2>4. v \in Walks
    BY <1>0, <2>1, <2>2, <2>3, TakenWalks
  <2>5. v.sofar + v.left = V[v.level] /\ v.num + v.price * v.left = C[v.level]
    <3>1. v.sofar + v.left = v.sofar /\ v.num + 0 = v.num
      BY <2>2, <2>3, SMT
    <3> QED
      BY <1>1, <2>2, <2>3, <3>1
  <2>6. v.sofar + v.toMatch = w.sofar + w.toMatch /\ ~(v.left > 0)
    BY <1>0, <2>2, <2>3, SMT
  <2> QED
    BY <1>3, <2>2, <2>4, <2>5, <2>6 DEF Sound, Done, V, C, v
<1>4. CASE ~(w.toMatch <= w.left) /\ w.level # MaxPrice
  <2> DEFINE k == w.level + 1
  <2>0. k \in Prices /\ k \in 0 .. MaxPrice /\ k - 1 = w.level
    BY <1>0, <1>4, SMT DEF Prices
  <2>1. v = Taken(w, w.left, k, price[k], volume[k])
    BY <1>4 DEF Round
  <2> HIDE DEF v, k
  <2>2. /\ v.level = k /\ v.price = price[k] /\ v.left = volume[k]
        /\ v.sofar = w.sofar + w.left /\ v.num = w.num + w.price * w.left
        /\ v.toMatch = w.toMatch - w.left
    BY <2>1 DEF Taken
  <2>3. v.left \in Nat /\ v.price \in Nat /\ v.sofar \in Nat /\ v.num \in Nat /\ v.toMatch \in Nat
    BY <1>0, <1>4, <2>0, <2>2, SMT DEF Sides
  <2>4. v \in Walks
    BY <2>0, <2>1, <2>2, <2>3, TakenWalks
  <2>5. V[k] = V[w.level] + v.left /\ C[k] = C[w.level] + v.price * v.left
    <3>1. V[k] = V[k - 1] + volume[k] /\ C[k] = C[k - 1] + Costs(price, volume)[k]
      BY <2>0, SideSums DEF V, C
    <3>2. Costs(price, volume)[k] = v.price * v.left
      BY <2>0, <2>2 DEF Costs
    <3> QED
      BY <2>0, <2>2, <3>1, <3>2
  <2>6. v.sofar + v.left = V[v.level] /\ v.num + v.price * v.left = C[v.level]
    BY <1>1, <2>2, <2>5
  <2>7. v.left <= volume[v.level]
    BY <2>2, <2>3, SMT
  <2>8. v.sofar + v.toMatch = w.sofar + w.toMatch
    BY <1>0, <2>2, SMT
  <2>9. ~Done(w)
    BY <1>0, <1>4, SMT DEF Done
  <2> QED
    BY <2>0, <2>2, <2>4, <2>6, <2>7, <2>8, <2>9 DEF Sound, V, C, v, k
<1> QED
  BY <1>2, <1>3, <1>4

\* The inner loop ends within as many rounds as there are prices and one.
LEMMA MatchSound ==
  ASSUME NEW price \in Sides, NEW volume \in Sides, NEW w, Sound(w, price, volume)
  PROVE  LET v == Match(w, price, volume)
         IN /\ Sound(v, price, volume) /\ Done(v)
            /\ v.sofar + v.toMatch = w.sofar + w.toMatch
<1> DEFINE R == Rounds(w, price, volume)
           Good(n) == /\ Sound(R[n], price, volume) /\ R[n].sofar + R[n].toMatch = w.sofar + w.toMatch
                      /\ Done(R[n]) \/ R[n].level >= n
           Bad == {n \in 0 .. MaxPrice + 1 : ~Good(n)}
<1>0. MaxPrice \in Nat /\ MaxPrice + 1 \in 0 .. MaxPrice + 1
  BY QuotesAssumption, SMT
<1>1. R[0] = w /\ \A n \in 1 .. MaxPrice + 1 : R[n] = Round(R[n - 1], price, volume)
  BY RoundsStep, SMT
<1> HIDE DEF R
<1>2. Bad = {}
  <2> SUFFICES ASSUME Bad # {} PROVE FALSE
    OBVIOUS
  <2> Bad \subseteq Nat
    BY <1>0, SMT
  <2>1. PICK n \in Bad : \A k \in Bad : n <= k
    BY NatMin
  <2>2. n # 0
    <3>1. w.level >= 0
      BY <1>0, SMT DEF Sound, Walks
    <3> QED
      BY <1>1, <3>1
  <2>3. n \in 1 .. MaxPrice + 1 /\ n - 1 \in 0 .. MaxPrice + 1 /\ ~(n - 1 \in Bad)
    BY <1>0, <2>1, <2>2, SMT
  <2>4. Good(n - 1)
    BY <2>3
  <2>5. /\ Sound(R[n], price, volume)
        /\ R[n].sofar + R[n].toMatch = w.sofar + w.toMatch
        /\ Done(R[n - 1]) => Done(R[n])
        /\ Done(R[n]) \/ R[n].level = R[n - 1].level + 1
    <3>1. Sound(R[n - 1], price, volume) /\ R[n] = Round(R[n - 1], price, volume)
      BY <1>1, <2>3, <2>4
    <3>2. /\ Sound(R[n], price, volume)
          /\ R[n].sofar + R[n].toMatch = R[n - 1].sofar + R[n - 1].toMatch
          /\ Done(R[n - 1]) => Done(R[n])
          /\ Done(R[n]) \/ R[n].level = R[n - 1].level + 1
      <4>1. LET v == Round(R[n - 1], price, volume)
            IN /\ Sound(v, price, volume)
               /\ v.sofar + v.toMatch = R[n - 1].sofar + R[n - 1].toMatch
               /\ Done(R[n - 1]) => Done(v)
               /\ Done(v) \/ v.level = R[n - 1].level + 1
        BY <3>1, RoundSound
      <4> QED
        BY <3>1, <4>1
    <3> QED
      BY <2>4, <3>2
  <2>6. Done(R[n]) \/ R[n].level >= n
    <3>1. R[n - 1].level \in Int /\ n \in Int
      <4>1. R[n - 1].level \in 0 .. MaxPrice
        BY <2>4 DEF Sound, Walks
      <4> QED
        BY <1>0, <4>1, SMT
    <3>2. R[n - 1].level >= n - 1 /\ R[n].level = R[n - 1].level + 1 => R[n].level >= n
      BY <3>1, SMT
    <3> QED
      BY <2>4, <2>5, <3>2
  <2> QED
    BY <2>5, <2>6
<1>3. Good(MaxPrice + 1)
  BY <1>0, <1>2
<1>4. ~(R[MaxPrice + 1].level >= MaxPrice + 1)
  BY <1>0, <1>3, SMT DEF Sound, Walks
<1> QED
  BY <1>3, <1>4 DEF Match, R

\* Every size is left sound and ended, with what it asked for split into what
\* was taken and what it lacks.
LEMMA WalkSound ==
  ASSUME NEW price \in Sides, NEW volume \in Sides
  PROVE  \A i \in Sizes : LET w == Walk(price, volume)[i]
                          IN /\ Sound(w, price, volume) /\ Done(w)
                             /\ w.sofar + w.toMatch = Quantities[i]
<1> DEFINE W == Walk(price, volume)
           m == Len(Quantities)
           Good(i) == /\ Sound(W[i], price, volume)
                      /\ i = 0 => W[i].sofar = 0
                      /\ i # 0 => Done(W[i]) /\ W[i].sofar + W[i].toMatch = Quantities[i]
           Bad == {i \in 0 .. m : ~Good(i)}
<1>0. m \in Nat /\ Sizes = 1 .. m
  BY QuotesAssumption, SMT DEF Sizes
<1>1. W[0] = Start /\ \A i \in 1 .. m : W[i] = Match(Resumed(W[i - 1], i), price, volume)
  BY WalkStep
<1>2. \A i \in 1 .. m : Quantities[i] \in Nat /\ Quantities[i] > 0 /\ (i > 1 => Quantities[i - 1] < Quantities[i])
  <2>1. Quantities \in Seq(Nat \ {0}) /\ \A i \in DOMAIN Quantities : i > 1 => Quantities[i - 1] < Quantities[i]
    BY QuotesAssumption
  <2>2. ASSUME NEW i \in 1 .. m PROVE Quantities[i] \in Nat /\ Quantities[i] > 0
    BY <2>1, SMT
  <2>3. DOMAIN Quantities = 1 .. m
    BY <2>1, SMT
  <2> QED
    BY <2>1, <2>2, <2>3
<1> HIDE DEF W, m
<1>3. Bad = {}
  <2> SUFFICES ASSUME Bad # {} PROVE FALSE
    OBVIOUS
  <2> Bad \subseteq Nat
    BY <1>0, SMT
  <2>1. PICK i \in Bad : \A k \in Bad : i <= k
    BY NatMin
  <2>2. i # 0
    <3>1. Start \in Walks /\ Start.level = 0 /\ Start.sofar = 0 /\ Start.num = 0 /\ Start.price = 0 /\ Start.left = 0
      BY QuotesAssumption, SMT DEF Start, Walks
    <3>2. /\ PartialSum(volume, MaxPrice)[0] = 0
          /\ PartialSum(Costs(price, volume), MaxPrice)[0] = 0
      BY SideSums
    <3>3. Start.sofar + Start.left = 0 /\ Start.num + Start.price * Start.left = 0 /\ ~(Start.left > 0)
      BY <3>1, SMT
    <3>4. Sound(Start, price, volume)
      BY <3>1, <3>2, <3>3 DEF Sound
    <3> QED
      BY <1>1, <3>1, <3>4
  <2>3. i \in 1 .. m /\ i - 1 \in 0 .. m /\ ~(i - 1 \in Bad)
    BY <1>0, <2>1, <2>2, SMT
  <2>4. Good(i - 1)
    BY <2>3
  <2> DEFINE u == W[i - 1]
             r == Resumed(u, i)
  <2>5. u \in Walks /\ u.sofar \in Nat /\ u.toMatch \in Nat
    BY <2>4 DEF Sound, Walks
  <2>6. u.sofar <= Quantities[i]
    <3>1. CASE i - 1 = 0
      BY <1>2, <2>3, <2>4, <3>1, SMT
    <3>2. CASE i - 1 # 0
      <4>1. u.sofar + u.toMatch = Quantities[i - 1] /\ i - 1 \in 1 .. m /\ i > 1
        BY <1>0, <2>3, <2>4, <3>2, SMT
      <4>2. Quantities[i - 1] \in Nat /\ Quantities[i] \in Nat /\ Quantities[i - 1] < Quantities[i]
        BY <1>2, <2>3, <4>1
      <4> QED
        BY <2>5, <4>1, <4>2, SMT
    <3> QED
      BY <3>1, <3>2
  <2> HIDE DEF u
  <2>7. /\ r.level = u.level /\ r.price = u.price /\ r.left = u.left /\ r.sofar = u.sofar /\ r.num = u.num
        /\ r.toMatch = Quantities[i] - u.sofar /\ r \in Walks
    BY <1>2, <2>3, <2>5, <2>6, SMT DEF Resumed, Walks
  <2> HIDE DEF r
  <2>8. Sound(r, price, volume)
    BY <2>4, <2>7 DEF Sound, u
  <2>9. W[i] = Match(r, price, volume)
    BY <1>1, <2>3 DEF r, u
  <2>10. Sound(W[i], price, volume) /\ Done(W[i]) /\ W[i].sofar + W[i].toMatch = r.sofar + r.toMatch
    <3>1. LET v == Match(r, price, volume)
          IN Sound(v, price, volume) /\ Done(v) /\ v.sofar + v.toMatch = r.sofar + r.toMatch
      BY <2>8, MatchSound
    <3> QED
      BY <2>9, <3>1
  <2>11. r.sofar + r.toMatch = Quantities[i]
    BY <1>2, <2>3, <2>5, <2>7, SMT
  <2> QED
    BY <2>2, <2>10, <2>11
<1>4. \A i \in 1 .. m : i \in 0 .. m /\ i # 0
  BY <1>0, SMT
<1> QED
  BY <1>0, <1>3, <1>4 DEF W

-----------------------------------------------------------------------------
(***************************************************************************)
(* What the walk has taken is what the book gives.                         *)
(***************************************************************************)
\* A sum of volumes does not fall.
LEMMA VolumesGrow ==
  ASSUME NEW volume \in Sides, NEW j \in 0 .. MaxPrice, NEW k \in 0 .. MaxPrice, j <= k
  PROVE  PartialSum(volume, MaxPrice)[j] <= PartialSum(volume, MaxPrice)[k]
<1> DEFINE V == PartialSum(volume, MaxPrice)
           Bad == {n \in 0 .. MaxPrice : j <= n /\ ~(V[j] <= V[n])}
<1>1. /\ MaxPrice \in Nat /\ \A n \in 0 .. MaxPrice : V[n] \in Int
      /\ \A n \in 1 .. MaxPrice : V[n] = V[n - 1] + volume[n] /\ volume[n] \in Nat
  BY SideSums DEF Prices, Sides
<1> HIDE DEF V
<1>2. SUFFICES ASSUME Bad # {} PROVE FALSE
  BY DEF V
<1> Bad \subseteq Nat
  BY <1>1, SMT
<1>3. PICK n \in Bad : \A x \in Bad : n <= x
  BY <1>2, NatMin
<1>4. n # j
  BY <1>1, <1>3, SMT
<1>5. n \in 1 .. MaxPrice /\ n - 1 \in 0 .. MaxPrice /\ j <= n - 1 /\ ~(n - 1 \in Bad)
  BY <1>1, <1>3, <1>4, SMT
<1>6. V[j] <= V[n - 1] /\ V[n] = V[n - 1] + volume[n] /\ volume[n] \in Nat
  BY <1>1, <1>5
<1>7. V[j] <= V[n]
  BY <1>1, <1>5, <1>6, SMT
<1> QED
  BY <1>3, <1>7

\* A size is matched exactly when the book can fill it.
LEMMA WalkFills ==
  ASSUME NEW price \in Sides, NEW volume \in Sides, NEW i \in Sizes
  PROVE  LET w == Walk(price, volume)[i]
         IN w.toMatch = 0 <=> SumTo(volume, MaxPrice) >= Quantities[i]
<1> DEFINE w == Walk(price, volume)[i]
           V == PartialSum(volume, MaxPrice)
<1>1. Sound(w, price, volume) /\ Done(w) /\ w.sofar + w.toMatch = Quantities[i]
  BY WalkSound
<1>2. MaxPrice \in Nat /\ SumTo(volume, MaxPrice) = V[MaxPrice] /\ \A k \in 0 .. MaxPrice : V[k] \in Int
  BY SideSums
<1> HIDE DEF w
<1>3. /\ w.level \in 0 .. MaxPrice /\ w.left \in Nat /\ w.sofar \in Nat /\ w.toMatch \in Nat
      /\ w.sofar + w.left = V[w.level]
  BY <1>1 DEF Sound, Walks
<1>4. V[w.level] <= V[MaxPrice]
  <2>1. MaxPrice \in 0 .. MaxPrice /\ w.level <= MaxPrice
    BY <1>2, <1>3, SMT
  <2> QED
    BY <1>3, <2>1, VolumesGrow
<1> HIDE DEF V
<1>5. w.toMatch = 0 <=> V[MaxPrice] >= Quantities[i]
  <2>1. V[MaxPrice] \in Int
    BY <1>2, SMT
  <2>2. CASE w.toMatch = 0
    BY <1>1, <1>3, <1>4, <2>1, <2>2, SMT
  <2>3. CASE w.level = MaxPrice /\ w.left = 0
    BY <1>1, <1>3, <2>1, <2>3, SMT
  <2> QED
    BY <1>1, <2>2, <2>3 DEF Done
<1> QED
  BY <1>2, <1>5 DEF w

\* What each level gives to a size that the walk has matched: all its volume
\* before the level reached, what is not left there, and nothing beyond.
LEMMA WalkGives ==
  ASSUME NEW price \in Sides, NEW volume \in Sides, NEW w, Sound(w, price, volume), NEW k \in Prices
  PROVE  /\ k < w.level => Given(volume, w.sofar, k) = volume[k]
         /\ k = w.level => Given(volume, w.sofar, k) = volume[k] - w.left /\ w.left <= volume[k]
         /\ k > w.level => Given(volume, w.sofar, k) = 0
<1> DEFINE V == PartialSum(volume, MaxPrice)
           a == w.level
<1>1. /\ MaxPrice \in Nat /\ \A n \in 0 .. MaxPrice : V[n] \in Int
      /\ \A n \in Prices : V[n] = V[n - 1] + volume[n]
  BY SideSums
<1>2. /\ a \in 0 .. MaxPrice /\ w.left \in Nat /\ w.sofar \in Nat /\ w.sofar + w.left = V[a]
      /\ w.left > 0 => w.left <= volume[a]
  BY DEF Sound, Walks
<1>3. k \in Nat /\ k - 1 \in 0 .. MaxPrice /\ k \in 0 .. MaxPrice /\ volume[k] \in Nat
  BY <1>1, SMT DEF Prices, Sides
<1>4. \A m, n \in 0 .. MaxPrice : m <= n => V[m] <= V[n]
  BY VolumesGrow
<1>5. Given(volume, w.sofar, k) =
        IF w.sofar - V[k - 1] <= 0 THEN 0
        ELSE IF w.sofar - V[k - 1] <= volume[k] THEN w.sofar - V[k - 1] ELSE volume[k]
  BY DEF Given
<1>6. V[k] = V[k - 1] + volume[k] /\ V[k] \in Int /\ V[k - 1] \in Int /\ V[a] \in Int
  BY <1>1, <1>2, <1>3
<1> HIDE DEF V, a
<1>7. CASE k < a
  <2>1. a \in Prices /\ a - 1 \in 0 .. MaxPrice /\ k <= a - 1
    BY <1>1, <1>2, <1>3, <1>7, SMT DEF Prices
  <2>2. V[a] = V[a - 1] + volume[a] /\ V[a - 1] \in Int /\ V[k] <= V[a - 1] /\ volume[a] \in Nat
    BY <1>1, <1>3, <1>4, <2>1 DEF Sides
  <2>3. V[k] <= w.sofar
    BY <1>2, <1>6, <2>2, SMT
  <2>4. Given(volume, w.sofar, k) = volume[k]
    BY <1>2, <1>3, <1>5, <1>6, <2>3, SMT
  <2>5. ~(k = a) /\ ~(k > a)
    BY <1>2, <1>3, <1>7, SMT
  <2> QED
    BY <2>4, <2>5 DEF a
<1>8. CASE k = a
  <2>1. w.left <= volume[k]
    BY <1>2, <1>3, <1>8, SMT
  <2>2. Given(volume, w.sofar, k) = volume[k] - w.left
    BY <1>2, <1>3, <1>5, <1>6, <1>8, <2>1, SMT
  <2>3. ~(k < a) /\ ~(k > a)
    BY <1>3, <1>8, SMT
  <2> QED
    BY <2>1, <2>2, <2>3 DEF a
<1>9. CASE k > a
  <2>1. a <= k - 1
    BY <1>2, <1>3, <1>9, SMT
  <2>2. V[a] <= V[k - 1]
    BY <1>2, <1>3, <1>4, <2>1
  <2>3. Given(volume, w.sofar, k) = 0
    BY <1>2, <1>3, <1>5, <1>6, <2>2, SMT
  <2>4. ~(k < a) /\ ~(k = a)
    BY <1>2, <1>3, <1>9, SMT
  <2> QED
    BY <2>3, <2>4 DEF a
<1> QED
  <2>1. k < a \/ k = a \/ k > a
    BY <1>2, <1>3, SMT
  <2> QED
    BY <1>7, <1>8, <1>9, <2>1

\* The numerator is what the book charges for the units taken.
LEMMA WalkCost ==
  ASSUME NEW price \in Sides, NEW volume \in Sides, NEW w, Sound(w, price, volume)
  PROVE  w.num = Cost(price, volume, w.sofar)
<1> DEFINE G == [k \in Prices |-> price[k] * Given(volume, w.sofar, k)]
           T == PartialSum(G, MaxPrice)
           C == PartialSum(Costs(price, volume), MaxPrice)
           a == w.level
           Good(k) == (k < a => T[k] = C[k]) /\ (k >= a => T[k] = w.num)
           Bad == {k \in 0 .. MaxPrice : ~Good(k)}
<1>1. /\ MaxPrice \in Nat /\ \A n \in 0 .. MaxPrice : C[n] \in Int
      /\ C[0] = 0 /\ \A n \in Prices : C[n] = C[n - 1] + price[n] * volume[n]
  BY SideSums DEF Costs
<1>2. /\ a \in 0 .. MaxPrice /\ w.left \in Nat /\ w.num \in Nat /\ w.price \in Nat
      /\ w.num + w.price * w.left = C[a] /\ (w.left > 0 => a \in Prices /\ w.price = price[a])
  BY DEF Sound, Walks
<1>3. \A k \in Prices : /\ k < a => G[k] = price[k] * volume[k]
                        /\ k = a => G[k] = price[k] * (volume[k] - w.left)
                        /\ k > a => G[k] = price[k] * 0
  <2> SUFFICES ASSUME NEW k \in Prices
               PROVE  /\ k < a => G[k] = price[k] * volume[k]
                      /\ k = a => G[k] = price[k] * (volume[k] - w.left)
                      /\ k > a => G[k] = price[k] * 0
    OBVIOUS
  <2>1. G[k] = price[k] * Given(volume, w.sofar, k)
    OBVIOUS
  <2>2. /\ k < a => Given(volume, w.sofar, k) = volume[k]
        /\ k = a => Given(volume, w.sofar, k) = volume[k] - w.left /\ w.left <= volume[k]
        /\ k > a => Given(volume, w.sofar, k) = 0
    BY WalkGives, SMT
  <2> HIDE DEF G, a
  <2> QED
    BY <2>1, <2>2
<1>4. \A k \in Prices : price[k] \in Nat /\ volume[k] \in Nat
  BY DEF Sides
<1>5. T[0] = 0 /\ \A k \in Prices : T[k] = T[k - 1] + G[k]
  BY <1>1, PartialSumStep DEF Prices
<1> HIDE DEF G, T, C, a
<1>6. w.price * w.left = 0 \/ (a \in Prices /\ w.price = price[a])
  BY <1>2, SMT
<1>7. Bad = {}
  <2> SUFFICES ASSUME Bad # {} PROVE FALSE
    OBVIOUS
  <2> Bad \subseteq Nat
    BY <1>1, SMT
  <2>1. PICK k \in Bad : \A n \in Bad : k <= n
    BY NatMin
  <2>2. k # 0
    <3>1. a = 0 => w.left = 0
      BY <1>2, SMT DEF Prices
    <3>2. a = 0 => w.num = 0
      BY <1>1, <1>2, <3>1, SMT
    <3>3. 0 >= a => a = 0
      BY <1>2, SMT
    <3> QED
      BY <1>1, <1>5, <3>2, <3>3
  <2>3. k \in Prices /\ k - 1 \in 0 .. MaxPrice /\ ~(k - 1 \in Bad) /\ k \in Int /\ a \in Int
    BY <1>1, <1>2, <2>1, <2>2, SMT DEF Prices
  <2>4. Good(k - 1) /\ T[k] = T[k - 1] + G[k] /\ C[k] = C[k - 1] + price[k] * volume[k]
    BY <1>1, <1>5, <2>3
  <2>5. CASE k < a
    <3>1. k - 1 < a /\ ~(k >= a)
      BY <2>3, <2>5, SMT
    <3> QED
      BY <1>3, <2>1, <2>3, <2>4, <2>5, <3>1
  <2>6. CASE k = a
    <3>1. k - 1 < a /\ ~(k < a)
      BY <2>3, <2>6, SMT
    <3>2. T[k] = C[k - 1] + price[k] * (volume[k] - w.left)
      BY <1>3, <2>3, <2>4, <2>6, <3>1
    <3>3. price[k] * (volume[k] - w.left) = price[k] * volume[k] - price[k] * w.left
      <4>1. volume[k] \in Int /\ w.left \in Int
        BY <1>2, <1>4, <2>3, SMT
      <4> QED
        BY <1>4, <2>3, <4>1, Products
    <3>4. w.price * w.left = price[k] * w.left
      <4>1. w.left = 0 \/ w.left > 0
        BY <1>2, SMT
      <4>2. price[k] * 0 = 0 /\ w.price * 0 = 0
        BY <1>2, <1>4, <2>3, Products
      <4> QED
        BY <1>2, <2>6, <4>1, <4>2
    <3>5. price[k] * volume[k] \in Nat /\ price[k] * w.left \in Nat /\ C[k - 1] \in Int
      BY <1>1, <1>2, <1>4, <2>3, Products
    <3>6. w.num + price[k] * w.left = C[k - 1] + price[k] * volume[k]
      BY <1>2, <2>4, <2>6, <3>4
    <3>7. C[k - 1] + (price[k] * volume[k] - price[k] * w.left) = w.num
      BY <1>2, <3>5, <3>6, SMT
    <3>8. T[k] = w.num
      BY <3>2, <3>3, <3>7
    <3> QED
      BY <2>1, <3>1, <3>8
  <2>7. CASE k > a
    <3>1. k - 1 >= a /\ ~(k < a)
      BY <2>3, <2>7, SMT
    <3>2. price[k] * 0 = 0 /\ w.num + 0 = w.num
      BY <1>2, <1>4, <2>3, Products, SMT
    <3>3. T[k] = w.num
      BY <1>3, <2>3, <2>4, <2>7, <3>1, <3>2
    <3> QED
      BY <2>1, <3>1, <3>3
  <2> QED
    <3>1. k < a \/ k = a \/ k > a
      BY <2>3, SMT
    <3> QED
      BY <2>5, <2>6, <2>7, <3>1
<1>8. MaxPrice \in 0 .. MaxPrice /\ MaxPrice >= a
  BY <1>1, <1>2, SMT
<1>9. T[MaxPrice] = w.num
  BY <1>7, <1>8
<1> QED
  BY <1>9 DEF Cost, SumTo, G, T

-----------------------------------------------------------------------------
(***************************************************************************)
(* Average prices.                                                         *)
(***************************************************************************)
\* What a side charges for the units taken lies between its best and its worst
\* price.
LEMMA CostBounds ==
  ASSUME NEW price \in Sides, NEW volume \in Sides, NEW w, Sound(w, price, volume),
         NEW A \in Nat, NEW B \in Nat,
         \A k \in Prices : volume[k] > 0 => A <= price[k] /\ price[k] <= B
  PROVE  A * w.sofar <= w.num /\ w.num <= B * w.sofar
<1> DEFINE V == PartialSum(volume, MaxPrice)
           C == PartialSum(Costs(price, volume), MaxPrice)
           a == w.level
           Good(k) == V[k] \in Nat /\ A * V[k] <= C[k] /\ C[k] <= B * V[k]
           Bad == {k \in 0 .. MaxPrice : ~Good(k)}
<1>1. /\ MaxPrice \in Nat /\ V[0] = 0 /\ C[0] = 0
      /\ \A n \in 0 .. MaxPrice : C[n] \in Int /\ V[n] \in Int
      /\ \A n \in Prices : V[n] = V[n - 1] + volume[n] /\ C[n] = C[n - 1] + price[n] * volume[n]
  BY SideSums DEF Costs
<1>2. /\ a \in 0 .. MaxPrice /\ w.left \in Nat /\ w.num \in Nat /\ w.price \in Nat /\ w.sofar \in Nat
      /\ w.sofar + w.left = V[a] /\ w.num + w.price * w.left = C[a]
      /\ w.left > 0 => a \in Prices /\ w.price = price[a] /\ w.left <= volume[a]
  BY DEF Sound, Walks
<1>3. \A k \in Prices : price[k] \in Nat /\ volume[k] \in Nat
  BY DEF Sides
<1>4. ASSUME NEW k \in Prices, NEW n \in Nat, n <= volume[k]
      PROVE  price[k] * n \in Nat /\ A * n <= price[k] * n /\ price[k] * n <= B * n
  <2>1. n = 0 \/ (volume[k] > 0 /\ A <= price[k] /\ price[k] <= B)
    BY <1>3, <1>4, SMT
  <2>2. n = 0 => price[k] * n = 0 /\ A * n = 0 /\ B * n = 0
    BY <1>3, Products
  <2>3. price[k] * n \in Nat /\ 0 <= 0
    BY <1>3, Products, SMT
  <2> QED
    BY <1>3, <2>1, <2>2, <2>3, Products
<1>5. \A x, y \in Nat : A * (x + y) = A * x + A * y /\ B * (x + y) = B * x + B * y
  BY SMT
<1> HIDE DEF V, C, a
<1>6. ASSUME NEW c \in Int, NEW x \in Nat, NEW y \in Nat, NEW z \in Nat,
             A * x <= c, c <= B * x, A * y <= z, z <= B * y
      PROVE  A * (x + y) <= c + z /\ c + z <= B * (x + y)
  <2>1. A * x \in Nat /\ A * y \in Nat /\ B * x \in Nat /\ B * y \in Nat
    BY Products
  <2>2. A * x + A * y <= c + z /\ c + z <= B * x + B * y
    BY <1>6, <2>1, SMT
  <2> QED
    BY <1>5, <2>2
<1>7. Bad = {}
  <2> SUFFICES ASSUME Bad # {} PROVE FALSE
    OBVIOUS
  <2> Bad \subseteq Nat
    BY <1>1, SMT
  <2>1. PICK k \in Bad : \A n \in Bad : k <= n
    BY NatMin
  <2>2. k # 0
    <3>1. 0 \in Nat /\ A * 0 <= 0 /\ 0 <= B * 0
      BY SMT
    <3> QED
      BY <1>1, <3>1
  <2>3. k \in Prices /\ k - 1 \in 0 .. MaxPrice /\ ~(k - 1 \in Bad)
    BY <1>1, <2>1, <2>2, SMT DEF Prices
  <2>4. Good(k - 1) /\ V[k] = V[k - 1] + volume[k] /\ C[k] = C[k - 1] + price[k] * volume[k]
    BY <1>1, <2>3
  <2>5. volume[k] \in Nat /\ volume[k] <= volume[k]
    BY <1>3, <2>3, SMT
  <2>6. /\ price[k] * volume[k] \in Nat
        /\ A * volume[k] <= price[k] * volume[k] /\ price[k] * volume[k] <= B * volume[k]
    BY <1>4, <2>3, <2>5
  <2>7. C[k - 1] \in Int /\ V[k - 1] + volume[k] \in Nat
    BY <1>1, <2>3, <2>4, <2>5, SMT
  <2>8. /\ A * (V[k - 1] + volume[k]) <= C[k - 1] + price[k] * volume[k]
        /\ C[k - 1] + price[k] * volume[k] <= B * (V[k - 1] + volume[k])
    BY <1>6, <2>4, <2>5, <2>6, <2>7
  <2> QED
    BY <2>1, <2>4, <2>7, <2>8
<1>8. CASE w.left = 0
  <2>1. w.price * w.left = 0
    BY <1>2, <1>8, Products
  <2>2. w.sofar = V[a] /\ w.num = C[a]
    BY <1>1, <1>2, <1>8, <2>1, SMT
  <2> QED
    BY <1>2, <1>7, <2>2
<1>9. CASE w.left > 0
  <2> DEFINE n == volume[a] - w.left
  <2>1. a \in Prices /\ a - 1 \in 0 .. MaxPrice /\ w.price = price[a] /\ n \in Nat /\ n <= volume[a]
    BY <1>1, <1>2, <1>3, <1>9, SMT DEF Prices
  <2>2. Good(a - 1) /\ V[a] = V[a - 1] + volume[a] /\ C[a] = C[a - 1] + price[a] * volume[a] /\ C[a - 1] \in Int
    BY <1>1, <1>7, <2>1
  <2>3. price[a] * n \in Nat /\ A * n <= price[a] * n /\ price[a] * n <= B * n
    BY <1>4, <2>1
  <2>4. price[a] * n = price[a] * volume[a] - price[a] * w.left
    <3>1. volume[a] \in Int /\ w.left \in Int
      BY <1>2, <1>3, <2>1, SMT
    <3> QED
      BY <1>3, <2>1, <3>1, Products
  <2>5. A * (V[a - 1] + n) <= C[a - 1] + price[a] * n /\ C[a - 1] + price[a] * n <= B * (V[a - 1] + n)
    BY <1>6, <2>1, <2>2, <2>3
  <2>6. V[a - 1] + n = w.sofar
    BY <1>2, <1>3, <2>1, <2>2, SMT
  <2>7. price[a] * volume[a] \in Nat /\ price[a] * w.left \in Nat
    BY <1>2, <1>3, <2>1, Products
  <2> HIDE DEF n
  <2>8. w.num + price[a] * w.left = C[a - 1] + price[a] * volume[a]
    BY <1>2, <2>1, <2>2
  <2>9. C[a - 1] + price[a] * n = w.num
    BY <1>2, <2>2, <2>4, <2>7, <2>8, SMT
  <2> QED
    BY <2>5, <2>6, <2>9
<1> QED
  <2>1. w.left = 0 \/ w.left > 0
    BY <1>2, SMT
  <2> QED
    BY <1>8, <1>9, <2>1

\* An average price that is rounded stays between whole prices.
LEMMA Rounded ==
  ASSUME NEW n \in Nat, NEW d \in Nat, d > 0, NEW A \in Nat, NEW B \in Nat, A * d <= n, n <= B * d
  PROVE  /\ Floor(n, d) \in Nat /\ Ceil(n, d) \in Nat
         /\ A <= Floor(n, d) /\ Ceil(n, d) <= B
<1>1. \A x \in Nat : x \div d \in Nat
  BY SMT
<1>2. n + d - 1 \in Nat
  BY SMT
<1>3. A <= n \div d
  BY SMT
<1>4. (n + d - 1) \div d <= B
  <2>1. n + d - 1 < (B + 1) * d
    <3>1. (B + 1) * d = B * d + d /\ B * d \in Nat
      BY SMT
    <3> QED
      BY <3>1, SMT
  <2>2. \A x, b \in Nat : x < b * d => x \div d < b
    BY SMT
  <2>3. (n + d - 1) \div d < B + 1
    BY <1>2, <2>1, <2>2, SMT
  <2> QED
    BY <1>1, <1>2, <2>3, SMT
<1> QED
  BY <1>1, <1>2, <1>3, <1>4 DEF Floor, Ceil

LEMMA SizeFacts == \A i \in Sizes : Quantities[i] \in Nat /\ Quantities[i] > 0 /\ i \in Nat /\ i # 0
<1>1. Quantities \in Seq(Nat \ {0})
  BY QuotesAssumption
<1> QED
  BY <1>1, SMT DEF Sizes

\* A size that the book can fill is matched, at what the book charges for it.
LEMMA WalkMeets ==
  ASSUME NEW price \in Sides, NEW volume \in Sides, NEW i \in Sizes
  PROVE  LET w == Walk(price, volume)[i]
         IN /\ w.toMatch = 0 <=> SumTo(volume, MaxPrice) >= Quantities[i]
            /\ w.toMatch = 0 => w.sofar = Quantities[i] /\ w.num = Cost(price, volume, Quantities[i])
<1> DEFINE w == Walk(price, volume)[i]
<1>1. Sound(w, price, volume) /\ w.sofar + w.toMatch = Quantities[i]
  BY WalkSound
<1>2. w.toMatch = 0 <=> SumTo(volume, MaxPrice) >= Quantities[i]
  BY WalkFills
<1> HIDE DEF w
<1>3. w.toMatch = 0 => w.sofar = Quantities[i]
  <2>1. w.sofar \in Nat
    BY <1>1 DEF Sound, Walks
  <2> QED
    BY <1>1, <2>1, SMT
<1>4. w.num = Cost(price, volume, w.sofar)
  BY <1>1, WalkCost
<1> QED
  BY <1>2, <1>3, <1>4 DEF w

\* The average price of filling a size lies between the prices of the side.
LEMMA AverageBounds ==
  ASSUME NEW side \in Sides, NEW price \in [Prices -> Prices], NEW i \in Sizes,
         Fills(side, price, Quantities[i]), NEW A \in Nat, NEW B \in Nat,
         \A p \in Prices : side[p] > 0 => A <= p /\ p <= B
  PROVE  LET c == Cost(price, Volumes(side, price), Quantities[i])
         IN /\ Floor(c, Quantities[i]) \in Nat /\ Ceil(c, Quantities[i]) \in Nat
            /\ A <= Floor(c, Quantities[i]) /\ Ceil(c, Quantities[i]) <= B
<1> DEFINE volume == Volumes(side, price)
           w == Walk(price, volume)[i]
<1>1. Prices \subseteq Nat
  BY QuotesAssumption, SMT DEF Prices
<1>2. price \in Sides
  BY <1>1 DEF Sides
<1>3. volume \in Sides
  BY DEF Volumes, Sides
<1>4. \A k \in Prices : volume[k] > 0 => A <= price[k] /\ price[k] <= B
  BY DEF Volumes
<1>5. SumTo(volume, MaxPrice) >= Quantities[i]
  BY DEF Fills
<1> HIDE DEF volume
<1>6. Sound(w, price, volume)
  BY <1>2, <1>3, WalkSound
<1>7. w.sofar = Quantities[i] /\ w.num = Cost(price, volume, Quantities[i])
  BY <1>2, <1>3, <1>5, WalkMeets
<1> HIDE DEF w
<1>8. A * w.sofar <= w.num /\ w.num <= B * w.sofar
  BY <1>2, <1>3, <1>4, <1>6, CostBounds
<1>9. w.num \in Nat /\ w.sofar \in Nat /\ w.sofar > 0
  BY <1>6, <1>7, SizeFacts DEF Sound, Walks
<1>10. /\ Floor(w.num, w.sofar) \in Nat /\ Ceil(w.num, w.sofar) \in Nat
       /\ A <= Floor(w.num, w.sofar) /\ Ceil(w.num, w.sofar) <= B
  BY <1>8, <1>9, Rounded
<1> QED
  BY <1>7, <1>10 DEF volume

LEMMA Levels == bid_levels \in [Prices -> Prices] /\ ask_levels \in [Prices -> Prices] /\ Prices \subseteq Nat
BY QuotesAssumption, SMT DEF bid_levels, ask_levels, Prices

LEMMA BookSides ==
  ASSUME NEW f \in Fiat, NEW b \in Books[f]
  PROVE  /\ b.bids \in Sides /\ b.asks \in Sides /\ b = [bids |-> b.bids, asks |-> b.asks]
         /\ \A bid, ask \in Prices : b.bids[bid] > 0 /\ b.asks[ask] > 0 => bid < ask
<1>1. b \in [bids : Sides, asks : Sides]
  BY QuotesAssumption
<1>2. \A bid, ask \in Prices : b.bids[bid] > 0 /\ b.asks[ask] > 0 => bid < ask
  BY QuotesAssumption
<1> QED
  BY <1>1, <1>2

\* A price divides the bids of a book from its asks.
LEMMA BookDivides ==
  ASSUME NEW f \in Fiat, NEW b \in Books[f]
  PROVE  \E B \in Nat : /\ \A p \in Prices : b.bids[p] > 0 => 0 <= p /\ p <= B
                        /\ \A p \in Prices : b.asks[p] > 0 => B + 1 <= p /\ p <= MaxPrice
<1> DEFINE T == {n \in 0 .. MaxPrice : \A p \in Prices : b.bids[p] > 0 => p <= n}
<1>1. MaxPrice \in Nat /\ MaxPrice \in 0 .. MaxPrice /\ \A p \in Prices : p <= MaxPrice /\ p \in Nat /\ 0 < p
  BY QuotesAssumption, SMT DEF Prices
<1>2. T # {}
  BY <1>1
<1> T \subseteq Nat
  BY <1>1, SMT
<1>3. PICK B \in T : \A n \in T : B <= n
  BY <1>2, NatMin
<1>4. ASSUME NEW ask \in Prices, b.asks[ask] > 0 PROVE B < ask
  <2>1. CASE B = 0
    BY <1>1, <2>1
  <2>2. CASE B # 0
    <3>1. B - 1 \in 0 .. MaxPrice /\ ~(B - 1 \in T)
      BY <1>1, <1>3, <2>2, SMT
    <3>2. PICK bid \in Prices : b.bids[bid] > 0 /\ ~(bid <= B - 1)
      BY <3>1
    <3>3. bid < ask
      BY <1>4, <3>2, BookSides
    <3>4. bid \in Nat /\ ask \in Nat /\ B \in Nat
      BY <1>1
    <3> QED
      BY <3>2, <3>3, <3>4, SMT
  <2> QED
    BY <2>1, <2>2
<1>5. \A p \in Prices : b.asks[p] > 0 => B + 1 <= p /\ p <= MaxPrice
  <2>1. \A p \in Prices : B < p => B + 1 <= p
    BY <1>1, SMT
  <2> QED
    BY <1>1, <1>4, <2>1
<1>6. \A p \in Prices : 0 <= p
  BY <1>1, SMT
<1> QED
  BY <1>3, <1>5, <1>6

BidPrice(b, i) == Ceil(Cost(bid_levels, Volumes(b.bids, bid_levels), Quantities[i]), Quantities[i])
AskPrice(b, i) == Floor(Cost(ask_levels, Volumes(b.asks, ask_levels), Quantities[i]), Quantities[i])

\* The sizes that a book can fill are bought below the prices they are sold at.
LEMMA BidsBelowAsks ==
  ASSUME NEW f \in Fiat, NEW b \in Books[f], NEW i \in Sizes, NEW j \in Sizes,
         Fills(b.bids, bid_levels, Quantities[i]), Fills(b.asks, ask_levels, Quantities[j])
  PROVE  BidPrice(b, i) < AskPrice(b, j)
<1>1. b.bids \in Sides /\ b.asks \in Sides /\ MaxPrice \in Nat
  BY BookSides, QuotesAssumption
<1>2. PICK B \in Nat : /\ \A p \in Prices : b.bids[p] > 0 => 0 <= p /\ p <= B
                       /\ \A p \in Prices : b.asks[p] > 0 => B + 1 <= p /\ p <= MaxPrice
  BY BookDivides
<1>3. BidPrice(b, i) \in Nat /\ BidPrice(b, i) <= B
  <2>1. 0 \in Nat
    BY SMT
  <2> QED
    BY <1>1, <1>2, <2>1, Levels, AverageBounds DEF BidPrice
<1>4. AskPrice(b, j) \in Nat /\ B + 1 <= AskPrice(b, j)
  <2>1. B + 1 \in Nat
    BY SMT
  <2> QED
    BY <1>1, <1>2, <2>1, Levels, AverageBounds DEF AskPrice
<1> QED
  BY <1>3, <1>4, SMT

Table == [bid : [Sizes -> Nat], ask : [Sizes -> Nat]]

\* update_quotes prices every size that the book can fill.
LEMMA UpdateFollows ==
  ASSUME NEW f \in Fiat, NEW b \in Books[f], NEW q \in Table
  PROVE  LET u == update_quotes(b, q)
         IN /\ u \in Table
            /\ \A i \in Sizes : /\ Fills(b.bids, bid_levels, Quantities[i]) => u.bid[i] = BidPrice(b, i)
                                /\ Fills(b.asks, ask_levels, Quantities[i]) => u.ask[i] = AskPrice(b, i)
<1> DEFINE u == update_quotes(b, q)
           bids == Walk(bid_levels, Volumes(b.bids, bid_levels))
           asks == Walk(ask_levels, Volumes(b.asks, ask_levels))
           bid(i) == IF bids[i].toMatch = 0 THEN Ceil(bids[i].num, bids[i].sofar) ELSE q.bid[i]
           ask(i) == IF asks[i].toMatch = 0 THEN Floor(asks[i].num, asks[i].sofar) ELSE q.ask[i]
<1>1. u = [bid |-> [i \in Sizes |-> bid(i)], ask |-> [i \in Sizes |-> ask(i)]]
  BY DEF update_quotes
<1>2. b.bids \in Sides /\ b.asks \in Sides /\ MaxPrice \in Nat /\ 0 \in Nat
  BY BookSides, QuotesAssumption, SMT
<1>3. \A side \in Sides : /\ Volumes(side, bid_levels) \in Sides /\ Volumes(side, ask_levels) \in Sides
                          /\ \A p \in Prices : side[p] > 0 => 0 <= p /\ p <= MaxPrice
  <2>1. \A p \in Prices : 0 <= p /\ p <= MaxPrice
    BY QuotesAssumption, SMT DEF Prices
  <2> QED
    BY <2>1, Levels DEF Volumes, Sides
<1>4. bid_levels \in Sides /\ ask_levels \in Sides
  BY Levels DEF Sides
<1>5. ASSUME NEW i \in Sizes
      PROVE  /\ bids[i].toMatch = 0 <=> Fills(b.bids, bid_levels, Quantities[i])
             /\ bids[i].toMatch = 0 => bid(i) = BidPrice(b, i) /\ BidPrice(b, i) \in Nat
  <2>1. /\ bids[i].toMatch = 0 <=> Fills(b.bids, bid_levels, Quantities[i])
        /\ bids[i].toMatch = 0 => /\ bids[i].sofar = Quantities[i]
                                  /\ bids[i].num = Cost(bid_levels, Volumes(b.bids, bid_levels), Quantities[i])
    <3>1. Volumes(b.bids, bid_levels) \in Sides
      BY <1>2, <1>3
    <3>2. LET w == Walk(bid_levels, Volumes(b.bids, bid_levels))[i]
          IN /\ w.toMatch = 0 <=> SumTo(Volumes(b.bids, bid_levels), MaxPrice) >= Quantities[i]
             /\ w.toMatch = 0 => /\ w.sofar = Quantities[i]
                                 /\ w.num = Cost(bid_levels, Volumes(b.bids, bid_levels), Quantities[i])
      BY <1>4, <3>1, WalkMeets
    <3> QED
      BY <3>2 DEF Fills
  <2>2. Fills(b.bids, bid_levels, Quantities[i]) => BidPrice(b, i) \in Nat
    BY <1>2, <1>3, Levels, AverageBounds DEF BidPrice
  <2> QED
    BY <2>1, <2>2 DEF BidPrice
<1>6. ASSUME NEW i \in Sizes
      PROVE  /\ asks[i].toMatch = 0 <=> Fills(b.asks, ask_levels, Quantities[i])
             /\ asks[i].toMatch = 0 => ask(i) = AskPrice(b, i) /\ AskPrice(b, i) \in Nat
  <2>1. /\ asks[i].toMatch = 0 <=> Fills(b.asks, ask_levels, Quantities[i])
        /\ asks[i].toMatch = 0 => /\ asks[i].sofar = Quantities[i]
                                  /\ asks[i].num = Cost(ask_levels, Volumes(b.asks, ask_levels), Quantities[i])
    <3>1. Volumes(b.asks, ask_levels) \in Sides
      BY <1>2, <1>3
    <3>2. LET w == Walk(ask_levels, Volumes(b.asks, ask_levels))[i]
          IN /\ w.toMatch = 0 <=> SumTo(Volumes(b.asks, ask_levels), MaxPrice) >= Quantities[i]
             /\ w.toMatch = 0 => /\ w.sofar = Quantities[i]
                                 /\ w.num = Cost(ask_levels, Volumes(b.asks, ask_levels), Quantities[i])
      BY <1>4, <3>1, WalkMeets
    <3> QED
      BY <3>2 DEF Fills
  <2>2. Fills(b.asks, ask_levels, Quantities[i]) => AskPrice(b, i) \in Nat
    BY <1>2, <1>3, Levels, AverageBounds DEF AskPrice
  <2> QED
    BY <2>1, <2>2 DEF AskPrice
<1>7. \A i \in Sizes : q.bid[i] \in Nat /\ q.ask[i] \in Nat
  BY DEF Table
<1>8. \A i \in Sizes : bid(i) \in Nat /\ ask(i) \in Nat
  BY <1>5, <1>6, <1>7
<1> HIDE DEF bid, ask, u
<1>9. u \in Table
  BY <1>1, <1>8 DEF Table
<1>10. \A i \in Sizes : u.bid[i] = bid(i) /\ u.ask[i] = ask(i)
  BY <1>1
<1> QED
  BY <1>5, <1>6, <1>9, <1>10 DEF u

-----------------------------------------------------------------------------
(***************************************************************************)
(* The rates.                                                              *)
(***************************************************************************)
\* What a rate of a conversion out of BTC, or back, is made of: a price quoted
\* now and the spread.
SellsAt(f, r) ==
  \/ r = NoRate
  \/ \E i \in Sizes : /\ quotes[f].bid[i] # 0
                      /\ r = <<quotes[f].bid[i] * (HalfSpread[2] - HalfSpread[1]), HalfSpread[2]>>
BuysAt(f, n, r) ==
  \/ r = NoRate
  \/ \E i \in Sizes : /\ quotes[f].ask[i] # 0
                      /\ r = <<HalfSpread[2], quotes[f].ask[i] * (HalfSpread[2] + n)>>

Quoted(side, linear, charge, r) ==
  r = NoRate \/ \E i \in Sizes : side[i] # 0 /\ r = WithSpread(side[i], linear, charge)

\* A rate that is found is one of a size that is quoted.
LEMMA RateIsQuoted ==
  ASSUME NEW side, NEW quantity, NEW from, NEW charge
  PROVE  Quoted(side, is_linear(from), charge, RateAt(side, SizeFor(side, quantity), from, charge))
<1> DEFINE fit == {i \in Sizes : side[i] # 0 /\ Quantities[i] >= quantity}
           r == RateAt(side, SizeFor(side, quantity), from, charge)
<1>1. CASE fit = {}
  BY <1>1 DEF RateAt, SizeFor, Quoted
<1>2. CASE fit # {}
  <2> fit \subseteq Nat
    BY SizeFacts
  <2>1. \E i \in fit : \A j \in fit : i <= j
    BY <1>2, NatMin
  <2>2. Min(fit) \in fit
    BY <2>1 DEF Min
  <2>3. SizeFor(side, quantity) = Min(fit)
    BY <1>2 DEF SizeFor
  <2>4. Min(fit) # 0
    BY <2>2, SizeFacts
  <2>5. r = WithSpread(side[Min(fit)], is_linear(from), charge)
    BY <2>3, <2>4 DEF RateAt
  <2> QED
    BY <2>2, <2>5 DEF Quoted
<1> QED
  BY <1>1, <1>2

LEMMA CrossIsQuoted ==
  ASSUME NEW amount, NEW from, NEW to, NEW charge
  PROVE  Quoted(Side(from, to), is_linear(from), charge, get_btc_cross_rate(amount, from, to, charge))
<1> DEFINE side == Side(from, to)
           first == SizeFor(side, 0)
           value == (amount[1] * (IF is_linear(from) THEN side[first] ELSE 1)) \div amount[2]
           found == RateAt(side, SizeFor(side, value), from, charge)
<1>1. \/ get_btc_cross_rate(amount, from, to, charge) = NoRate
      \/ get_btc_cross_rate(amount, from, to, charge) = found
  BY DEF get_btc_cross_rate
<1> HIDE DEF side, value
<1>2. Quoted(side, is_linear(from), charge, found)
  BY RateIsQuoted
<1>3. Quoted(side, is_linear(from), charge, NoRate)
  BY DEF Quoted
<1> QED
  BY <1>1, <1>2, <1>3 DEF side

LEMMA Spread ==
  /\ HalfSpread[1] \in Nat /\ HalfSpread[2] \in Nat /\ HalfSpread[1] < HalfSpread[2]
  /\ HalfSpread[2] > 0 /\ HalfSpread[2] - HalfSpread[1] \in Nat /\ HalfSpread[2] - HalfSpread[1] > 0
<1>1. HalfSpread \in Nat \X Nat /\ HalfSpread[1] < HalfSpread[2]
  BY QuotesAssumption
<1> QED
  BY <1>1, SMT

\* The rates of conversions out of BTC and back.
LEMMA CrossRates ==
  ASSUME NEW f \in Fiat, NEW amount
  PROVE  /\ SellsAt(f, get_btc_cross_rate(amount, BTC, f, TRUE))
         /\ SellsAt(f, get_rate_inv(amount, BTC, f))
         /\ BuysAt(f, HalfSpread[1], get_btc_cross_rate(amount, f, BTC, TRUE))
         /\ BuysAt(f, 0, get_btc_cross_rate(amount, f, BTC, FALSE))
         /\ BuysAt(f, HalfSpread[1], get_rate_inv(amount, f, BTC))
<1>1. f # BTC
  BY LedgerAssumption
<1>2. /\ Side(BTC, f) = quotes[f].bid /\ Side(f, BTC) = quotes[f].ask
      /\ is_linear(BTC) = TRUE /\ is_linear(f) = FALSE
  BY <1>1 DEF Side, Symbol, is_linear
<1>3. ASSUME NEW r
      PROVE  /\ Quoted(quotes[f].bid, TRUE, TRUE, r) => SellsAt(f, r)
             /\ Quoted(quotes[f].ask, FALSE, TRUE, r) => BuysAt(f, HalfSpread[1], r)
             /\ Quoted(quotes[f].ask, FALSE, FALSE, r) => BuysAt(f, 0, r)
  BY DEF Quoted, WithSpread, SellsAt, BuysAt
<1>4. ASSUME NEW charge
      PROVE  /\ Quoted(quotes[f].bid, TRUE, charge, get_btc_cross_rate(amount, BTC, f, charge))
             /\ Quoted(quotes[f].ask, FALSE, charge, get_btc_cross_rate(amount, f, BTC, charge))
  <2>1. /\ Quoted(Side(BTC, f), is_linear(BTC), charge, get_btc_cross_rate(amount, BTC, f, charge))
        /\ Quoted(Side(f, BTC), is_linear(f), charge, get_btc_cross_rate(amount, f, BTC, charge))
    BY CrossIsQuoted
  <2> QED
    BY <1>2, <2>1
<1>5. /\ Quoted(quotes[f].bid, TRUE, TRUE, get_rate_inv(amount, BTC, f))
      /\ Quoted(quotes[f].ask, FALSE, TRUE, get_rate_inv(amount, f, BTC))
  <2>1. /\ Quoted(Side(BTC, f), is_linear(BTC), TRUE, get_rate_inv(amount, BTC, f))
        /\ Quoted(Side(f, BTC), is_linear(f), TRUE, get_rate_inv(amount, f, BTC))
    BY RateIsQuoted DEF get_rate_inv
  <2> QED
    BY <1>2, <2>1
<1> QED
  BY <1>3, <1>4, <1>5

\* Between two fiat currencies: a conversion to BTC without a spread and one from it.
AcrossAt(f, g, r) ==
  \/ r = NoRate
  \/ \E first, second : /\ BuysAt(f, 0, first) /\ SellsAt(g, second) /\ first # NoRate /\ second # NoRate
                        /\ r = <<first[1] * second[1], first[2] * second[2]>>

LEMMA AcrossRates ==
  ASSUME NEW f \in Fiat, NEW g \in Fiat, NEW amount
  PROVE  AcrossAt(f, g, get_rate(amount, f, g))
<1> DEFINE first == get_btc_cross_rate(<<amount, 1>>, f, BTC, FALSE)
           second == get_btc_cross_rate(<<amount * first[1], first[2]>>, BTC, g, TRUE)
<1>1. BTC \notin {f, g}
  BY LedgerAssumption
<1>2. get_rate(amount, f, g) = IF first = NoRate \/ second = NoRate THEN NoRate
                               ELSE <<first[1] * second[1], first[2] * second[2]>>
  BY <1>1 DEF get_rate
<1>3. BuysAt(f, 0, first) /\ SellsAt(g, second)
  BY CrossRates
<1> HIDE DEF first, second
<1> QED
  BY <1>2, <1>3 DEF AcrossAt

\* Rates are fractions of natural numbers with a denominator that is not zero.
Fraction(r) == r[1] \in Nat /\ r[2] \in Nat /\ r[2] > 0

LEMMA RatesAreFractions ==
  ASSUME quotes \in [Fiat -> Table], NEW f \in Fiat, NEW g \in Fiat
  PROVE  /\ \A r : SellsAt(f, r) => Fraction(r)
         /\ \A r, n : n \in Nat /\ BuysAt(f, n, r) => Fraction(r)
         /\ \A r : AcrossAt(f, g, r) => Fraction(r)
<1>1. \A h \in Fiat : \A i \in Sizes : quotes[h].bid[i] \in Nat /\ quotes[h].ask[i] \in Nat
  BY DEF Table
<1>2. Fraction(NoRate)
  BY SMT DEF Fraction, NoRate
<1>3. ASSUME NEW h \in Fiat, NEW r, SellsAt(h, r) PROVE Fraction(r)
  <2> SUFFICES ASSUME NEW i \in Sizes,
                      r = <<quotes[h].bid[i] * (HalfSpread[2] - HalfSpread[1]), HalfSpread[2]>>
               PROVE  Fraction(r)
    BY <1>2, <1>3 DEF SellsAt
  <2>1. quotes[h].bid[i] * (HalfSpread[2] - HalfSpread[1]) \in Nat
    BY <1>1, Spread, Products
  <2> QED
    BY <2>1, Spread DEF Fraction
<1>4. ASSUME NEW h \in Fiat, NEW r, NEW n \in Nat, BuysAt(h, n, r) PROVE Fraction(r)
  <2> SUFFICES ASSUME NEW i \in Sizes, quotes[h].ask[i] # 0,
                      r = <<HalfSpread[2], quotes[h].ask[i] * (HalfSpread[2] + n)>>
               PROVE  Fraction(r)
    BY <1>2, <1>4 DEF BuysAt
  <2>1. quotes[h].ask[i] \in Nat /\ quotes[h].ask[i] > 0 /\ HalfSpread[2] + n \in Nat /\ HalfSpread[2] + n > 0
    BY <1>1, Spread, SMT
  <2>2. \A x, y \in Nat : x > 0 /\ y > 0 => x * y \in Nat /\ x * y > 0
    BY SMT
  <2>3. quotes[h].ask[i] * (HalfSpread[2] + n) \in Nat /\ quotes[h].ask[i] * (HalfSpread[2] + n) > 0
    BY <2>1, <2>2
  <2> QED
    BY <2>3, Spread DEF Fraction
<1>5. ASSUME NEW r, AcrossAt(f, g, r) PROVE Fraction(r)
  <2> SUFFICES ASSUME NEW first, NEW second, BuysAt(f, 0, first), SellsAt(g, second),
                      r = <<first[1] * second[1], first[2] * second[2]>>
               PROVE  Fraction(r)
    BY <1>2, <1>5 DEF AcrossAt
  <2>1. Fraction(first) /\ Fraction(second)
    <3>1. 0 \in Nat
      BY SMT
    <3> QED
      BY <1>3, <1>4, <3>1
  <2>2. \A x, y \in Nat : x * y \in Nat /\ (x > 0 /\ y > 0 => x * y > 0)
    BY SMT
  <2> QED
    BY <2>1, <2>2 DEF Fraction
<1> QED
  BY <1>3, <1>4, <1>5

-----------------------------------------------------------------------------
(***************************************************************************)
(* The states.                                                             *)
(***************************************************************************)
QuotesType ==
  /\ DOMAIN book \subseteq Fiat /\ \A f \in DOMAIN book : book[f] \in Books[f]
  /\ quotes \in [Fiat -> Table]
  /\ now \in Nat

\* What the engine guarantees is what it has promised and not redeemed.
Kept ==
  \A id \in DOMAIN guaranteed :
    /\ id \in Nat /\ guaranteed[id].id = id
    /\ guaranteed[id] \in promised /\ Fraction(guaranteed[id].rate)

\* Without the symbols no book has been walked, unless the engine still has to
\* learn that the connection was lost.
WalkedTradable == ~tradable /\ ~lost => walked = {}

QuotesInv == QuotesType /\ Kept /\ WalkedTradable /\ QuotesFollowBook

LEMMA NoDomain == DOMAIN << >> = {}
BY SMT

LEMMA NoQuotesTable == NoQuotes \in Table
BY SMT DEF NoQuotes, Table

Follows(b, q) ==
  \A i \in Sizes : /\ Fills(b.bids, bid_levels, Quantities[i]) => q.bid[i] = BidPrice(b, i)
                   /\ Fills(b.asks, ask_levels, Quantities[i]) => q.ask[i] = AskPrice(b, i)

LEMMA QuotedFollows == \A f : QuotedAsBook(f) <=> Follows(book[f], quotes[f])
BY DEF QuotedAsBook, Follows, BidPrice, AskPrice

\* A delta takes the book to what the exchange shows.
LEMMA AppliedDifference ==
  ASSUME NEW old \in Sides, NEW new \in Sides
  PROVE  Applied(old, Difference(old, new)) = new
<1> DEFINE D == Difference(old, new)
           A == Applied(old, D)
<1>1. DOMAIN D = {p \in Prices : old[p] # new[p]} /\ \A p \in DOMAIN D : D[p] = new[p]
  BY DEF Difference
<1> HIDE DEF D
<1>2. A = [p \in Prices |-> IF p \in DOMAIN D THEN D[p] ELSE old[p]]
  BY DEF Applied
<1>3. \A p \in Prices : (IF p \in DOMAIN D THEN D[p] ELSE old[p]) = new[p]
  BY <1>1
<1>4. new = [p \in Prices |-> new[p]]
  BY DEF Sides
<1> HIDE DEF A
<1>5. A = [p \in Prices |-> new[p]]
  BY <1>2, <1>3
<1> QED
  BY <1>4, <1>5 DEF A, D

\* A new book that the engine works on keeps the invariant.
LEMMA Level2Keeps ==
  ASSUME QuotesInv, NEW f \in Fiat, NEW b \in Books[f], Level2State(f, b)
  PROVE  QuotesInv'
<1>1. /\ book' = [g \in DOMAIN book \cup {f} |-> IF g = f THEN b ELSE book[g]]
      /\ quotes' = IF tradable THEN [quotes EXCEPT ![f] = update_quotes(b, quotes[f])] ELSE quotes
      /\ walked' = IF tradable THEN walked \cup {f} ELSE walked
      /\ UNCHANGED <<guaranteed, tradable, lost, now, promised>>
  BY DEF Level2State, feedVars
<1>2. /\ DOMAIN book \subseteq Fiat /\ \A g \in DOMAIN book : book[g] \in Books[g]
      /\ quotes \in [Fiat -> Table]
  BY DEF QuotesInv, QuotesType
<1>3. update_quotes(b, quotes[f]) \in Table /\ Follows(b, update_quotes(b, quotes[f]))
  <2>1. quotes[f] \in Table
    BY <1>2
  <2> QED
    BY <2>1, UpdateFollows DEF Follows
<1>4. /\ DOMAIN book' = DOMAIN book \cup {f} /\ book'[f] = b
      /\ \A g \in DOMAIN book : g # f => book'[g] = book[g]
  BY <1>1
<1>5. /\ quotes' \in [Fiat -> Table] /\ \A g \in Fiat : g # f => quotes'[g] = quotes[g]
      /\ tradable => quotes'[f] = update_quotes(b, quotes[f])
  BY <1>1, <1>2, <1>3
<1>6. QuotesType'
  BY <1>1, <1>2, <1>4, <1>5 DEF QuotesInv, QuotesType
<1>7. Kept'
  BY <1>1 DEF QuotesInv, Kept
<1>8. WalkedTradable'
  BY <1>1 DEF QuotesInv, WalkedTradable
<1>9. QuotesFollowBook'
  <2> SUFFICES ASSUME ~lost', NEW g \in Fiat
               PROVE  IF g \in walked' THEN g \in DOMAIN book' /\ QuotedAsBook(g)' ELSE quotes'[g] = NoQuotes
    BY DEF QuotesFollowBook
  <2>1. IF g \in walked THEN g \in DOMAIN book /\ Follows(book[g], quotes[g]) ELSE quotes[g] = NoQuotes
    BY <1>1, QuotedFollows DEF QuotesInv, QuotesFollowBook
  <2>2. QuotedAsBook(g)' <=> Follows(book'[g], quotes'[g])
    BY DEF QuotedAsBook, Follows, BidPrice, AskPrice
  <2>3. CASE tradable /\ g = f
    BY <1>1, <1>3, <1>4, <1>5, <2>2, <2>3
  <2>4. CASE tradable /\ g # f
    BY <1>1, <1>4, <1>5, <2>1, <2>2, <2>4
  <2>5. CASE ~tradable
    <3>1. walked = {}
      BY <1>1, <2>5 DEF QuotesInv, WalkedTradable
    <3> QED
      BY <1>1, <2>1, <2>5, <3>1
  <2> QED
    BY <2>3, <2>4, <2>5
<1> QED
  BY <1>6, <1>7, <1>8, <1>9 DEF QuotesInv

\* Forgetting everything keeps the invariant (reset_state), and so does a start.
LEMMA ResetKeeps ==
  ASSUME now' \in Nat, DOMAIN book' = {}, walked' = {}, quotes' = [f \in Fiat |-> NoQuotes],
         DOMAIN guaranteed' = {}
  PROVE  QuotesInv'
<1>1. QuotesType'
  BY NoQuotesTable DEF QuotesType
<1>2. Kept' /\ WalkedTradable'
  BY DEF Kept, WalkedTradable
<1>3. QuotesFollowBook'
  BY DEF QuotesFollowBook
<1> QED
  BY <1>1, <1>2, <1>3 DEF QuotesInv

\* A step that leaves books and prices alone.
LEMMA PricesKeep ==
  ASSUME QuotesInv, UNCHANGED <<book, quotes, walked, tradable, lost>>, now' \in Nat, Kept'
  PROVE  QuotesInv'
<1>1. QuotesType' /\ WalkedTradable'
  BY DEF QuotesInv, QuotesType, WalkedTradable
<1>2. QuotesFollowBook'
  BY DEF QuotesInv, QuotesFollowBook, QuotedAsBook
<1> QED
  BY <1>1, <1>2 DEF QuotesInv

LEMMA GetRateFraction ==
  ASSUME QuotesInv, NEW c \in Conversions, ~(c[1] = BTC /\ c[2] = BTC), NEW amount
  PROVE  Fraction(get_rate(amount, c[1], c[2]))
<1>1. c[1] \in {BTC} \cup Fiat /\ c[2] \in {BTC} \cup Fiat
  BY QuotesAssumption, SMT DEF Currency
<1>2. quotes \in [Fiat -> Table]
  BY DEF QuotesInv, QuotesType
<1>3. CASE c[1] = BTC /\ c[2] \in Fiat
  <2>1. SellsAt(c[2], get_rate(amount, c[1], c[2]))
    BY <1>3, CrossRates DEF get_rate
  <2> QED
    BY <1>2, <1>3, <2>1, RatesAreFractions
<1>4. CASE c[2] = BTC /\ c[1] \in Fiat
  <2>1. BuysAt(c[1], HalfSpread[1], get_rate(amount, c[1], c[2]))
    BY <1>4, CrossRates DEF get_rate
  <2> QED
    BY <1>2, <1>4, <2>1, RatesAreFractions, Spread
<1>5. CASE c[1] \in Fiat /\ c[2] \in Fiat
  <2>1. AcrossAt(c[1], c[2], get_rate(amount, c[1], c[2]))
    BY <1>5, AcrossRates
  <2> QED
    BY <1>2, <1>5, <2>1, RatesAreFractions
<1> QED
  BY <1>1, <1>3, <1>4, <1>5

\* A quote given is kept under its time.
LEMMA GiveKeeps ==
  ASSUME QuotesInv, NEW u, NEW amount, NEW c \in Conversions, ~(c[1] = BTC /\ c[2] = BTC),
         GiveQuote(u, amount, c[1], c[2])
  PROVE  QuotesInv'
<1> DEFINE rate == get_rate(amount, c[1], c[2])
           q == Promise(now, u, amount, c[1], c[2], rate)
<1>1. Fraction(rate)
  BY GetRateFraction
<1>2. now \in Nat
  BY DEF QuotesInv, QuotesType
<1>3. UNCHANGED <<book, quotes, walked, tradable, lost, now>>
  BY DEF GiveQuote, bookVars, feedVars
<1>4. \/ UNCHANGED <<guaranteed, promised>>
      \/ /\ guaranteed' = [id \in DOMAIN guaranteed \cup {now} |-> IF id = now THEN q ELSE guaranteed[id]]
         /\ promised' = promised \cup {q}
  BY DEF GiveQuote
<1>5. q.id = now /\ q.rate = rate
  BY DEF Promise
<1> HIDE DEF rate, q
<1>6. Kept'
  <2>1. CASE UNCHANGED <<guaranteed, promised>>
    BY <2>1 DEF QuotesInv, Kept
  <2>2. CASE /\ guaranteed' = [id \in DOMAIN guaranteed \cup {now} |-> IF id = now THEN q ELSE guaranteed[id]]
             /\ promised' = promised \cup {q}
    <3>1. /\ DOMAIN guaranteed' = DOMAIN guaranteed \cup {now} /\ guaranteed'[now] = q
          /\ \A id \in DOMAIN guaranteed : id # now => guaranteed'[id] = guaranteed[id]
      BY <2>2
    <3> QED
      BY <1>1, <1>2, <1>5, <2>2, <3>1 DEF QuotesInv, Kept
  <2> QED
    BY <1>4, <2>1, <2>2
<1> QED
  BY <1>2, <1>3, <1>6, PricesKeep

\* A swap takes out the quotes that are no longer guaranteed, and its own.
LEMMA SwapKeeps ==
  ASSUME QuotesInv, NEW u, NEW amount, NEW from, NEW to, SwapRequest(u, amount, from, to)
  PROVE  QuotesInv'
<1>1. Valid \subseteq DOMAIN guaranteed
  BY DEF Valid
<1>2. now \in Nat
  BY DEF QuotesInv, QuotesType
<1>3. CASE SwapUnquoted
  <2>1. /\ guaranteed' = [i \in Valid |-> guaranteed[i]] /\ promised' = promised
        /\ UNCHANGED <<book, quotes, walked, tradable, lost, now>>
    BY <1>3 DEF SwapUnquoted, bookVars, feedVars
  <2>2. Kept'
    BY <1>1, <2>1 DEF QuotesInv, Kept
  <2> QED
    BY <1>2, <2>1, <2>2, PricesKeep
<1>4. CASE \E id \in {q.id : q \in promised} : SwapQuoted(u, amount, from, to, id)
  <2>1. PICK id : SwapQuoted(u, amount, from, to, id)
    BY <1>4
  <2>2. /\ guaranteed' = [i \in Valid \ {id} |-> guaranteed[i]]
        /\ promised' = promised \/ (id \in Valid /\ promised' = promised \ {guaranteed[id]})
        /\ UNCHANGED <<book, quotes, walked, tradable, lost, now>>
    BY <2>1 DEF SwapQuoted, Removed, bookVars, feedVars
  <2>3. ASSUME NEW i \in Valid \ {id}
        PROVE  /\ guaranteed[i] \in promised' /\ guaranteed'[i] = guaranteed[i]
               /\ i \in Nat /\ guaranteed[i].id = i /\ Fraction(guaranteed[i].rate)
    <3>1. /\ i \in Nat /\ guaranteed[i].id = i /\ Fraction(guaranteed[i].rate)
          /\ guaranteed[i] \in promised /\ (id \in Valid => guaranteed[id].id = id)
      BY <1>1 DEF QuotesInv, Kept
    <3>2. id \in Valid => guaranteed[i] # guaranteed[id]
      BY <3>1
    <3> QED
      BY <2>2, <3>1, <3>2
  <2>4. Kept'
    BY <2>2, <2>3 DEF Kept
  <2> QED
    BY <1>2, <2>2, <2>4, PricesKeep
<1> QED
  BY <1>3, <1>4 DEF SwapRequest

LEMMA QuotesInit == Init => QuotesInv
<1> SUFFICES ASSUME Init PROVE QuotesInv
  OBVIOUS
<1>1. /\ DOMAIN book = {} /\ walked = {} /\ DOMAIN guaranteed = {}
      /\ quotes = [f \in Fiat |-> NoQuotes] /\ now \in Nat
  BY NoDomain, SMT DEF Init
<1>2. QuotesType
  BY <1>1, NoQuotesTable DEF QuotesType
<1>3. Kept /\ WalkedTradable /\ QuotesFollowBook
  BY <1>1 DEF Kept, WalkedTradable, QuotesFollowBook
<1> QED
  BY <1>2, <1>3 DEF QuotesInv

LEMMA QuotesNext == QuotesInv /\ [Next]_vars => QuotesInv'
<1> SUFFICES ASSUME QuotesInv, [Next]_vars PROVE QuotesInv'
  OBVIOUS
<1>0. now \in Nat
  BY DEF QuotesInv, QuotesType
<1>1. ASSUME NEW f \in Fiat, Snapshot(f) PROVE QuotesInv'
  BY <1>1, Level2Keeps DEF Snapshot
<1>2. ASSUME NEW f \in Fiat, Delta(f) PROVE QuotesInv'
  <2>1. PICK b \in Books[f] :
          Level2State(f, [bids |-> Applied(book[f].bids, Difference(book[f].bids, b.bids)),
                          asks |-> Applied(book[f].asks, Difference(book[f].asks, b.asks))])
    BY <1>2 DEF Delta
  <2>2. f \in DOMAIN book /\ book[f] \in Books[f]
    BY <1>2 DEF Delta, QuotesInv, QuotesType
  <2>3. Applied(book[f].bids, Difference(book[f].bids, b.bids)) = b.bids
    BY <2>2, BookSides, AppliedDifference
  <2>4. Applied(book[f].asks, Difference(book[f].asks, b.asks)) = b.asks
    BY <2>2, BookSides, AppliedDifference
  <2>5. Level2State(f, b)
    <3>1. b = [bids |-> b.bids, asks |-> b.asks]
      BY BookSides
    <3> QED
      BY <2>1, <2>3, <2>4, <3>1
  <2> QED
    BY <2>5, Level2Keeps
<1>3. CASE Disconnects
  <2>1. lost' /\ UNCHANGED <<book, quotes, guaranteed, now, promised>>
    BY <1>3 DEF Disconnects, bookVars
  <2>2. QuotesType' /\ Kept'
    BY <2>1 DEF QuotesInv, QuotesType, Kept
  <2>3. WalkedTradable' /\ QuotesFollowBook'
    BY <2>1 DEF WalkedTradable, QuotesFollowBook
  <2> QED
    BY <2>2, <2>3 DEF QuotesInv
<1>4. CASE TradableSymbols
  <2>1. tradable' /\ UNCHANGED <<book, quotes, walked, guaranteed, lost, now, promised>>
    BY <1>4 DEF TradableSymbols, bookVars
  <2>2. QuotesType' /\ Kept'
    BY <2>1 DEF QuotesInv, QuotesType, Kept
  <2>3. WalkedTradable' /\ QuotesFollowBook'
    BY <2>1 DEF WalkedTradable, QuotesInv, QuotesFollowBook, QuotedAsBook
  <2> QED
    BY <2>2, <2>3 DEF QuotesInv
<1>5. ASSUME reset_state, now' = now PROVE QuotesInv'
  <2>1. DOMAIN book' = {} /\ walked' = {} /\ DOMAIN guaranteed' = {} /\ quotes' = [f \in Fiat |-> NoQuotes]
    BY <1>5, NoDomain DEF reset_state
  <2> QED
    BY <1>0, <1>5, <2>1, ResetKeeps
<1>6. CASE Disconnected
  BY <1>5, <1>6 DEF Disconnected
<1>7. ASSUME NEW u \in Uids, NEW c \in Conversions, NEW amount \in Amounts[c[1]],
             QuoteRequest(u, amount, c[1], c[2])
      PROVE  QuotesInv'
  <2>1. CASE c[1] = BTC /\ c[2] = BTC
    BY <1>5, <1>7, <2>1 DEF QuoteRequest, Panics
  <2>2. CASE ~(c[1] = BTC /\ c[2] = BTC)
    BY <1>7, <2>2, GiveKeeps DEF QuoteRequest
  <2> QED
    BY <2>1, <2>2
<1>8. ASSUME NEW u \in Uids, NEW c \in Conversions, NEW amount \in Amounts[c[1]],
             SwapRequest(u, amount, c[1], c[2])
      PROVE  QuotesInv'
  BY <1>8, SwapKeeps
<1>9. CASE Tick
  <2>1. now' = now + 1 /\ UNCHANGED <<book, quotes, walked, guaranteed, tradable, lost, promised>>
    BY <1>9 DEF Tick, bookVars, feedVars
  <2>2. now' \in Nat
    BY <1>0, <2>1, SMT
  <2>3. Kept'
    BY <2>1 DEF QuotesInv, Kept
  <2> QED
    BY <2>1, <2>2, <2>3, PricesKeep
<1>10. CASE UNCHANGED vars
  <2>1. Kept' /\ now' \in Nat
    BY <1>0, <1>10 DEF QuotesInv, Kept, vars
  <2> QED
    BY <1>10, <2>1, PricesKeep DEF vars, bookVars, feedVars
<1> QED
  BY <1>1, <1>2, <1>3, <1>4, <1>6, <1>7, <1>8, <1>9, <1>10 DEF Next

\* The invariant holds in every state.
LEMMA QuotesInvariant == Spec => []QuotesInv
<1> QED
  BY QuotesInit, QuotesNext, PTL DEF Spec

-----------------------------------------------------------------------------
(***************************************************************************)
(* The theorems.                                                           *)
(***************************************************************************)
\* Unless the loss of the connection is still to be noticed, every size that the
\* book can fill is quoted at the average price of filling it, and nothing is
\* quoted without a book, or from one that the symbols came after
\* (update_quotes, reset_state).
THEOREM QuotesFollow == Spec => []QuotesFollowBook
<1>1. QuotesInv => QuotesFollowBook
  BY DEF QuotesInv
<1> QED
  BY <1>1, QuotesInvariant, PTL

\* Quoted prices of sizes that the book can fill are apart.
LEMMA PricesApart ==
  ASSUME QuotesInv, ~lost, AllCurrent, NEW f \in Fiat, NEW i \in Sizes, NEW j \in Sizes,
         quotes[f].bid[i] # 0, quotes[f].ask[j] # 0
  PROVE  quotes[f].bid[i] < quotes[f].ask[j]
<1>1. IF f \in walked THEN f \in DOMAIN book /\ QuotedAsBook(f) ELSE quotes[f] = NoQuotes
  BY DEF QuotesInv, QuotesFollowBook
<1>2. f \in DOMAIN book /\ QuotedAsBook(f)
  <2>1. NoQuotes.bid[i] = 0
    BY DEF NoQuotes
  <2> QED
    BY <1>1, <2>1
<1>3. Follows(book[f], quotes[f]) /\ book[f] \in Books[f]
  BY <1>1, <1>2, QuotedFollows DEF QuotesInv, QuotesType
<1>4. Fills(book[f].bids, bid_levels, Quantities[i]) /\ Fills(book[f].asks, ask_levels, Quantities[j])
  BY <1>2 DEF AllCurrent
<1>5. quotes[f].bid[i] = BidPrice(book[f], i) /\ quotes[f].ask[j] = AskPrice(book[f], j)
  BY <1>3, <1>4 DEF Follows
<1>6. BidPrice(book[f], i) < AskPrice(book[f], j)
  BY <1>3, <1>4, BidsBelowAsks
<1> QED
  BY <1>5, <1>6

\* The spread does not bring a bid to an ask.
LEMMA SpreadApart ==
  ASSUME NEW b \in Nat, NEW a \in Nat, b < a, NEW n \in Nat
  PROVE  /\ b * (HalfSpread[2] - HalfSpread[1]) < a * (HalfSpread[2] + n)
         /\ b * (HalfSpread[2] - HalfSpread[1]) \in Nat /\ a * (HalfSpread[2] + n) \in Nat
<1> DEFINE d == HalfSpread[2]
           e == HalfSpread[2] - HalfSpread[1]
<1>1. d \in Nat /\ e \in Nat /\ e > 0 /\ e <= d + n /\ d + n \in Nat
  BY Spread, SMT
<1> HIDE DEF d, e
<1>2. b * e < a * e
  BY <1>1, SMT
<1>3. a * e <= a * (d + n)
  BY <1>1, SMT
<1>4. b * e \in Nat /\ a * e \in Nat /\ a * (d + n) \in Nat
  BY <1>1, Products
<1>5. b * e < a * (d + n)
  BY <1>2, <1>3, <1>4, SMT
<1> QED
  BY <1>4, <1>5 DEF d, e

\* A round through fractions one of which is zero returns nothing.
LEMMA NothingBack ==
  ASSUME NEW r, NEW s, NEW t, Fraction(r), Fraction(s), Fraction(t), r[1] = 0 \/ s[1] = 0 \/ t[1] = 0
  PROVE  r[1] * s[1] * t[1] < r[2] * s[2] * t[2]
<1>1. \A x, y, z \in Nat : /\ x = 0 \/ y = 0 \/ z = 0 => x * y * z = 0
                           /\ x > 0 /\ y > 0 /\ z > 0 => 0 < x * y * z
  <2>1. \A x, y \in Nat : x * y \in Nat /\ (x > 0 /\ y > 0 => x * y > 0) /\ (x = 0 \/ y = 0 => x * y = 0)
    BY SMT
  <2>2. \A x \in Nat : x > 0 => 0 < x
    BY SMT
  <2> QED
    BY <2>1, <2>2
<1> QED
  BY <1>1, ZenonT(30) DEF Fraction

\* Out of BTC and back.
LEMMA DirectTrip ==
  ASSUME NEW d \in Nat, d > 0, NEW x \in Nat, NEW y \in Nat, x < y
  PROVE  x * 1 * d < d * 1 * y
<1>1. x * 1 = x /\ d * 1 = d /\ d * y = y * d
  BY SMT
<1>2. x * d < y * d
  BY SMT
<1> QED
  BY <1>1, <1>2

\* Out of BTC, across and back.
LEMMA LongTrip ==
  ASSUME NEW d \in Nat, d > 0, NEW x \in Nat, NEW y \in Nat, x < y, NEW v \in Nat, NEW z \in Nat, v < z
  PROVE  x * (d * v) * d < d * (y * d) * z
<1>1. x * (d * v) * d = (x * v) * (d * d) /\ d * (y * d) * z = (y * z) * (d * d)
  BY SMT
<1>2. x * v < y * z /\ x * v \in Nat /\ y * z \in Nat
  BY SMT
<1>3. d * d \in Nat /\ d * d > 0
  BY SMT
<1>4. \A k, l, m \in Nat : k < l /\ m > 0 => k * m < l * m
  BY SMT
<1>5. (x * v) * (d * d) < (y * z) * (d * d)
  BY <1>2, <1>3, <1>4
<1> QED
  BY <1>1, <1>5

\* While every quoted size is one that the book can fill, no round of conversions
\* out of BTC and back returns what went in, whatever the amounts (get_rate,
\* get_rate_inv).
THEOREM NoRoundTripGains == Spec => []NoFreeRoundTrip
<1>1. QuotesInv => NoFreeRoundTrip
  <2> SUFFICES ASSUME QuotesInv, ~lost, AllCurrent, NEW f \in Fiat, NEW g \in Fiat,
                      NEW out \in Rates(BTC, f), NEW back \in Rates(g, BTC),
                      NEW across \in IF f = g THEN {<<1, 1>>} ELSE Rates(f, g)
               PROVE  out[1] * across[1] * back[1] < out[2] * across[2] * back[2]
    BY DEF NoFreeRoundTrip
  <2>0. f # BTC /\ g # BTC
    BY LedgerAssumption
  <2>1. quotes \in [Fiat -> Table] /\ \A h \in Fiat, i \in Sizes : quotes[h].bid[i] \in Nat /\ quotes[h].ask[i] \in Nat
    BY DEF QuotesInv, QuotesType, Table
  <2>2. SellsAt(f, out)
    <3>1. \E x : out = get_rate(x, BTC, f) \/ out = get_rate_inv(x, BTC, f)
      BY DEF Rates
    <3>2. \A x : get_rate(x, BTC, f) = get_btc_cross_rate(<<x, 1>>, BTC, f, TRUE)
      BY DEF get_rate
    <3> QED
      BY <3>1, <3>2, CrossRates
  <2>3. BuysAt(g, HalfSpread[1], back)
    <3>1. \E x : back = get_rate(x, g, BTC) \/ back = get_rate_inv(x, g, BTC)
      BY DEF Rates
    <3>2. \A x : get_rate(x, g, BTC) = get_btc_cross_rate(<<x, 1>>, g, BTC, TRUE)
      BY DEF get_rate
    <3> QED
      BY <3>1, <3>2, CrossRates
  <2>4. IF f = g THEN across = <<1, 1>> ELSE AcrossAt(f, g, across)
    <3>1. CASE f = g
      BY <3>1
    <3>2. CASE f # g
      <4>1. across \in Rates(f, g) /\ BTC \notin {f, g}
        BY <2>0, <3>2
      <4>2. \E x : across = get_rate(x, f, g)
        BY <4>1 DEF Rates
      <4> QED
        BY <3>2, <4>2, AcrossRates
    <3> QED
      BY <3>1, <3>2
  <2>5. Fraction(out) /\ Fraction(back) /\ Fraction(across)
    <3>1. Fraction(<<1, 1>>)
      BY SMT DEF Fraction
    <3> QED
      BY <2>1, <2>2, <2>3, <2>4, <3>1, RatesAreFractions, Spread
  <2>6. CASE out = NoRate \/ across = NoRate \/ back = NoRate
    <3>1. out[1] = 0 \/ across[1] = 0 \/ back[1] = 0
      BY <2>6, SMT DEF NoRate
    <3> QED
      BY <2>5, <3>1, NothingBack
  <2>7. CASE out # NoRate /\ across # NoRate /\ back # NoRate
    <3> DEFINE d == HalfSpread[2]
               e == HalfSpread[2] - HalfSpread[1]
               s == HalfSpread[2] + HalfSpread[1]
    <3>1. PICK i \in Sizes : quotes[f].bid[i] # 0 /\ out = <<quotes[f].bid[i] * e, d>>
      BY <2>2, <2>7 DEF SellsAt
    <3>2. PICK j \in Sizes : quotes[g].ask[j] # 0 /\ back = <<d, quotes[g].ask[j] * s>>
      BY <2>3, <2>7 DEF BuysAt
    <3>3. d \in Nat /\ d > 0 /\ HalfSpread[1] \in Nat /\ 0 \in Nat
      BY Spread, SMT
    <3>4. CASE f = g
      <4>1. quotes[f].bid[i] < quotes[f].ask[j]
        BY <3>1, <3>2, <3>4, PricesApart
      <4>2. /\ quotes[f].bid[i] * e < quotes[f].ask[j] * s
            /\ quotes[f].bid[i] * e \in Nat /\ quotes[f].ask[j] * s \in Nat
        BY <2>1, <3>3, <4>1, SpreadApart
      <4>3. (quotes[f].bid[i] * e) * 1 * d < d * 1 * (quotes[f].ask[j] * s)
        BY <3>3, <4>2, DirectTrip
      <4> DEFINE x == quotes[f].bid[i] * e
                 y == quotes[f].ask[j] * s
      <4>4. out = <<x, d>> /\ across = <<1, 1>> /\ back = <<d, y>>
        BY <2>4, <3>1, <3>2, <3>4
      <4> HIDE DEF x, y, d
      <4> QED
        BY <4>3, <4>4, SMT DEF x, y
    <3>5. CASE f # g
      <4>1. PICK first, second : /\ BuysAt(f, 0, first) /\ SellsAt(g, second) /\ first # NoRate /\ second # NoRate
                                 /\ across = <<first[1] * second[1], first[2] * second[2]>>
        BY <2>4, <2>7, <3>5 DEF AcrossAt
      <4>2. PICK k \in Sizes : quotes[f].ask[k] # 0 /\ first = <<d, quotes[f].ask[k] * (d + 0)>>
        BY <4>1 DEF BuysAt
      <4>3. PICK l \in Sizes : quotes[g].bid[l] # 0 /\ second = <<quotes[g].bid[l] * e, d>>
        BY <4>1 DEF SellsAt
      <4>4. quotes[f].bid[i] < quotes[f].ask[k] /\ quotes[g].bid[l] < quotes[g].ask[j]
        BY <3>1, <3>2, <4>2, <4>3, PricesApart
      <4> DEFINE x == quotes[f].bid[i] * e
                 y == quotes[f].ask[k] * (d + 0)
                 v == quotes[g].bid[l] * e
                 z == quotes[g].ask[j] * s
      <4>5. x \in Nat /\ y \in Nat /\ x < y
        BY <2>1, <3>3, <4>4, SpreadApart
      <4>6. v \in Nat /\ z \in Nat /\ v < z
        BY <2>1, <3>3, <4>4, SpreadApart
      <4>7. out = <<x, d>> /\ across = <<d * v, y * d>> /\ back = <<d, z>>
        BY <3>1, <3>2, <4>1, <4>2, <4>3
      <4> HIDE DEF x, y, v, z, d
      <4>8. x * (d * v) * d < d * (y * d) * z
        BY <3>3, <4>5, <4>6, LongTrip
      <4> QED
        BY <4>7, <4>8
    <3> QED
      BY <3>4, <3>5
  <2> QED
    BY <2>6, <2>7
<1> QED
  BY <1>1, QuotesInvariant, PTL

\* A swap done on a quote is done on one that was given to the user for it, is
\* still guaranteed and was not redeemed before, at the rate quoted or the current
\* one, and at no less than was quoted when it ends with fiat (split_off,
\* validate_quote, get_better_rate).
THEOREM QuotesHonoured == Spec => HonouredAsPromised
<1>1. QuotesInv /\ [Next]_vars => [Honoured]_vars
  <2> SUFFICES ASSUME QuotesInv, Next PROVE Honoured
    OBVIOUS
  <2>1. CASE answer' = NoAnswer
    BY <2>1 DEF Honoured, NoAnswer, Answer
  <2>2. ASSUME NEW u, NEW amount, NEW from, NEW to, from # to, NEW id, SwapQuoted(u, amount, from, to, id)
        PROVE  Honoured
    <3> DEFINE q == guaranteed[id]
               current == get_rate(amount, from, to)
               linear == from = BTC \/ to # BTC
               rate == get_better_rate(q.rate, current, linear)
    <3>1. CASE ~(id \in Valid /\ validate_quote(q, u, amount, from, to))
      BY <2>1, <2>2, <3>1 DEF SwapQuoted
    <3>2. CASE id \in Valid /\ validate_quote(q, u, amount, from, to)
      <4>1. answer' = Answer(<<u, amount, from, to>>, rate, q)
        BY <2>2, <3>2 DEF SwapQuoted
      <4>2. answer'.redeemed = q /\ answer'.rate = rate /\ answer'.request = <<u, amount, from, to>>
        BY <4>1 DEF Answer
      <4>3. id \in DOMAIN guaranteed /\ id >= now - QUOTE_TTL /\ q.to = to
        BY <3>2 DEF Valid, validate_quote
      <4>4. id \in Nat /\ q.id = id /\ q \in promised /\ Fraction(q.rate) /\ now \in Nat /\ QUOTE_TTL \in Nat
        BY <4>3, QuotesAssumption DEF QuotesInv, QuotesType, Kept
      <4>5. now - q.id <= QUOTE_TTL
        BY <4>3, <4>4, SMT
      <4>6. ~Below(q.rate, q.rate)
        <5>1. q.rate[1] * q.rate[2] \in Nat
          BY <4>4, Products DEF Fraction
        <5> QED
          BY <5>1, SMT DEF Below
      <4>7. answer'.request = <<q.uid, q.amount, q.from, q.to>>
        BY <3>2, <4>2 DEF validate_quote
      <4>8. current = get_rate(q.amount, q.from, q.to)
        BY <3>2 DEF validate_quote
      <4> HIDE DEF q, current
      <4>9. /\ rate = q.rate \/ rate = current
            /\ to # BTC => rate = q.rate \/ (rate = current /\ ~Below(current, q.rate))
        BY DEF get_better_rate
      <4> QED
        BY <4>2, <4>3, <4>4, <4>5, <4>6, <4>7, <4>8, <4>9 DEF Honoured
    <3> QED
      BY <3>1, <3>2
  <2>3. ASSUME NEW f \in Fiat, Delta(f) \/ Snapshot(f) PROVE answer' = NoAnswer
    BY <2>3 DEF Delta, Snapshot, Level2State
  <2>4. ASSUME Disconnects \/ TradableSymbols \/ Disconnected \/ Tick PROVE answer' = NoAnswer
    BY <2>4 DEF Disconnects, TradableSymbols, Disconnected, Tick
  <2>5. ASSUME NEW u, NEW amount, NEW from, NEW to, QuoteRequest(u, amount, from, to) PROVE answer' = NoAnswer
    BY <2>5 DEF QuoteRequest, Panics, GiveQuote
  <2>6. ASSUME NEW u, NEW amount, NEW from, NEW to, SwapRequest(u, amount, from, to) PROVE Honoured
    <3>1. CASE SwapUnquoted
      BY <2>1, <3>1 DEF SwapUnquoted
    <3> QED
      BY <2>2, <2>6, <3>1 DEF SwapRequest
  <2> QED
    BY <2>1, <2>3, <2>4, <2>5, <2>6 DEF Next
<1> QED
  BY <1>1, QuotesInvariant, PTL DEF Spec, HonouredAsPromised
=============================================================================
