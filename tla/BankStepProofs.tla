--------------------------- MODULE BankStepProofs ---------------------------
(***************************************************************************)
(* The parts of the invariant of the bank engine, what single bookings and *)
(* messages do to them, and that every handler keeps them: issuing and     *)
(* settling invoices, payments, swaps, withdrawals and the dealer's own    *)
(* requests.  Then where the bank's Bitcoin is: that handler by handler    *)
(* the books account for every satoshi of the node, and that the node      *)
(* holds what the users and the dealer own.                                *)
(***************************************************************************)
EXTENDS Bank, LedgerLaws, TLAPS

\* The prover of a step that names none.
USE Zenon

\* The excess of the fee that was debited over the fee that was paid
\* (PaymentResult) is an amount.
LEMMA NatDifference == \A x \in Int, y \in Nat : x - y \in Int
BY SMT

\* Putting a balanced ledger back and writing what changed keeps the books in
\* order (insert_into_ledger, update_account).
LEMMA CommitBooks ==
  ASSUME BooksOK, NEW l \in [Accounts -> Int], NEW changed \in SUBSET Accounts,
         reconcile_ledger(l), \A a \in Accounts \ changed : l[a] = ledger[a],
         Commit(l, changed)
  PROVE  BooksOK'
<1>1. ledger' = l
  BY DEF Commit
<1>2. PICK lost \in (IF "save" \in Faults THEN SUBSET changed ELSE {{}}) :
        /\ stored' = [a \in Accounts |-> IF a \in changed \ lost THEN l[a] ELSE stored[a]]
        /\ rows' = rows \cup { u \in Users : \E a \in changed \ lost : a[1] = u }
  BY DEF Commit
<1>3. stored' \in [Accounts -> Int] /\ rows' \subseteq Users
  BY <1>2 DEF BooksOK
<1>4. ASSUME "save" \notin Faults PROVE stored' = ledger'
  <2>1. stored = ledger /\ lost = {}
    BY <1>2, <1>4 DEF BooksOK, StoredIsLedger
  <2>2. \A a \in Accounts : stored'[a] = l[a]
    BY <1>2, <2>1
  <2> QED
    BY <1>1, <1>2, <2>2
<1> QED
  BY <1>1, <1>3, <1>4 DEF BooksOK, Reconciled, StoredIsLedger, reconcile_ledger, NetBalance

\* A posting moves money between two accounts of one currency (make_tx).
Leg(out, in) == out \in Accounts /\ in \in Accounts /\ out # in /\ out[2] = in[2]

OfNoUser(a) == \A u \in Users, c \in Currency : a # UserAccount(u, c)

\* An account may be debited by an amount that it holds, or that is not a
\* user's to hold.
Holds(a, amount) ==
  \A u \in Users, c \in Currency : a = UserAccount(u, c) => ledger[a] >= amount

\* The pairs of accounts that the handlers post between, and who may pay.
LEMMA Legs ==
  ASSUME LedgerLaws
  PROVE  /\ BTC \in Currency
         /\ \A u \in Users, c \in Currency :
              /\ Leg(UserAccount(u, c), DealerAccount(c)) /\ Leg(DealerAccount(c), UserAccount(u, c))
              /\ \A v \in Users : u # v => Leg(UserAccount(u, c), UserAccount(v, c))
              /\ \A amount : ledger[UserAccount(u, c)] >= amount => Holds(UserAccount(u, c), amount)
         /\ \A u \in Users :
              Leg(UserAccount(u, BTC), BankLiability) /\ Leg(BankLiability, UserAccount(u, BTC))
         /\ Leg(DealerAccount(BTC), BankLiability) /\ Leg(BankLiability, DealerAccount(BTC))
         /\ Leg(DealerAccount(BTC), DealerExternal) /\ Leg(DealerExternal, DealerAccount(BTC))
         /\ OfNoUser(BankLiability) /\ OfNoUser(DealerExternal)
         /\ \A c \in Currency : OfNoUser(DealerAccount(c))
         /\ \A a, amount : OfNoUser(a) => Holds(a, amount)
<1>1. /\ BTC \in Currency
      /\ \A u \in Users, c \in Currency :
           /\ Leg(UserAccount(u, c), DealerAccount(c)) /\ Leg(DealerAccount(c), UserAccount(u, c))
           /\ \A v \in Users : u # v => Leg(UserAccount(u, c), UserAccount(v, c))
      /\ \A u \in Users :
           Leg(UserAccount(u, BTC), BankLiability) /\ Leg(BankLiability, UserAccount(u, BTC))
      /\ Leg(DealerAccount(BTC), BankLiability) /\ Leg(BankLiability, DealerAccount(BTC))
      /\ Leg(DealerAccount(BTC), DealerExternal) /\ Leg(DealerExternal, DealerAccount(BTC))
  BY SMT DEF Leg, LedgerLaws, AccountLaw
<1>2. /\ OfNoUser(BankLiability) /\ OfNoUser(DealerExternal)
      /\ \A c \in Currency : OfNoUser(DealerAccount(c))
  BY DEF OfNoUser, LedgerLaws, AccountLaw
<1>3. /\ \A a, amount : OfNoUser(a) => Holds(a, amount)
      /\ \A u \in Users, c \in Currency : \A amount :
           ledger[UserAccount(u, c)] >= amount => Holds(UserAccount(u, c), amount)
  BY DEF OfNoUser, Holds
<1> QED
  BY <1>1, <1>2, <1>3

\* One posting, of no more than a user has, keeps the books in order.
LEMMA OneLeg ==
  ASSUME LedgerLaws, BooksOK, NEW out, NEW in, Leg(out, in),
         NEW amount \in Int, amount > 0, Holds(out, amount),
         Commit(Post(ledger, out, in, amount), {out, in})
  PROVE  BooksOK'
<1> DEFINE p == Post(ledger, out, in, amount)
<1>1. /\ out \in Accounts /\ in \in Accounts /\ out # in /\ out[2] = in[2]
      /\ \A u \in Users, c \in Currency : out = UserAccount(u, c) => ledger[out] >= amount
  BY DEF Leg, Holds
<1>2. p \in [Accounts -> Int] /\ \A a \in Accounts \ {out, in} : p[a] = ledger[a]
  BY <1>1, SMT DEF Post, BooksOK
<1>3. reconcile_ledger(p)
  BY <1>1 DEF BooksOK, Reconciled, LedgerLaws, PostLaw
<1>4. {out, in} \in SUBSET Accounts
  BY <1>1
<1> HIDE DEF p
<1>5. Commit(p, {out, in})
  BY DEF p
<1> QED
  BY <1>2, <1>3, <1>4, <1>5, CommitBooks

\* Two postings, the second not from a user, keep the books in order.
LEMMA TwoLegs ==
  ASSUME LedgerLaws, BooksOK,
         NEW o1, NEW i1, Leg(o1, i1), NEW a1 \in Int, a1 > 0, Holds(o1, a1),
         NEW o2, NEW i2, Leg(o2, i2), NEW a2 \in Int, a2 > 0, OfNoUser(o2),
         NEW changed, changed = {o1, i1, o2, i2},
         Commit(Post(Post(ledger, o1, i1, a1), o2, i2, a2), changed)
  PROVE  BooksOK'
<1> DEFINE p == Post(ledger, o1, i1, a1)
<1> DEFINE q == Post(p, o2, i2, a2)
<1>1. /\ o1 \in Accounts /\ i1 \in Accounts /\ o1 # i1 /\ o1[2] = i1[2]
      /\ \A u \in Users, c \in Currency : o1 = UserAccount(u, c) => ledger[o1] >= a1
      /\ o2 \in Accounts /\ i2 \in Accounts /\ o2 # i2 /\ o2[2] = i2[2]
      /\ \A u \in Users, c \in Currency : o2 # UserAccount(u, c)
  BY DEF Leg, Holds, OfNoUser
<1>2. p \in [Accounts -> Int] /\ \A a \in Accounts \ changed : p[a] = ledger[a]
  BY <1>1, SMT DEF Post, BooksOK
<1>3. reconcile_ledger(p)
  BY <1>1 DEF BooksOK, Reconciled, LedgerLaws, PostLaw
<1>4. Commit(q, changed)
  OBVIOUS
<1> HIDE DEF p
<1>5. q \in [Accounts -> Int] /\ \A a \in Accounts \ changed : q[a] = ledger[a]
  BY <1>1, <1>2, SMT DEF Post
<1>6. reconcile_ledger(q)
  BY <1>1, <1>2, <1>3 DEF LedgerLaws, PostLaw
<1>7. changed \in SUBSET Accounts
  BY <1>1
<1> HIDE DEF q
<1> QED
  BY <1>4, <1>5, <1>6, <1>7, CommitBooks

\* Cutting an amount to whole satoshi takes less than a satoshi from it, and an
\* estimated fee is at least one unit (InSats, SatsUp, FeeLimits).
LEMMA SatFacts ==
  /\ Sat \in Nat /\ Sat > 0
  /\ \A x \in Nat : /\ InSats(x) \in Nat /\ InSats(x) <= x /\ x < InSats(x) + Sat
                    /\ SatsUp(x) \in Nat
  /\ \A e \in ExternalIds :
       /\ ExternalValue[e] \in Nat /\ ExternalValue[e] > 0
       /\ AmountInSats(e) \in Nat /\ AmountInSats(e) <= ExternalValue[e]
       /\ ExternalValue[e] < AmountInSats(e) + Sat
  /\ \A fee \in FeeLimits : fee \in Nat /\ fee > 0
  /\ DealerFees \subseteq Nat
<1>1. Sat \in Nat /\ Sat > 0 /\ MaxFee \in Nat /\ ExternalValue \in [ExternalIds -> Nat \ {0}]
  BY BankAssumption, SMT
<1>2. ASSUME NEW x \in Nat
      PROVE  InSats(x) \in Nat /\ InSats(x) <= x /\ x < InSats(x) + Sat
  <2>1. x % Sat \in 0 .. (Sat - 1)
    BY <1>1, SMT
  <2>2. x % Sat <= x
    <3>1. x = Sat * (x \div Sat) + (x % Sat) /\ x \div Sat \in Nat
      BY <1>1, SMT
    <3>2. Sat * (x \div Sat) \in Nat
      BY <1>1, <3>1, SMT
    <3> QED
      BY <2>1, <3>1, <3>2, SMT
  <2> QED
    BY <1>1, <2>1, <2>2, SMT DEF InSats
<1>3. ASSUME NEW x \in Nat PROVE SatsUp(x) \in Nat
  <2>1. x + Sat - 1 \in Nat
    BY <1>1, SMT
  <2> QED
    BY <1>2, <2>1 DEF SatsUp
<1>4. ASSUME NEW fee \in FeeLimits PROVE fee \in Nat /\ fee > 0
  <2>1. PICK n \in 1 .. MaxFee : fee = Sat * n
    BY DEF FeeLimits
  <2>2. n \in Nat /\ n > 0
    BY <1>1, SMT
  <2>3. \A a, b \in Nat : a > 0 /\ b > 0 => a * b \in Nat /\ a * b > 0
    BY SMT
  <2> QED
    BY <1>1, <2>1, <2>2, <2>3
<1>5. \A e \in ExternalIds : ExternalValue[e] \in Nat /\ ExternalValue[e] > 0
  BY <1>1, SMT
<1>6. DealerFees \subseteq Nat
  <2>1. \A n \in Int : 0 .. n \subseteq Nat
    BY SMT
  <2>2. Sat * MaxFee \in Int
    BY <1>1, SMT
  <2> QED
    BY <2>1, <2>2 DEF DealerFees
<1> QED
  BY <1>1, <1>2, <1>3, <1>4, <1>5, <1>6 DEF AmountInSats

-----------------------------------------------------------------------------
\* The parts make up the invariant.
LEMMA InvParts ==
  /\ Inv <=> BooksOK /\ RequestsOK /\ InvoicesOK /\ ViewsOK /\ SentIsPaid /\ DepositIsSettled
  /\ Inv' <=> BooksOK' /\ RequestsOK' /\ InvoicesOK' /\ ViewsOK' /\ SentIsPaid' /\ DepositIsSettled'
BY DEF Inv

\* No invoice is unsettled or changes its amount once settled.
InvoicesKept ==
  \A i \in InvoiceIds :
    invoices[i].state = "settled" =>
      invoices'[i].state = "settled" /\ invoices'[i].value = invoices[i].value

\* A handler that leaves a part of the state alone keeps that part in order.
LEMMA Frames ==
  /\ BooksOK /\ UNCHANGED books => BooksOK'
  /\ InvoicesOK /\ UNCHANGED invoices => InvoicesOK' /\ InvoicesKept
  /\ RequestsOK /\ SentIsPaid /\ DepositIsSettled
       /\ UNCHANGED reqs /\ extPaid \subseteq extPaid' /\ InvoicesKept
     => RequestsOK' /\ SentIsPaid' /\ DepositIsSettled'
<1>1. BooksOK /\ UNCHANGED books => BooksOK'
  BY DEF BooksOK, books, Reconciled, StoredIsLedger, reconcile_ledger, NetBalance
<1>2. RequestsOK /\ UNCHANGED reqs => RequestsOK'
  BY DEF RequestsOK
<1>3. InvoicesOK /\ UNCHANGED invoices => InvoicesOK' /\ InvoicesKept
  BY DEF InvoicesOK, InvoicesKept
<1>4. SentIsPaid /\ UNCHANGED reqs /\ extPaid \subseteq extPaid' => SentIsPaid'
  BY DEF SentIsPaid
<1>5. DepositIsSettled /\ UNCHANGED reqs /\ InvoicesKept => DepositIsSettled'
  BY DEF DepositIsSettled, InvoicesKept
<1> QED
  BY <1>1, <1>2, <1>3, <1>4, <1>5

\* Replacing one request by a well-formed one keeps the requests in order.
LEMMA SetRequest ==
  ASSUME RequestsOK, SentIsPaid, DepositIsSettled, InvoicesKept,
         NEW r \in RequestIds, NEW x \in RequestType, RequestOK(x),
         x.stage \in Charged /\ x.sent > 0 => x.inv \in extPaid',
         x.kind = "deposit" => /\ x.inv \in InvoiceIds
                               /\ invoices[x.inv].state = "settled"
                               /\ invoices[x.inv].value = x.amount,
         extPaid \subseteq extPaid',
         reqs' = [reqs EXCEPT ![r] = x]
  PROVE  RequestsOK' /\ SentIsPaid' /\ DepositIsSettled'
<1>1. reqs' \in [RequestIds -> RequestType]
  BY DEF RequestsOK
<1>2. \A q \in RequestIds : reqs'[q] = IF q = r THEN x ELSE reqs[q]
  BY DEF RequestsOK
<1>3. RequestsOK' /\ SentIsPaid'
  BY <1>1, <1>2 DEF RequestsOK, SentIsPaid
<1>4. DepositIsSettled'
  BY <1>2, SMT DEF DepositIsSettled, InvoicesKept
<1> QED
  BY <1>3, <1>4

\* Replacing one invoice by a well-formed one keeps the invoices in order.
LEMMA SetInvoice ==
  ASSUME InvoicesOK, NEW i \in InvoiceIds, NEW x \in InvoiceType, InvoiceOK(x),
         invoices[i].state = "settled" => x.state = "settled" /\ x.value = invoices[i].value,
         invoices' = [invoices EXCEPT ![i] = x]
  PROVE  InvoicesOK' /\ InvoicesKept
<1>1. \A j \in InvoiceIds : invoices'[j] = IF j = i THEN x ELSE invoices[j]
  BY DEF InvoicesOK
<1> QED
  BY <1>1 DEF InvoicesOK, InvoicesKept

\* The empty request and the empty invoice are well formed.
LEMMA EmptyOK ==
  /\ NoRequest \in RequestType /\ RequestOK(NoRequest)
  /\ NoRequest.stage = "free" /\ NoRequest.kind = "none" /\ NoRequest.rate = UnitRate
  /\ NoRequest.btc = 0 /\ NoRequest.sent = 0 /\ NoRequest.own = FALSE
  /\ NoInvoice \in InvoiceType /\ InvoiceOK(NoInvoice)
  /\ NoInvoice.state = "none" /\ NoInvoice.received = 0 /\ NoInvoice.credited = 0
  /\ ~NoInvoice.event
<1>1. NoRequest \in RequestType
  BY LedgerAssumption, SMT DEF NoRequest, RequestType, Kinds, Stages, RateType, UnitRate, Currency
<1>2. /\ NoRequest.stage = "free" /\ NoRequest.kind = "none" /\ NoRequest.rate = UnitRate
      /\ NoRequest.btc = 0 /\ NoRequest.sent = 0 /\ NoRequest.own = FALSE
  BY DEF NoRequest
<1>3. RequestOK(NoRequest)
  BY <1>2 DEF RequestOK, Charged, Waiting
<1>4. NoInvoice \in InvoiceType
  BY LedgerAssumption DEF NoInvoice, InvoiceType, Currency
<1>5. /\ NoInvoice.state = "none" /\ NoInvoice.received = 0 /\ NoInvoice.credited = 0
      /\ ~NoInvoice.event
  BY DEF NoInvoice
<1>6. InvoiceOK(NoInvoice)
  BY <1>5 DEF InvoiceOK
<1> QED
  BY <1>1, <1>2, <1>3, <1>4, <1>5, <1>6

\* A request that is over is well formed, whatever difference it leaves.
LEMMA OverOK ==
  ASSUME NEW gap \in Int
  PROVE  /\ Over(gap) \in RequestType /\ RequestOK(Over(gap))
         /\ Over(gap).stage = "done" /\ Over(gap).kind = "none"
         /\ Over(gap).btc = gap /\ Over(gap).sent = 0
<1>1. /\ Over(gap) \in RequestType
      /\ Over(gap).stage = "done" /\ Over(gap).kind = "none"
      /\ Over(gap).btc = gap /\ Over(gap).sent = 0
  BY EmptyOK DEF Over, RequestType, Stages
<1>2. RequestOK(Over(gap))
  BY <1>1 DEF RequestOK, Charged, Waiting
<1> QED
  BY <1>1, <1>2

\* Ending a request keeps the requests in order.
LEMMA EndOK ==
  ASSUME RequestsOK, SentIsPaid, DepositIsSettled, InvoicesKept, NEW r \in RequestIds,
         NEW gap \in Int, reqs' = [reqs EXCEPT ![r] = Over(gap)], extPaid \subseteq extPaid'
  PROVE  RequestsOK' /\ SentIsPaid' /\ DepositIsSettled'
<1>1. /\ Over(gap) \in RequestType /\ RequestOK(Over(gap))
      /\ Over(gap).stage \notin Charged /\ Over(gap).kind # "deposit"
  BY OverOK DEF Charged
<1> QED
  BY <1>1, SetRequest

\* Closing a request keeps the requests in order (Close).
LEMMA CloseOK ==
  ASSUME RequestsOK, SentIsPaid, DepositIsSettled, InvoicesKept,
         NEW r \in RequestIds, Close(r), extPaid \subseteq extPaid'
  PROVE  RequestsOK' /\ SentIsPaid' /\ DepositIsSettled'
<1>1. reqs[r].btc - reqs[r].sent \in Int
  BY SMT DEF RequestsOK, RequestType
<1> QED
  BY <1>1, EndOK DEF Close

-----------------------------------------------------------------------------
\* Receiving.

\* Issuing an invoice keeps the invoices in order (create_invoice).
LEMMA NewInvoiceOK ==
  ASSUME InvoicesOK, NEW i \in InvoiceIds, NEW owner \in Users \cup {DEALER_UID},
         NEW value \in Nat, NEW into \in Currency,
         NEW reference \in {"", "KolliderSettlement", "ExternalDeposit"},
         NewInvoice(i, owner, value, into, reference)
  PROVE  InvoicesOK' /\ InvoicesKept
<1> DEFINE x == [NoInvoice EXCEPT !.state = "open", !.owner = owner, !.value = value,
                                  !.into = into, !.reference = reference]
<1>1. x \in InvoiceType /\ x.state = "open" /\ x.owner = owner
      /\ x.received = 0 /\ x.credited = 0 /\ ~x.event
  BY EmptyOK DEF InvoiceType
<1>2. invoices[i].state = "none" /\ invoices' = [invoices EXCEPT ![i] = x]
  BY DEF NewInvoice, FreshInvoice
<1> HIDE DEF x
<1>3. InvoiceOK(x)
  BY <1>1 DEF InvoiceOK
<1> QED
  BY <1>1, <1>2, <1>3, SetInvoice

\* Taking a settlement event out of the queue keeps the invoices in order.
LEMMA EventTakenOK ==
  ASSUME InvoicesOK, NEW i \in InvoiceIds, invoices' = EventTaken(i)
  PROVE  InvoicesOK' /\ InvoicesKept
<1> DEFINE x == [invoices[i] EXCEPT !.event = FALSE]
<1> invoices[i] \in InvoiceType /\ InvoiceOK(invoices[i])
  BY DEF InvoicesOK
<1>1. /\ x \in InvoiceType /\ x.state = invoices[i].state /\ x.owner = invoices[i].owner
      /\ x.value = invoices[i].value /\ x.received = invoices[i].received
      /\ x.credited = invoices[i].credited /\ ~x.event
  BY DEF InvoiceType
<1>2. invoices[i].state = "none" => x = invoices[i]
  BY EmptyOK DEF InvoiceOK, InvoiceType
<1>3. invoices' = [invoices EXCEPT ![i] = x]
  BY DEF EventTaken
<1> HIDE DEF x
<1>4. InvoiceOK(x)
  BY <1>1, <1>2 DEF InvoiceOK
<1> QED
  BY <1>1, <1>3, <1>4, SetInvoice

\* Crediting a settled invoice keeps the invoices in order.
LEMMA CreditedOK ==
  ASSUME InvoicesOK, NEW i \in InvoiceIds, invoices[i].state = "settled",
         NEW marked \in BOOLEAN, Credited(i, marked)
  PROVE  InvoicesOK' /\ InvoicesKept
<1> invoices[i] \in InvoiceType /\ InvoiceOK(invoices[i])
  BY DEF InvoicesOK
<1>a. invoices[i].credited \in Nat /\ invoices[i].value \in Nat
  BY DEF InvoiceType
<1>1. PICK n \in Nat : n = invoices[i].credited + invoices[i].value
  BY <1>a, SMT
<1>2. PICK m \in BOOLEAN : m = (invoices[i].settled \/ marked)
  BY DEF InvoiceType
<1> DEFINE x == [invoices[i] EXCEPT !.event = FALSE, !.credited = n, !.settled = m]
<1>3. x \in InvoiceType /\ x.state = "settled" /\ x.owner = invoices[i].owner
      /\ x.value = invoices[i].value
  BY DEF InvoiceType
<1>4. invoices' = [invoices EXCEPT ![i] = x]
  BY <1>1, <1>2 DEF Credited
<1> HIDE DEF x
<1>5. InvoiceOK(x)
  BY <1>3 DEF InvoiceOK
<1> QED
  BY <1>3, <1>4, <1>5, SetInvoice

\* A call succeeds or not.
LEMMA AttemptType == \A faults : Attempt(faults) \subseteq BOOLEAN
BY DEF Attempt

\* A new request for the dealer keeps the requests in order.
LEMMA ToDealerOK ==
  ASSUME RequestsOK, SentIsPaid, DepositIsSettled, InvoicesKept,
         NEW r \in RequestIds, NEW x \in RequestType, reqs' = [reqs EXCEPT ![r] = x],
         x.stage = "dealer", x.uid \in Users, x.btc = 0, x.sent = 0,
         x.kind \in {"payment", "swap", "invoice", "deposit", "lnurl"},
         x.cur = BTC => x.kind = "swap" /\ x.rate = UnitRate,
         x.kind = "payment" => x.inv \in IF x.own THEN InvoiceIds ELSE ExternalIds,
         x.kind = "deposit" => /\ x.inv \in InvoiceIds
                               /\ invoices[x.inv].state = "settled"
                               /\ invoices[x.inv].value = x.amount,
         UNCHANGED extPaid
  PROVE  RequestsOK' /\ SentIsPaid' /\ DepositIsSettled'
<1>1. RequestOK(x) /\ x.stage \notin Charged
  BY DEF RequestOK, Charged, Waiting
<1> QED
  BY <1>1, SetRequest

\* InvoiceRequest keeps the invariant.
LEMMA InvoiceRequestInv ==
  ASSUME Inv, NEW u \in Users, NEW cur \in Currency, NEW amount \in Amounts,
         NEW into \in Currency, InvoiceRequest(u, cur, amount, into)
  PROVE  Inv'
<1> BooksOK /\ RequestsOK /\ InvoicesOK /\ ViewsOK /\ SentIsPaid /\ DepositIsSettled
  BY InvParts
<1>1. amount \in Nat /\ InSats(amount) \in Nat
  BY BankAssumption, SatFacts
<1>2. BooksOK' /\ ViewsOK' /\ UNCHANGED extPaid
  BY Frames DEF InvoiceRequest, ViewsOK, lnd
<1>3. CASE /\ cur = BTC /\ UNCHANGED reqs
           /\ \E i \in InvoiceIds : NewInvoice(i, u, InSats(amount), into, "")
  <2>1. InvoicesOK' /\ InvoicesKept
    BY <1>1, <1>3, NewInvoiceOK
  <2> QED
    BY <1>2, <1>3, <2>1, Frames, InvParts
<1>4. CASE cur # BTC /\ UNCHANGED invoices
           /\ \E r \in RequestIds : reqs' = [reqs EXCEPT ![r] =
                  [NoRequest EXCEPT !.kind = "invoice", !.stage = "dealer",
                                    !.uid = u, !.cur = cur, !.amount = amount]]
  <2> DEFINE x == [NoRequest EXCEPT !.kind = "invoice", !.stage = "dealer",
                                    !.uid = u, !.cur = cur, !.amount = amount]
  <2>1. PICK r \in RequestIds : reqs' = [reqs EXCEPT ![r] = x]
    BY <1>4
  <2>2. x \in RequestType /\ x.stage = "dealer" /\ x.kind = "invoice" /\ x.uid = u
        /\ x.cur = cur /\ x.btc = 0 /\ x.sent = 0
    BY <1>1, EmptyOK DEF RequestType, Stages, Kinds
  <2>3. InvoicesOK' /\ InvoicesKept
    BY <1>4, Frames
  <2> HIDE DEF x
  <2>4. RequestsOK' /\ SentIsPaid' /\ DepositIsSettled'
    BY <1>2, <1>4, <2>1, <2>2, <2>3, ToDealerOK
  <2> QED
    BY <1>2, <2>3, <2>4, InvParts
<1>5. CASE UNCHANGED <<invoices, reqs>>
  BY <1>2, <1>5, Frames, InvParts
<1> QED
  BY <1>3, <1>4, <1>5 DEF InvoiceRequest

\* InvoiceResponse keeps the invariant.
LEMMA InvoiceResponseInv ==
  ASSUME LedgerLaws, Inv, NEW r \in RequestIds, NEW rate \in Rates, InvoiceResponse(r, rate)
  PROVE  Inv'
<1> BooksOK /\ RequestsOK /\ InvoicesOK /\ ViewsOK /\ SentIsPaid /\ DepositIsSettled
  BY InvParts
<1>2. reqs[r] \in RequestType /\ RequestOK(reqs[r])
  BY DEF RequestsOK
<1>3. reqs[r].uid \in Users /\ reqs[r].cur \in Currency /\ reqs[r].amount \in Nat
  BY <1>2 DEF InvoiceResponse, RequestOK, RequestType, Waiting
<1>1. BooksOK' /\ ViewsOK' /\ UNCHANGED extPaid
  BY <1>3, Frames DEF InvoiceResponse, ViewsOK, lnd
<1>4. SatsUp(Exchange(reqs[r].amount, rate)) \in Nat
  BY <1>3, BankAssumption, SatFacts DEF LedgerLaws, ExchangeLaw
<1>5. InvoicesOK' /\ InvoicesKept
  BY <1>3, <1>4, NewInvoiceOK, Frames, ZenonT(30) DEF InvoiceResponse
<1>6. RequestsOK' /\ SentIsPaid' /\ DepositIsSettled'
  BY <1>1, <1>5, CloseOK DEF InvoiceResponse
<1> QED
  BY <1>1, <1>5, <1>6, InvParts

\* ExternalPays keeps the invariant.
LEMMA ExternalPaysInv ==
  ASSUME Inv, NEW i \in InvoiceIds, NEW amount \in Amounts, ExternalPays(i, amount)
  PROVE  Inv'
<1> BooksOK /\ RequestsOK /\ InvoicesOK /\ ViewsOK /\ SentIsPaid /\ DepositIsSettled
  BY InvParts
<1>1. amount \in Nat
  BY BankAssumption
<1>2. BooksOK' /\ ViewsOK' /\ UNCHANGED <<reqs, extPaid>>
  BY <1>1, Frames, SMT DEF ExternalPays, ViewsOK
<1>3. PICK reported \in BOOLEAN :
        invoices' = [invoices EXCEPT ![i].state = "settled", ![i].received = amount,
                                     ![i].event = reported]
  BY AttemptType DEF ExternalPays
<1> DEFINE x == [invoices[i] EXCEPT !.state = "settled", !.received = amount,
                                    !.event = reported]
<1>4. invoices[i] \in InvoiceType /\ InvoiceOK(invoices[i]) /\ invoices[i].state = "open"
  BY DEF InvoicesOK, ExternalPays
<1>5. x \in InvoiceType /\ x.state = "settled" /\ x.owner = invoices[i].owner
  BY <1>1, <1>4 DEF InvoiceType
<1>6. invoices' = [invoices EXCEPT ![i] = x]
  BY <1>3
<1> HIDE DEF x
<1>7. InvoiceOK(x)
  BY <1>4, <1>5 DEF InvoiceOK
<1>8. InvoicesOK' /\ InvoicesKept
  BY <1>4, <1>5, <1>6, <1>7, SetInvoice
<1> QED
  BY <1>2, <1>8, Frames, InvParts

\* A BTC deposit keeps the invariant.
LEMMA DepositBtcInv ==
  ASSUME LedgerLaws, Inv, NEW i \in InvoiceIds, invoices[i].event, invoices[i].owner # DEALER_UID,
         DepositBtc(i), UNCHANGED <<available, extSettled, lnd>>
  PROVE  Inv'
<1> BooksOK /\ RequestsOK /\ InvoicesOK /\ ViewsOK /\ SentIsPaid /\ DepositIsSettled
  BY InvParts
<1> DEFINE u == invoices[i].owner
<1> DEFINE v == invoices[i].value
<1>1. invoices[i] \in InvoiceType /\ InvoiceOK(invoices[i])
  BY DEF InvoicesOK
<1>2. u \in Users /\ v \in Nat /\ invoices[i].state = "settled"
  BY <1>1 DEF InvoiceOK, InvoiceType
<1>3. ViewsOK' /\ UNCHANGED <<reqs, extPaid>>
  BY <1>2 DEF DepositBtc, ViewsOK, lnd
<1>4. CASE /\ Postable(v)
           /\ Commit(Post(ledger, BankLiability, UserAccount(u, BTC), v),
                     {BankLiability, UserAccount(u, BTC)})
           /\ \E marked \in BOOLEAN : Credited(i, marked)
  <2>1. BooksOK'
    <3> HIDE DEF u, v
    <3>1. v \in Int /\ v > 0
      BY <1>2, <1>4, SMT DEF Postable
    <3> QED
      BY <1>2, <1>4, <3>1, Legs, OneLeg
  <2>2. InvoicesOK' /\ InvoicesKept
    BY <1>2, <1>4, CreditedOK
  <2> QED
    BY <1>3, <2>1, <2>2, Frames, InvParts
<1>5. CASE UNCHANGED books /\ invoices' = EventTaken(i)
  <2>1. InvoicesOK' /\ InvoicesKept
    BY <1>5, EventTakenOK
  <2> QED
    BY <1>3, <1>5, <2>1, Frames, InvParts
<1> QED
  BY <1>4, <1>5, AttemptType DEF DepositBtc, Creditable, DepositAmount

\* Asking the dealer for the rate of a deposit keeps the invariant.
LEMMA DepositFiatInv ==
  ASSUME Inv, NEW i \in InvoiceIds, invoices[i].event, invoices[i].owner # DEALER_UID,
         invoices[i].into # BTC, DepositFiat(i), UNCHANGED <<available, extSettled, lnd>>
  PROVE  Inv'
<1> BooksOK /\ RequestsOK /\ InvoicesOK /\ ViewsOK /\ SentIsPaid /\ DepositIsSettled
  BY InvParts
<1>1. invoices[i] \in InvoiceType /\ InvoiceOK(invoices[i])
  BY DEF InvoicesOK
<1>2. PICK u \in Users, c \in Currency, v \in Nat :
        u = invoices[i].owner /\ c = invoices[i].into /\ v = invoices[i].value
  BY <1>1 DEF InvoiceOK, InvoiceType
<1>3. invoices[i].state = "settled" /\ i \in Nat
  BY <1>1, BankAssumption, SMT DEF InvoiceOK, InvoiceIds
<1>4. BooksOK' /\ ViewsOK' /\ UNCHANGED extPaid
  BY Frames DEF DepositFiat, ViewsOK, lnd
<1>5. InvoicesOK' /\ InvoicesKept
  BY EventTakenOK DEF DepositFiat
<1> DEFINE x == [NoRequest EXCEPT !.kind = "deposit", !.stage = "dealer", !.uid = u,
                                  !.cur = c, !.amount = v, !.inv = i]
<1>6. PICK r \in RequestIds : reqs' = [reqs EXCEPT ![r] = x]
  BY <1>2 DEF DepositFiat
<1>7. /\ x \in RequestType /\ x.stage = "dealer" /\ x.kind = "deposit" /\ x.uid = u
      /\ x.cur = c /\ x.amount = v /\ x.inv = i /\ x.btc = 0 /\ x.sent = 0
  BY <1>3, EmptyOK DEF RequestType, Stages, Kinds
<1> HIDE DEF x
<1>8. RequestsOK' /\ SentIsPaid' /\ DepositIsSettled'
  BY <1>2, <1>3, <1>4, <1>5, <1>6, <1>7, ToDealerOK
<1> QED
  BY <1>4, <1>5, <1>8, InvParts

\* A deposit of the dealer keeps the invariant, booked or not.
LEMMA DealerDepositInv ==
  ASSUME LedgerLaws, Inv, NEW i \in InvoiceIds, invoices[i].event, handle_dealer_deposit(i),
         UNCHANGED <<available, extSettled, lnd>>
  PROVE  Inv'
<1> BooksOK /\ RequestsOK /\ InvoicesOK /\ ViewsOK /\ SentIsPaid /\ DepositIsSettled
  BY InvParts
<1>1. invoices[i] \in InvoiceType /\ InvoiceOK(invoices[i])
  BY DEF InvoicesOK
<1>2. invoices[i].value \in Nat /\ invoices[i].state = "settled"
  BY <1>1 DEF InvoiceOK, InvoiceType
<1>3. PICK v \in Nat : v = invoices[i].value
  BY <1>2
<1>4. PICK from \in {DealerExternal, BankLiability} :
        from = IF invoices[i].reference = "KolliderSettlement"
               THEN DealerExternal ELSE BankLiability
  OBVIOUS
<1>5. /\ from \in Accounts /\ DealerAccount(BTC) \in Accounts
      /\ Leg(from, DealerAccount(BTC)) /\ OfNoUser(from)
  BY <1>4, Legs DEF LedgerLaws, AccountLaw
<1>6. ViewsOK' /\ UNCHANGED <<reqs, extPaid>>
  BY DEF handle_dealer_deposit, ViewsOK, lnd
<1>7. CASE /\ Postable(v) /\ Credited(i, FALSE)
           /\ Commit(Post(ledger, from, DealerAccount(BTC), v), {from, DealerAccount(BTC)})
  <2>1. BooksOK'
    <3>1. v \in Int /\ v > 0
      BY <1>3, <1>7, SMT DEF Postable
    <3> QED
      BY <1>5, <1>7, <3>1, Legs, OneLeg
  <2>2. InvoicesOK' /\ InvoicesKept
    BY <1>2, <1>7, CreditedOK
  <2> QED
    BY <1>6, <2>1, <2>2, Frames, InvParts
<1>8. CASE /\ Commit(ledger, {from, DealerAccount(BTC)})
           /\ invoices' = EventTaken(i)
  <2>1. BooksOK'
    BY <1>5, <1>8, CommitBooks DEF BooksOK, Reconciled
  <2>2. InvoicesOK' /\ InvoicesKept
    BY <1>8, EventTakenOK
  <2> QED
    BY <1>6, <2>1, <2>2, Frames, InvParts
<1> QED
  BY <1>3, <1>4, <1>7, <1>8 DEF handle_dealer_deposit

\* Deposit keeps the invariant.
LEMMA DepositInv ==
  ASSUME LedgerLaws, Inv, NEW i \in InvoiceIds, Deposit(i)
  PROVE  Inv'
BY DepositBtcInv, DepositFiatInv, DealerDepositInv DEF Deposit

\* A deposit that is dropped keeps the invariant.
LEMMA DepositDroppedInv ==
  ASSUME Inv, NEW i \in InvoiceIds, DepositDropped(i)
  PROVE  Inv'
<1> BooksOK /\ RequestsOK /\ InvoicesOK /\ ViewsOK /\ SentIsPaid /\ DepositIsSettled
  BY InvParts
<1>1. BooksOK' /\ ViewsOK' /\ UNCHANGED <<reqs, extPaid>>
  BY Frames DEF DepositDropped, ViewsOK, lnd
<1>2. InvoicesOK' /\ InvoicesKept
  BY EventTakenOK DEF DepositDropped
<1> QED
  BY <1>1, <1>2, Frames, InvParts

\* Booking a fiat deposit at the dealer's rate keeps the invariant.
LEMMA FiatDepositResponseInv ==
  ASSUME LedgerLaws, Inv, NEW r \in RequestIds, NEW rate \in Rates, FiatDepositResponse(r, rate)
  PROVE  Inv'
<1> BooksOK /\ RequestsOK /\ InvoicesOK /\ ViewsOK /\ SentIsPaid /\ DepositIsSettled
  BY InvParts
<1>1. reqs[r] \in RequestType /\ RequestOK(reqs[r])
  BY DEF RequestsOK
<1>2. PICK u \in Users, c \in Currency, v \in Nat :
        u = reqs[r].uid /\ c = reqs[r].cur /\ v = reqs[r].amount
  BY <1>1, ZenonT(30) DEF RequestOK, RequestType, Waiting, FiatDepositResponse
<1>3. c # BTC
  BY <1>1, <1>2 DEF RequestOK, Waiting, FiatDepositResponse
<1>4. PICK fiat \in Nat : fiat = Exchange(v, rate)
  BY BankAssumption DEF LedgerLaws, ExchangeLaw
<1>5. reqs[r].inv \in InvoiceIds /\ invoices[reqs[r].inv].state = "settled"
  BY DEF DepositIsSettled, FiatDepositResponse
<1>6. ViewsOK' /\ UNCHANGED extPaid
  BY <1>2 DEF FiatDepositResponse, ViewsOK, lnd
<1>7. BooksOK' /\ InvoicesOK' /\ InvoicesKept
  <2>1. CASE UNCHANGED <<books, invoices>>
    BY <2>1, Frames
  <2>2. CASE /\ Postable(v) /\ Postable(fiat)
             /\ Commit(BuyFiat(ledger, u, c, v, fiat), FiatAccounts(u, c))
             /\ \E marked \in BOOLEAN : Credited(reqs[r].inv, marked)
    <3>1. v \in Int /\ v > 0 /\ fiat \in Int /\ fiat > 0
      BY <2>2, SMT DEF Postable
    <3>2. BooksOK'
      <4>1. Commit(Post(Post(ledger, BankLiability, DealerAccount(BTC), v),
                        DealerAccount(c), UserAccount(u, c), fiat), FiatAccounts(u, c))
        BY <2>2 DEF BuyFiat
      <4>2. FiatAccounts(u, c)
              = {BankLiability, DealerAccount(BTC), DealerAccount(c), UserAccount(u, c)}
        BY DEF FiatAccounts
      <4> QED
        BY <3>1, <4>1, <4>2, Legs, TwoLegs
    <3> QED
      BY <1>5, <2>2, <3>2, CreditedOK
  <2> QED
    BY <1>2, <1>4, <2>1, <2>2, AttemptType DEF FiatDepositResponse
<1>8. RequestsOK' /\ SentIsPaid' /\ DepositIsSettled'
  BY <1>6, <1>7, CloseOK DEF FiatDepositResponse
<1> QED
  BY <1>6, <1>7, <1>8, InvParts

\* A request that is given up keeps the invariant (DealerRefuses, PaymentRefused).
LEMMA GiveUpInv ==
  ASSUME Inv, NEW r \in RequestIds, Close(r),
         UNCHANGED <<books, known, available, invoices, extSettled, lnd>>
  PROVE  Inv'
<1> BooksOK /\ RequestsOK /\ InvoicesOK /\ ViewsOK /\ SentIsPaid /\ DepositIsSettled
  BY InvParts
<1>1. BooksOK' /\ ViewsOK' /\ UNCHANGED extPaid
  BY Frames DEF ViewsOK, lnd
<1>2. InvoicesOK' /\ InvoicesKept
  BY Frames
<1>3. RequestsOK' /\ SentIsPaid' /\ DepositIsSettled'
  BY <1>1, <1>2, CloseOK
<1> QED
  BY <1>1, <1>2, <1>3, InvParts

-----------------------------------------------------------------------------
\* Sending.

\* An internal transfer keeps the books in order (make_internal_tx).
LEMMA InternalTxOK ==
  ASSUME LedgerLaws, BooksOK, known \subseteq Users, NEW u \in Users, NEW v \in Users, NEW c \in Currency,
         NEW amount \in Int, NEW ok, make_internal_tx(u, v, c, amount, ok)
  PROVE  BooksOK' /\ known' \subseteq Users
<1>1. known' \subseteq Users
  BY DEF make_internal_tx
<1>2. CASE ~InternalTxBooks(u, v, c, amount, ok)
  BY <1>1, <1>2, Frames DEF make_internal_tx
<1>3. CASE InternalTxBooks(u, v, c, amount, ok)
  <2>1. /\ Commit(Post(ledger, UserAccount(u, c), UserAccount(v, c), amount),
                  {UserAccount(u, c), UserAccount(v, c)})
        /\ ledger[UserAccount(u, c)] >= amount /\ amount > 0 /\ u # v
    BY <1>3 DEF make_internal_tx, InternalTxBooks, Postable
  <2>3. BooksOK'
    BY <2>1, Legs, OneLeg
  <2> QED
    BY <1>1, <2>3
<1> QED
  BY <1>2, <1>3

\* Paying the invoice of another user keeps books and invoices in order.
LEMMA PayOwnOK ==
  ASSUME LedgerLaws, BooksOK, InvoicesOK, known \subseteq Users, NEW u \in Users, NEW c \in Currency,
         NEW i \in InvoiceIds, NEW rate \in RateType, PayOwn(u, c, i, rate)
  PROVE  BooksOK' /\ known' \subseteq Users /\ InvoicesOK' /\ InvoicesKept
<1>1. invoices[i] \in InvoiceType /\ InvoiceOK(invoices[i])
  BY DEF InvoicesOK
<1>2. PICK v \in Users : v = invoices[i].owner
  BY DEF PayOwn
<1>3. invoices[i].value \in Nat
  BY <1>1 DEF InvoiceType
<1>4. PICK amount \in Int : amount = Exchange(invoices[i].value, rate)
  BY <1>3, SMT DEF RateType, LedgerLaws, ExchangeLaw
<1>a. PICK ok \in Attempt({"row", "summary"}), written \in Attempt({"save"}) :
        /\ make_internal_tx(u, invoices[i].owner, c, Exchange(invoices[i].value, rate), ok)
        /\ invoices' = [invoices EXCEPT ![i].settled =
               @ \/ (written /\ InternalTxBooks(u, invoices[i].owner, c,
                                                Exchange(invoices[i].value, rate), ok))]
  BY ZenonT(30) DEF PayOwn
<1>5. /\ make_internal_tx(u, v, c, amount, ok)
      /\ invoices' = [invoices EXCEPT ![i].settled =
             @ \/ (written /\ InternalTxBooks(u, v, c, amount, ok))]
  BY <1>2, <1>4, <1>a
<1>6. BooksOK' /\ known' \subseteq Users
  BY <1>5, InternalTxOK
<1>7. PICK m \in BOOLEAN :
        m = (invoices[i].settled \/ (written /\ InternalTxBooks(u, v, c, amount, ok)))
  BY <1>1 DEF InvoiceType
<1> DEFINE x == [invoices[i] EXCEPT !.settled = m]
<1>8. /\ x \in InvoiceType /\ x.state = invoices[i].state /\ x.owner = invoices[i].owner
      /\ x.value = invoices[i].value /\ x.received = invoices[i].received
      /\ x.credited = invoices[i].credited /\ x.event = invoices[i].event
  BY <1>1 DEF InvoiceType
<1>9. invoices' = [invoices EXCEPT ![i] = x]
  BY <1>5, <1>7
<1> HIDE DEF x
<1>10. InvoiceOK(x)
  BY <1>1, <1>8 DEF InvoiceOK, PayOwn
<1> QED
  BY <1>6, <1>8, <1>9, <1>10, SetInvoice

\* The debit of a payment keeps the books in order: the payer can afford it.
LEMMA DebitOK ==
  ASSUME LedgerLaws, BooksOK, NEW u \in Users, NEW c \in Currency, NEW total \in Int, NEW charge \in Int,
         total > 0, charge > 0, ledger[UserAccount(u, c)] >= charge, Debit(u, c, total, charge)
  PROVE  BooksOK'
<1>2. CASE c = BTC
  <2>1. Commit(Post(ledger, UserAccount(u, c), BankLiability, charge),
               {UserAccount(u, c), BankLiability})
    BY <1>2 DEF Debit
  <2>2. Leg(UserAccount(u, c), BankLiability)
    BY <1>2, Legs
  <2> QED
    BY <2>1, <2>2, Legs, OneLeg
<1>3. CASE c # BTC
  <2>1. Commit(Post(Post(ledger, UserAccount(u, c), DealerAccount(c), charge),
                    DealerAccount(BTC), BankLiability, total), FiatAccounts(u, c))
    BY <1>3 DEF Debit
  <2>2. FiatAccounts(u, c)
          = {UserAccount(u, c), DealerAccount(c), DealerAccount(BTC), BankLiability}
    BY ZenonT(30) DEF FiatAccounts
  <2> QED
    BY <2>1, <2>2, Legs, TwoLegs
<1> QED
  BY <1>2, <1>3

\* Debiting and sending a payment keeps books and requests in order.
LEMMA PayExternalOK ==
  ASSUME LedgerLaws, BooksOK, RequestsOK, SentIsPaid, DepositIsSettled, InvoicesOK,
         NEW r \in RequestIds, NEW u \in Users, NEW c \in Currency, NEW e \in ExternalIds,
         NEW rate \in RateType, c = BTC => rate = UnitRate,
         PayExternal(r, u, c, e, rate), UNCHANGED extPaid
  PROVE  /\ BooksOK' /\ RequestsOK' /\ SentIsPaid' /\ DepositIsSettled'
         /\ UNCHANGED <<known, invoices>>
<1>1. PICK fee \in FeeLimits :
        /\ Affordable(u, c, AmountInSats(e), fee, rate)
        /\ Postable(Exchange(AmountInSats(e) + fee, rate))
        /\ Debit(u, c, AmountInSats(e) + fee, Exchange(AmountInSats(e) + fee, rate))
        /\ \E summary \in Attempt({"summary"}) :
             reqs' = [reqs EXCEPT ![r] =
               [NoRequest EXCEPT !.kind = "payment",
                 !.stage = IF summary THEN "inflight" ELSE "stranded",
                 !.uid = u, !.cur = c, !.inv = e, !.rate = rate,
                 !.btc = AmountInSats(e) + fee,
                 !.charge = Exchange(AmountInSats(e) + fee, rate)]]
        /\ UNCHANGED <<known, invoices>>
  BY DEF PayExternal
<1>2. AmountInSats(e) \in Nat /\ fee \in Nat /\ fee > 0 /\ e \in Nat /\ Sat \in Nat /\ Sat > 0
  <2>1. e \in Nat
    BY BankAssumption, SMT DEF ExternalIds
  <2> QED
    BY <2>1, SatFacts
<1>3. PICK total \in Nat : total = AmountInSats(e) + fee
  BY <1>2, SMT
<1>4. total > 0 /\ total > AmountInSats(e) /\ 0 < total + Sat
  BY <1>2, <1>3, SMT
<1>5. PICK charge \in Int : charge = Exchange(total, rate)
  BY SMT DEF RateType, LedgerLaws, ExchangeLaw
<1>6. c = BTC => charge = total
  BY <1>5, SMT DEF LedgerLaws, ExchangeLaw
<1>7. charge > 0 /\ ledger[UserAccount(u, c)] >= charge /\ Debit(u, c, total, charge)
  BY <1>1, <1>3, <1>5 DEF Postable, Affordable
<1>8. BooksOK'
  BY <1>4, <1>7, DebitOK, SMT
<1>9. PICK stage \in {"inflight", "stranded"} :
        reqs' = [reqs EXCEPT ![r] =
          [NoRequest EXCEPT !.kind = "payment", !.stage = stage, !.uid = u, !.cur = c,
             !.inv = e, !.rate = rate, !.btc = total, !.charge = charge]]
  BY <1>1, <1>3, <1>5
<1> DEFINE x == [NoRequest EXCEPT !.kind = "payment", !.stage = stage, !.uid = u, !.cur = c,
                   !.inv = e, !.rate = rate, !.btc = total, !.charge = charge]
<1>a. stage \in Stages /\ "payment" \in Kinds /\ total \in Int
  BY SMT DEF Stages, Kinds
<1>b. x \in RequestType
  BY <1>2, <1>a, EmptyOK DEF RequestType
<1>c. NoRequest \in RequestType /\ NoRequest.sent = 0
  BY EmptyOK
<1>10. /\ x.kind = "payment" /\ x.stage = stage /\ x.uid = u
       /\ x.cur = c /\ x.inv = e /\ x.rate = rate /\ x.btc = total /\ x.charge = charge
       /\ x.sent = 0
  BY <1>c DEF RequestType
<1>d. reqs' = [reqs EXCEPT ![r] = x]
  BY <1>9
<1> HIDE DEF x
<1>11. RequestOK(x)
  BY <1>4, <1>5, <1>6, <1>7, <1>10, <1>b, SMT DEF RequestOK, Charged, Waiting
<1>12. InvoicesKept
  BY <1>1, Frames
<1>e. x.kind # "deposit" /\ ~(x.sent > 0) /\ extPaid \subseteq extPaid'
  BY <1>10, SMT
<1>13. RequestsOK' /\ SentIsPaid' /\ DepositIsSettled'
  BY <1>b, <1>d, <1>e, <1>11, <1>12, SetRequest
<1> QED
  BY <1>1, <1>8, <1>13

\* A transfer by user name keeps the invariant.
LEMMA PaymentByNameInv ==
  ASSUME LedgerLaws, Inv, NEW u \in Users, NEW v \in Users, NEW c \in Currency, NEW amount \in Amounts,
         PaymentByName(u, v, c, amount)
  PROVE  Inv'
<1> BooksOK /\ RequestsOK /\ InvoicesOK /\ ViewsOK /\ SentIsPaid /\ DepositIsSettled
  BY InvParts
<1>1. BooksOK' /\ known' \subseteq Users
  BY BankAssumption, InternalTxOK, SMT DEF PaymentByName, ViewsOK
<1>2. ViewsOK' /\ UNCHANGED <<invoices, reqs, extPaid>>
  BY <1>1 DEF PaymentByName, ViewsOK, lnd
<1> QED
  BY <1>1, <1>2, Frames, InvParts

\* A payment request keeps the invariant.
LEMMA PaymentRequestInv ==
  ASSUME LedgerLaws, Inv, NEW u \in Users, NEW c \in Currency, NEW own \in BOOLEAN,
         NEW inv \in IF own THEN InvoiceIds ELSE ExternalIds, PaymentRequest(u, c, own, inv)
  PROVE  Inv'
<1> BooksOK /\ RequestsOK /\ InvoicesOK /\ ViewsOK /\ SentIsPaid /\ DepositIsSettled
  BY InvParts
<1>1. UNCHANGED <<available, extSettled, extPaid, node, dealerGap>>
  BY DEF PaymentRequest, lnd
<1>2. UnitRate \in RateType
  BY SMT DEF UnitRate, RateType
<1>3. CASE \E r \in RequestIds : PaymentNeedsRate(r, u, c, own, inv)
  <2>1. PICK r \in RequestIds : PaymentNeedsRate(r, u, c, own, inv)
    BY <1>3
  <2> DEFINE x == [NoRequest EXCEPT !.kind = "payment", !.stage = "dealer", !.uid = u,
                                    !.cur = c, !.own = own, !.inv = inv]
  <2>2. inv \in Nat
    BY BankAssumption, SMT DEF InvoiceIds, ExternalIds
  <2>3. /\ x \in RequestType /\ x.kind = "payment" /\ x.stage = "dealer" /\ x.uid = u
        /\ x.cur = c /\ x.own = own /\ x.inv = inv /\ x.btc = 0 /\ x.sent = 0
    BY <2>2, EmptyOK DEF RequestType, Stages, Kinds
  <2>4. c # BTC /\ reqs' = [reqs EXCEPT ![r] = x] /\ UNCHANGED <<books, known, invoices>>
    BY <2>1 DEF PaymentNeedsRate
  <2> HIDE DEF x
  <2>5. BooksOK' /\ InvoicesOK' /\ InvoicesKept
    BY <2>4, Frames
  <2>6. RequestsOK' /\ SentIsPaid' /\ DepositIsSettled'
    BY <1>1, <2>3, <2>4, <2>5, ToDealerOK
  <2>7. ViewsOK'
    BY <1>1, <2>4 DEF ViewsOK
  <2> QED
    BY <2>5, <2>6, <2>7, InvParts
<1>4. CASE own /\ PayOwn(u, BTC, inv, UnitRate) /\ UNCHANGED reqs
  <2>1. BooksOK' /\ known' \subseteq Users /\ InvoicesOK' /\ InvoicesKept
    BY <1>2, <1>4, PayOwnOK DEF ViewsOK, LedgerLaws, AccountLaw
  <2>2. ViewsOK'
    BY <1>1, <2>1 DEF ViewsOK
  <2> QED
    BY <1>1, <1>4, <2>1, <2>2, Frames, InvParts
<1>5. CASE ~own /\ \E r \in RequestIds : PayExternal(r, u, BTC, inv, UnitRate)
  <2>1. /\ BooksOK' /\ RequestsOK' /\ SentIsPaid' /\ DepositIsSettled'
        /\ UNCHANGED <<known, invoices>>
    BY <1>1, <1>2, <1>5, PayExternalOK DEF LedgerLaws, AccountLaw
  <2>2. ViewsOK'
    BY <1>1, <2>1 DEF ViewsOK
  <2> QED
    BY <2>1, <2>2, Frames, InvParts
<1> QED
  BY <1>3, <1>4, <1>5 DEF PaymentRequest

\* A payment that comes back from the dealer or the loopback channel keeps the
\* invariant.
LEMMA PaymentResumesInv ==
  ASSUME LedgerLaws, Inv, NEW r \in RequestIds, NEW rate \in RateType, PaymentResumes(r, rate)
  PROVE  Inv'
<1> BooksOK /\ RequestsOK /\ InvoicesOK /\ ViewsOK /\ SentIsPaid /\ DepositIsSettled
  BY InvParts
<1>1. UNCHANGED <<available, extSettled, extPaid, node, dealerGap>>
  BY DEF PaymentResumes, lnd
<1>2. reqs[r] \in RequestType /\ RequestOK(reqs[r])
  BY DEF RequestsOK
<1>3. reqs[r].uid \in Users /\ reqs[r].cur \in Currency /\ reqs[r].own \in BOOLEAN
  BY <1>2 DEF RequestOK, RequestType, Waiting, PaymentResumes
<1>4. reqs[r].inv \in IF reqs[r].own THEN InvoiceIds ELSE ExternalIds
  BY <1>2, ZenonT(30) DEF RequestOK, Waiting, PaymentResumes
<1>5. reqs[r].cur = BTC => rate = UnitRate
  BY <1>2 DEF RequestOK, Waiting, PaymentResumes
<1>6. CASE reqs[r].own /\ PayOwn(reqs[r].uid, reqs[r].cur, reqs[r].inv, rate) /\ Close(r)
  <2>1. BooksOK' /\ known' \subseteq Users /\ InvoicesOK' /\ InvoicesKept
    BY <1>3, <1>4, <1>6, PayOwnOK DEF ViewsOK
  <2>2. ViewsOK'
    BY <1>1, <2>1 DEF ViewsOK
  <2>3. RequestsOK' /\ SentIsPaid' /\ DepositIsSettled'
    BY <1>1, <1>6, <2>1, CloseOK
  <2> QED
    BY <2>1, <2>2, <2>3, InvParts
<1>7. CASE ~reqs[r].own /\ PayExternal(r, reqs[r].uid, reqs[r].cur, reqs[r].inv, rate)
  <2>1. /\ BooksOK' /\ RequestsOK' /\ SentIsPaid' /\ DepositIsSettled'
        /\ UNCHANGED <<known, invoices>>
    BY <1>1, <1>3, <1>4, <1>5, <1>7, PayExternalOK
  <2>2. ViewsOK'
    BY <1>1, <2>1 DEF ViewsOK
  <2> QED
    BY <2>1, <2>2, Frames, InvParts
<1> QED
  BY <1>6, <1>7 DEF PaymentResumes

\* LND paying an invoice keeps the invariant.
LEMMA LndPaysInv ==
  ASSUME Inv, NEW r \in RequestIds, LndPays(r)
  PROVE  Inv'
<1> BooksOK /\ RequestsOK /\ InvoicesOK /\ ViewsOK /\ SentIsPaid /\ DepositIsSettled
  BY InvParts
<1>1. reqs[r] \in RequestType /\ RequestOK(reqs[r]) /\ reqs[r].stage \in {"inflight", "orphan"}
  BY DEF RequestsOK, LndPays
<1>2. /\ reqs[r].inv \in ExternalIds /\ reqs[r].btc \in Int /\ reqs[r].charge \in Int
      /\ reqs[r].uid \in Users
      /\ reqs[r].btc > AmountInSats(reqs[r].inv) /\ reqs[r].charge > 0
      /\ reqs[r].charge = Exchange(reqs[r].btc, reqs[r].rate)
      /\ reqs[r].cur = BTC => reqs[r].charge = reqs[r].btc
  BY <1>1 DEF RequestOK, RequestType, Charged
<1>3. /\ ExternalValue[reqs[r].inv] \in Nat /\ ExternalValue[reqs[r].inv] > 0
      /\ AmountInSats(reqs[r].inv) \in Nat /\ Sat \in Nat
      /\ ExternalValue[reqs[r].inv] < AmountInSats(reqs[r].inv) + Sat
  BY <1>2, SatFacts
<1>a. PICK fee \in 0 .. (reqs[r].btc - AmountInSats(reqs[r].inv)), answered \in Attempt({"reply"}) :
        /\ node >= ExternalValue[reqs[r].inv] + fee
        /\ node' = node - (ExternalValue[reqs[r].inv] + fee)
        /\ reqs' = [reqs EXCEPT ![r].sent = ExternalValue[reqs[r].inv] + fee,
               ![r].stage = IF reqs[r].stage = "orphan" THEN "orphan"
                            ELSE IF answered THEN "paid" ELSE "failed"]
  BY DEF LndPays
<1>b. PICK sent \in Nat : sent = ExternalValue[reqs[r].inv] + fee
  BY <1>2, <1>3, SMT
<1>c. PICK stage \in {"orphan", "paid", "failed"} :
        stage = IF reqs[r].stage = "orphan" THEN "orphan" ELSE IF answered THEN "paid" ELSE "failed"
  OBVIOUS
<1>d. /\ sent > 0 /\ sent < reqs[r].btc + Sat /\ sent >= ExternalValue[reqs[r].inv]
      /\ sent - ExternalValue[reqs[r].inv] <= reqs[r].btc - AmountInSats(reqs[r].inv)
  BY <1>2, <1>3, <1>b, SMT
<1>4. /\ sent <= node
      /\ node' = node - sent
      /\ reqs' = [reqs EXCEPT ![r].sent = sent, ![r].stage = stage]
  BY <1>a, <1>b, <1>c, <1>d DEF ViewsOK
<1> DEFINE x == [reqs[r] EXCEPT !.sent = sent, !.stage = stage]
<1>5. x \in RequestType
  BY <1>1 DEF RequestType, Stages
<1>6. /\ x.sent = sent /\ x.stage = stage /\ x.inv = reqs[r].inv /\ x.btc = reqs[r].btc
      /\ x.charge = reqs[r].charge /\ x.rate = reqs[r].rate /\ x.cur = reqs[r].cur
      /\ x.kind = reqs[r].kind /\ x.amount = reqs[r].amount /\ x.uid = reqs[r].uid
  BY <1>1 DEF RequestType
<1>7. reqs' = [reqs EXCEPT ![r] = x]
  BY <1>4
<1> HIDE DEF x
<1>8. RequestOK(x)
  BY <1>2, <1>4, <1>6, <1>d DEF RequestOK, Charged, Waiting
<1>9. /\ extPaid' = extPaid \cup {x.inv}
      /\ UNCHANGED <<books, known, available, invoices, extSettled, dealerGap>>
  BY <1>6 DEF LndPays
<1>10. BooksOK' /\ InvoicesOK' /\ InvoicesKept
  BY <1>9, Frames
<1>11. x.kind = "deposit" => /\ x.inv \in InvoiceIds
                             /\ invoices[x.inv].state = "settled"
                             /\ invoices[x.inv].value = x.amount
  BY <1>6 DEF DepositIsSettled
<1>12. RequestsOK' /\ SentIsPaid' /\ DepositIsSettled'
  BY <1>5, <1>7, <1>8, <1>9, <1>10, <1>11, SetRequest
<1>13. ViewsOK'
  BY <1>2, <1>4, <1>6, <1>9, SMT DEF ViewsOK
<1> QED
  BY <1>10, <1>12, <1>13, InvParts

\* Moving a debited request to another stage after the payment keeps the
\* requests in order (LndFails, a result that is dropped).
LEMMA StageOK ==
  ASSUME RequestsOK, SentIsPaid, DepositIsSettled, InvoicesKept, NEW r \in RequestIds,
         NEW stage \in {"failed", "stranded"}, reqs[r].stage \in Charged,
         reqs' = [reqs EXCEPT ![r].stage = stage], extPaid \subseteq extPaid'
  PROVE  RequestsOK' /\ SentIsPaid' /\ DepositIsSettled'
<1> DEFINE x == [reqs[r] EXCEPT !.stage = stage]
<1>1. reqs[r] \in RequestType /\ RequestOK(reqs[r])
  BY DEF RequestsOK
<1>2. x \in RequestType
  BY <1>1 DEF RequestType, Stages
<1>3. /\ x.sent = reqs[r].sent /\ x.stage = stage /\ x.inv = reqs[r].inv
      /\ x.btc = reqs[r].btc /\ x.charge = reqs[r].charge /\ x.rate = reqs[r].rate
      /\ x.cur = reqs[r].cur /\ x.kind = reqs[r].kind /\ x.amount = reqs[r].amount
      /\ x.uid = reqs[r].uid
  BY <1>1 DEF RequestType
<1>4. reqs' = [reqs EXCEPT ![r] = x]
  OBVIOUS
<1> HIDE DEF x
<1>5. RequestOK(x)
  BY <1>1, <1>3 DEF RequestOK, Charged, Waiting
<1>6. x.kind = "deposit" => /\ x.inv \in InvoiceIds
                            /\ invoices[x.inv].state = "settled"
                            /\ invoices[x.inv].value = x.amount
  BY <1>3 DEF DepositIsSettled
<1>7. x.stage \in Charged /\ x.sent > 0 => x.inv \in extPaid'
  BY <1>3 DEF SentIsPaid
<1> QED
  BY <1>2, <1>4, <1>5, <1>6, <1>7, SetRequest

\* A payment that LND does not make keeps the invariant.
LEMMA LndFailsInv ==
  ASSUME Inv, NEW r \in RequestIds, LndFails(r)
  PROVE  Inv'
<1> BooksOK /\ RequestsOK /\ InvoicesOK /\ ViewsOK /\ SentIsPaid /\ DepositIsSettled
  BY InvParts
<1>1. BooksOK' /\ InvoicesOK' /\ InvoicesKept
  BY Frames DEF LndFails
<1>2. ViewsOK' /\ UNCHANGED extPaid
  BY DEF LndFails, ViewsOK, lnd
<1>3. RequestsOK' /\ SentIsPaid' /\ DepositIsSettled'
  BY <1>1, <1>2, StageOK DEF LndFails, Charged
<1> QED
  BY <1>1, <1>2, <1>3, InvParts

\* What LND reports of a payment it made is no more than was debited, and less
\* than two satoshi short of what was sent (PaidInSats).
LEMMA PaidFacts ==
  ASSUME RequestsOK, NEW r \in RequestIds, reqs[r].stage = "paid"
  PROVE  /\ PaidInSats(reqs[r]) \in Nat
         /\ PaidInSats(reqs[r]) <= reqs[r].btc
         /\ PaidInSats(reqs[r]) <= reqs[r].sent
         /\ PaidInSats(reqs[r]) + 2 * (Sat - 1) >= reqs[r].sent
<1>1. /\ reqs[r] \in RequestType /\ RequestOK(reqs[r]) /\ reqs[r].stage \in Charged
  BY DEF RequestsOK, Charged
<1>2. /\ reqs[r].inv \in ExternalIds /\ reqs[r].btc \in Int /\ reqs[r].sent \in Nat
      /\ reqs[r].sent >= ExternalValue[reqs[r].inv]
      /\ reqs[r].sent - ExternalValue[reqs[r].inv] <= reqs[r].btc - AmountInSats(reqs[r].inv)
  BY <1>1 DEF RequestOK, RequestType
<1>3. PICK value \in Nat, amount \in Nat :
        /\ value = ExternalValue[reqs[r].inv] /\ amount = AmountInSats(reqs[r].inv)
        /\ amount <= value /\ value < amount + Sat /\ Sat \in Nat
  BY <1>2, SatFacts
<1>4. PICK fee \in Nat : fee = reqs[r].sent - value
  BY <1>2, <1>3, SMT
<1>5. PICK paid \in Nat : paid = InSats(fee) /\ paid <= fee /\ fee < paid + Sat
  BY SatFacts
<1>6. PaidInSats(reqs[r]) = amount + paid
  BY <1>3, <1>4, <1>5 DEF PaidInSats
<1> QED
  BY <1>2, <1>3, <1>4, <1>5, <1>6, SMT

\* The result of a payment keeps the invariant: the excess fee and the refund
\* are positive and come from accounts that are not a user's.
LEMMA PaymentResultInv ==
  ASSUME LedgerLaws, Inv, NEW r \in RequestIds, PaymentResult(r)
  PROVE  Inv'
<1> BooksOK /\ RequestsOK /\ InvoicesOK /\ ViewsOK /\ SentIsPaid /\ DepositIsSettled
  BY InvParts
<1>1. UNCHANGED <<known, available, invoices, extPaid, node, dealerGap>>
  BY DEF PaymentResult, lnd
<1>2. InvoicesOK' /\ InvoicesKept
  BY <1>1, Frames
<1>3. /\ reqs[r] \in RequestType /\ RequestOK(reqs[r])
      /\ reqs[r].btc \in Int /\ reqs[r].sent \in Nat
  BY DEF RequestsOK, RequestType
<1>4. reqs[r].stage \in {"paid", "failed"} /\ reqs[r].stage \in Charged
  BY DEF PaymentResult, PaymentSucceeded, PaymentRefunded, Charged
<1>5. PICK u \in Users, c \in Currency, btc \in Int, charge \in Int :
        /\ u = reqs[r].uid /\ c = reqs[r].cur /\ btc = reqs[r].btc /\ charge = reqs[r].charge
        /\ charge = Exchange(reqs[r].btc, reqs[r].rate)
  BY <1>3, <1>4 DEF RequestOK, RequestType
<1>6. reqs[r].inv \in ExternalIds /\ charge > 0 /\ btc > 0
  <2>1. reqs[r].inv \in ExternalIds /\ charge > 0 /\ btc > AmountInSats(reqs[r].inv)
    BY <1>3, <1>4, <1>5 DEF RequestOK
  <2>2. AmountInSats(reqs[r].inv) \in Nat
    BY <2>1, SatFacts
  <2> QED
    BY <2>1, <2>2, SMT
<1>8. CASE PaymentSucceeded(r)
  <2>a. PaidInSats(reqs[r]) \in Nat
    BY <1>8, PaidFacts DEF PaymentSucceeded
  <2>1. PICK excess \in Int : excess = reqs[r].btc - PaidInSats(reqs[r])
    BY <1>3, <2>a, NatDifference
  <2>3. BooksOK'
    <3>1. CASE excess > 0
      <4>1. Commit(Post(ledger, BankLiability, DealerAccount(BTC), excess),
                   {BankLiability, DealerAccount(BTC)})
        BY <1>8, <2>1, <3>1 DEF PaymentSucceeded, ExcessFees
      <4> QED
        BY <3>1, <4>1, Legs, OneLeg
    <3>2. CASE ~(excess > 0)
      BY <1>8, <2>1, <3>2, Frames DEF PaymentSucceeded, ExcessFees
    <3> QED
      BY <3>1, <3>2
  <2>4. reqs[r].inv \in extPaid
    BY <1>3, <1>4, <1>8, ZenonT(30) DEF SentIsPaid, RequestOK, PaymentSucceeded
  <2>5. ViewsOK'
    BY <1>1, <1>6, <1>8, <2>4 DEF ViewsOK, PaymentSucceeded
  <2>2. PICK gap \in Int : gap = PaidInSats(reqs[r]) - reqs[r].sent
    <3>1. PaidInSats(reqs[r]) \in Int
      BY <2>a, SMT
    <3> QED
      BY <1>3, <3>1, NatDifference
  <2>6. RequestsOK' /\ SentIsPaid' /\ DepositIsSettled'
    BY <1>1, <1>2, <1>8, <2>2, EndOK DEF PaymentSucceeded
  <2> QED
    BY <1>2, <2>3, <2>5, <2>6, InvParts
<1>9. CASE PaymentRefunded(r)
  <2>1. BooksOK'
    <3>1. CASE c = BTC
      <4>1. Commit(Post(ledger, BankLiability, UserAccount(u, BTC), btc),
                   {BankLiability, UserAccount(u, BTC)})
        BY <1>5, <1>9, <3>1 DEF PaymentRefunded, Refund
      <4> QED
        BY <1>6, <4>1, Legs, OneLeg
    <3>2. CASE c # BTC
      <4>1. Commit(Post(Post(ledger, BankLiability, DealerAccount(BTC), btc),
                        DealerAccount(c), UserAccount(u, c), charge),
                   {BankLiability, DealerAccount(BTC), DealerAccount(c), UserAccount(u, c)})
        BY <1>5, <1>9, <3>2 DEF PaymentRefunded, Refund, RefundFiat, BuyFiat, FiatAccounts
      <4> QED
        BY <1>6, <4>1, Legs, TwoLegs
    <3> QED
      BY <3>1, <3>2
  <2>2. ViewsOK'
    BY <1>1, <1>9 DEF ViewsOK, PaymentRefunded
  <2>3. PICK gap \in Int : gap = -reqs[r].sent
    BY <1>3, SMT
  <2>4. RequestsOK' /\ SentIsPaid' /\ DepositIsSettled'
    BY <1>1, <1>2, <1>9, <2>3, EndOK DEF PaymentRefunded
  <2> QED
    BY <1>2, <2>1, <2>2, <2>4, InvParts
<1>10. CASE reqs' = [reqs EXCEPT ![r].stage = "stranded"] /\ UNCHANGED <<books, extSettled>>
  <2>1. BooksOK' /\ ViewsOK'
    BY <1>1, <1>10, Frames DEF ViewsOK
  <2>2. RequestsOK' /\ SentIsPaid' /\ DepositIsSettled'
    BY <1>1, <1>2, <1>4, <1>10, StageOK
  <2> QED
    BY <1>2, <2>1, <2>2, InvParts
<1> QED
  BY <1>8, <1>9, <1>10 DEF PaymentResult

-----------------------------------------------------------------------------
\* Swaps, withdrawals, the dealer's own invoices, and restarts.

\* A step that only replaces a waiting request by another one keeps the invariant.
LEMMA WaitingInv ==
  ASSUME Inv, NEW r \in RequestIds, NEW x \in RequestType, reqs' = [reqs EXCEPT ![r] = x],
         x.stage \in Waiting, x.uid \in Users, x.btc = 0, x.sent = 0,
         x.kind \in {"swap", "lnurl"}, x.cur = BTC => x.rate = UnitRate,
         x.stage # "dealer" => x.kind = "lnurl",
         x.cur = BTC /\ x.stage = "dealer" => x.kind = "swap",
         x.stage = "loopback" => x.inv \in IF x.own THEN InvoiceIds ELSE ExternalIds,
         UNCHANGED <<books, known, available, invoices, extSettled, lnd>>
  PROVE  Inv'
<1> BooksOK /\ RequestsOK /\ InvoicesOK /\ ViewsOK /\ SentIsPaid /\ DepositIsSettled
  BY InvParts
<1>1. BooksOK' /\ InvoicesOK' /\ InvoicesKept
  BY Frames
<1>2. ViewsOK' /\ UNCHANGED extPaid
  BY DEF ViewsOK, lnd
<1>3. RequestOK(x) /\ x.stage \notin Charged
  BY DEF RequestOK, Charged, Waiting
<1>4. x.kind # "deposit" /\ extPaid \subseteq extPaid'
  BY <1>2
<1>5. RequestsOK' /\ SentIsPaid' /\ DepositIsSettled'
  BY <1>1, <1>3, <1>4, SetRequest
<1> QED
  BY <1>1, <1>2, <1>5, InvParts

\* A swap request keeps the invariant.
LEMMA SwapRequestInv ==
  ASSUME Inv, NEW u \in Users, NEW from \in Currency, NEW to \in Currency,
         NEW amount \in Amounts, SwapRequest(u, from, to, amount)
  PROVE  Inv'
<1> DEFINE x == [NoRequest EXCEPT !.kind = "swap", !.stage = "dealer", !.uid = u,
                                  !.cur = from, !.to = to, !.amount = amount]
<1>1. amount \in Nat
  BY BankAssumption
<1>2. /\ x \in RequestType /\ x.kind = "swap" /\ x.stage = "dealer" /\ x.uid = u
      /\ x.rate = UnitRate /\ x.btc = 0 /\ x.sent = 0
  BY <1>1, EmptyOK DEF RequestType, Stages, Kinds
<1>3. PICK r \in RequestIds : reqs' = [reqs EXCEPT ![r] = x]
  BY DEF SwapRequest
<1>4. UNCHANGED <<books, known, available, invoices, extSettled, lnd>>
  BY DEF SwapRequest
<1> HIDE DEF x
<1> QED
  BY <1>2, <1>3, <1>4, WaitingInv DEF Waiting

\* Creating a withdrawal keeps the invariant.
LEMMA CreateLnurlWithdrawalInv ==
  ASSUME Inv, NEW u \in Users, NEW c \in Currency, NEW amount \in Amounts,
         CreateLnurlWithdrawal(u, c, amount)
  PROVE  Inv'
<1>1. amount \in Nat
  BY BankAssumption
<1>2. PICK stage \in {"lnurl", "dealer"} : stage = IF c = BTC THEN "lnurl" ELSE "dealer"
  OBVIOUS
<1> DEFINE x == [NoRequest EXCEPT !.kind = "lnurl", !.uid = u, !.cur = c,
                                  !.amount = amount, !.stage = stage]
<1>3. /\ x \in RequestType /\ x.kind = "lnurl" /\ x.stage = stage /\ x.uid = u
      /\ x.cur = c /\ x.rate = UnitRate /\ x.btc = 0 /\ x.sent = 0
  BY <1>1, EmptyOK DEF RequestType, Stages, Kinds
<1>4. PICK r \in RequestIds : reqs' = [reqs EXCEPT ![r] = x]
  BY <1>2 DEF CreateLnurlWithdrawal
<1>5. UNCHANGED <<books, known, available, invoices, extSettled, lnd>>
  BY DEF CreateLnurlWithdrawal
<1> HIDE DEF x
<1> QED
  BY <1>2, <1>3, <1>4, <1>5, WaitingInv DEF Waiting

\* The quote of a withdrawal keeps the invariant.
LEMMA LnurlQuotedInv ==
  ASSUME Inv, NEW r \in RequestIds, NEW rate \in Rates, LnurlQuoted(r, rate)
  PROVE  Inv'
<1> reqs[r] \in RequestType /\ RequestOK(reqs[r]) /\ rate \in RateType
  BY InvParts, BankAssumption DEF RequestsOK, RateType
<1> DEFINE x == [reqs[r] EXCEPT !.stage = "lnurl", !.rate = rate]
<1>1. /\ x \in RequestType /\ x.kind = "lnurl" /\ x.stage = "lnurl" /\ x.uid = reqs[r].uid
      /\ x.cur = reqs[r].cur /\ x.btc = reqs[r].btc /\ x.sent = reqs[r].sent
  BY DEF RequestType, Stages, LnurlQuoted
<1>2. reqs[r].uid \in Users /\ reqs[r].btc = 0 /\ reqs[r].sent = 0 /\ reqs[r].cur # BTC
  BY DEF RequestOK, Waiting, LnurlQuoted
<1>3. reqs' = [reqs EXCEPT ![r] = x]
  BY DEF LnurlQuoted
<1>4. UNCHANGED <<books, known, available, invoices, extSettled, lnd>>
  BY DEF LnurlQuoted
<1> HIDE DEF x
<1> QED
  BY <1>1, <1>2, <1>3, <1>4, WaitingInv DEF Waiting

\* Paying out a withdrawal keeps the invariant.
LEMMA PayLnurlWithdrawalInv ==
  ASSUME Inv, NEW r \in RequestIds, NEW own \in BOOLEAN,
         NEW inv \in IF own THEN InvoiceIds ELSE ExternalIds, PayLnurlWithdrawal(r, own, inv)
  PROVE  Inv'
<1> reqs[r] \in RequestType /\ RequestOK(reqs[r]) /\ inv \in Nat
  BY InvParts, BankAssumption, SMT DEF RequestsOK, InvoiceIds, ExternalIds
<1> DEFINE x == [reqs[r] EXCEPT !.stage = "loopback", !.own = own, !.inv = inv]
<1>1. /\ x \in RequestType /\ x.kind = reqs[r].kind /\ x.stage = "loopback"
      /\ x.uid = reqs[r].uid /\ x.own = own /\ x.inv = inv /\ x.rate = reqs[r].rate
      /\ x.cur = reqs[r].cur /\ x.btc = reqs[r].btc /\ x.sent = reqs[r].sent
  BY DEF RequestType, Stages
<1>2. /\ reqs[r].uid \in Users /\ reqs[r].btc = 0 /\ reqs[r].sent = 0
      /\ reqs[r].kind = "lnurl"
      /\ reqs[r].cur = BTC => reqs[r].rate = UnitRate
  BY DEF RequestOK, Waiting, PayLnurlWithdrawal
<1>3. reqs' = [reqs EXCEPT ![r] = x]
  BY DEF PayLnurlWithdrawal
<1>4. UNCHANGED <<books, known, available, invoices, extSettled, lnd>>
  BY DEF PayLnurlWithdrawal
<1> HIDE DEF x
<1> QED
  BY <1>1, <1>2, <1>3, <1>4, WaitingInv DEF Waiting

\* A swap at the dealer's rate keeps the invariant: the user has what they sell.
LEMMA SwapResponseInv ==
  ASSUME LedgerLaws, Inv, NEW r \in RequestIds, NEW rate \in Rates, SwapResponse(r, rate)
  PROVE  Inv'
<1> BooksOK /\ RequestsOK /\ InvoicesOK /\ ViewsOK /\ SentIsPaid /\ DepositIsSettled
  BY InvParts
<1>1. reqs[r] \in RequestType /\ RequestOK(reqs[r])
  BY DEF RequestsOK
<1>2. PICK u \in Users, c \in Currency, d \in Currency, v \in Nat :
        u = reqs[r].uid /\ c = reqs[r].cur /\ d = reqs[r].to /\ v = reqs[r].amount
  BY <1>1 DEF RequestOK, RequestType, Waiting, SwapResponse
<1>3. PICK bought \in Nat : bought = Exchange(v, rate)
  BY BankAssumption DEF LedgerLaws, ExchangeLaw
<1>5. /\ ledger[UserAccount(u, c)] >= v /\ v > 0 /\ bought > 0
      /\ Commit(Post(Post(ledger, UserAccount(u, c), DealerAccount(c), v),
                     DealerAccount(d), UserAccount(u, d), bought),
                {UserAccount(u, c), UserAccount(u, d), DealerAccount(c), DealerAccount(d)})
      /\ Close(r) /\ UNCHANGED <<known, available, invoices, extSettled, lnd>>
  BY <1>2, <1>3, ZenonT(30) DEF SwapResponse, Swappable, Counterparty, Postable
<1>6. BooksOK'
  <2>1. v \in Int /\ bought \in Int
    BY SMT
  <2>2. {UserAccount(u, c), UserAccount(u, d), DealerAccount(c), DealerAccount(d)}
          = {UserAccount(u, c), DealerAccount(c), DealerAccount(d), UserAccount(u, d)}
    BY ZenonT(30)
  <2> QED
    BY <1>5, <2>1, <2>2, Legs, TwoLegs, ZenonT(30)
<1>7. ViewsOK' /\ UNCHANGED extPaid
  BY <1>5 DEF ViewsOK, lnd
<1>8. InvoicesOK' /\ InvoicesKept
  BY <1>5, Frames
<1>9. RequestsOK' /\ SentIsPaid' /\ DepositIsSettled'
  BY <1>5, <1>7, <1>8, CloseOK
<1> QED
  BY <1>6, <1>7, <1>8, <1>9, InvParts

\* A payment for the dealer keeps the invariant, booked or not.
LEMMA DealerInvoiceInv ==
  ASSUME LedgerLaws, Inv, NEW amount \in Amounts, NEW fee \in DealerFees, NEW is_external \in BOOLEAN,
         process_dealer_invoice(amount, fee, is_external)
  PROVE  Inv'
<1> BooksOK /\ RequestsOK /\ InvoicesOK /\ ViewsOK /\ SentIsPaid /\ DepositIsSettled
  BY InvParts
<1>1. amount \in Nat /\ amount > 0 /\ fee \in Nat
  BY BankAssumption, SatFacts DEF process_dealer_invoice
<1>2. PICK to \in {BankLiability, DealerExternal} :
        to = IF is_external THEN BankLiability ELSE DealerExternal
  OBVIOUS
<1>3. Leg(DealerAccount(BTC), to)
  BY <1>2, Legs
<1>4. BooksOK'
  <2>1. CASE UNCHANGED books
    BY <2>1, Frames
  <2>2. CASE Commit(Post(ledger, DealerAccount(BTC), to, amount), {DealerAccount(BTC), to})
    <3>1. amount \in Int /\ amount > 0
      BY <1>1, SMT
    <3> QED
      BY <1>3, <2>2, <3>1, Legs, OneLeg
  <2> QED
    BY <1>2, <2>1, <2>2 DEF process_dealer_invoice
<1>5. ViewsOK' /\ UNCHANGED <<reqs, invoices, extPaid>>
  BY <1>1, SMT DEF process_dealer_invoice, ViewsOK
<1> QED
  BY <1>4, <1>5, Frames, InvParts

\* Issuing an invoice of the dealer keeps the invariant.
LEMMA CreateInvoiceInv ==
  ASSUME LedgerLaws, Inv, NEW amount \in Amounts, NEW ref \in {"KolliderSettlement", "ExternalDeposit"},
         process_create_invoice_request(amount, ref)
  PROVE  Inv'
<1> BooksOK /\ RequestsOK /\ InvoicesOK /\ ViewsOK /\ SentIsPaid /\ DepositIsSettled
  BY InvParts
<1>1. InSats(amount) \in Nat /\ BTC \in Currency
  BY BankAssumption, SatFacts DEF LedgerLaws, AccountLaw
<1>2. BooksOK' /\ ViewsOK' /\ UNCHANGED <<reqs, extPaid>>
  BY Frames DEF process_create_invoice_request, ViewsOK, lnd
<1>3. InvoicesOK' /\ InvoicesKept
  BY <1>1, NewInvoiceOK DEF process_create_invoice_request
<1> QED
  BY <1>2, <1>3, Frames, InvParts

\* The dealer's health and a query of the balances keep the invariant.
LEMMA QueriesInv ==
  /\ \A currencies \in SUBSET Currency : Inv /\ Health(currencies) => Inv'
  /\ \A u \in Users : Inv /\ GetBalances(u) => Inv'
<1>1. ASSUME NEW currencies \in SUBSET Currency, Inv, Health(currencies) PROVE Inv'
  <2>0. BooksOK /\ RequestsOK /\ InvoicesOK /\ ViewsOK /\ SentIsPaid /\ DepositIsSettled
    BY <1>1, InvParts
  <2>1. ViewsOK' /\ UNCHANGED <<books, reqs, invoices, extPaid>>
    BY <1>1, <2>0 DEF Health, ViewsOK, lnd
  <2> QED
    BY <2>0, <2>1, Frames, InvParts
<1>2. ASSUME NEW u \in Users, Inv, GetBalances(u) PROVE Inv'
  <2>0. BooksOK /\ RequestsOK /\ InvoicesOK /\ ViewsOK /\ SentIsPaid /\ DepositIsSettled
    BY <1>2, InvParts
  <2>1. ViewsOK' /\ UNCHANGED <<books, reqs, invoices, extPaid>>
    BY <1>2, <2>0 DEF GetBalances, ViewsOK, lnd
  <2> QED
    BY <2>0, <2>1, Frames, InvParts
<1> QED
  BY <1>1, <1>2

\* A restart turns a request into a well-formed one (Lost).
LEMMA LostOK ==
  ASSUME NEW q \in RequestType, RequestOK(q)
  PROVE  /\ Lost(q) \in RequestType /\ RequestOK(Lost(q))
         /\ Lost(q).btc - Lost(q).sent = q.btc - q.sent
         /\ Lost(q).stage \in Charged => Lost(q).inv = q.inv /\ Lost(q).sent = q.sent
                                          /\ q.stage \in Charged
         /\ Lost(q).kind = "deposit" =>
              q.kind = "deposit" /\ Lost(q).inv = q.inv /\ Lost(q).amount = q.amount
<1>1. CASE q.stage \in {"inflight", "paid", "failed"}
  <2>1. PICK stage \in {"orphan", "stranded"} : Lost(q) = [q EXCEPT !.stage = stage]
    BY <1>1 DEF Lost
  <2> DEFINE x == [q EXCEPT !.stage = stage]
  <2>2. x \in RequestType
    BY DEF RequestType, Stages
  <2>3. /\ x.sent = q.sent /\ x.stage = stage /\ x.inv = q.inv /\ x.btc = q.btc
        /\ x.charge = q.charge /\ x.rate = q.rate /\ x.cur = q.cur
        /\ x.kind = q.kind /\ x.amount = q.amount /\ x.uid = q.uid
    BY DEF RequestType
  <2>4. Lost(q) = x
    BY <2>1
  <2> HIDE DEF x
  <2>5. RequestOK(x) /\ q.stage \in Charged
    BY <1>1, <2>3 DEF RequestOK, Charged, Waiting
  <2> QED
    BY <2>2, <2>3, <2>4, <2>5
<1>2. CASE q.stage \in {"lnurl", "loopback"}
  <2>1. Lost(q) = Over(0)
    BY <1>2 DEF Lost
  <2>2. q.btc = 0 /\ q.sent = 0
    BY <1>2 DEF RequestOK, Waiting
  <2>3. 0 \in Int
    BY SMT
  <2>4. /\ Over(0) \in RequestType /\ RequestOK(Over(0)) /\ Over(0).stage = "done"
        /\ Over(0).kind = "none" /\ Over(0).btc = 0 /\ Over(0).sent = 0
    BY <2>3, OverOK
  <2> QED
    BY <2>1, <2>2, <2>4 DEF Charged
<1>3. CASE q.stage \notin {"inflight", "paid", "failed", "lnurl", "loopback"}
  BY <1>3 DEF Lost
<1> QED
  BY <1>1, <1>2, <1>3

\* A restart keeps the invariant: the accounts table passed the audit.
LEMMA RestartInv ==
  ASSUME LedgerLaws, Inv, Restart
  PROVE  Inv'
<1>0. BooksOK /\ RequestsOK /\ InvoicesOK /\ ViewsOK /\ SentIsPaid /\ DepositIsSettled
  BY InvParts
<1>1. BooksOK'
  BY <1>0 DEF BooksOK, Restart, StartUpAudit, Reconciled, StoredIsLedger, reconcile_ledger, NetBalance
<1>2. ViewsOK' /\ UNCHANGED extPaid
  BY <1>0 DEF ViewsOK, BooksOK, Restart, lnd, LedgerLaws, AccountLaw
<1>3. ASSUME NEW i \in InvoiceIds
      PROVE  /\ invoices'[i] \in InvoiceType /\ InvoiceOK(invoices'[i])
             /\ invoices'[i].state = invoices[i].state /\ invoices'[i].value = invoices[i].value
  <2> DEFINE x == [invoices[i] EXCEPT !.event = FALSE]
  <2>1. invoices[i] \in InvoiceType /\ InvoiceOK(invoices[i]) /\ invoices'[i] = x
    BY <1>0 DEF InvoicesOK, Restart
  <2>2. /\ x \in InvoiceType /\ x.state = invoices[i].state /\ x.owner = invoices[i].owner
        /\ x.value = invoices[i].value /\ x.received = invoices[i].received
        /\ x.credited = invoices[i].credited /\ ~x.event
    BY <2>1 DEF InvoiceType
  <2>3. invoices[i].state = "none" => x = invoices[i]
    BY <2>1, EmptyOK, ZenonT(30) DEF InvoiceOK, InvoiceType
  <2> HIDE DEF x
  <2> QED
    BY <2>1, <2>2, <2>3 DEF InvoiceOK
<1>4. InvoicesOK' /\ InvoicesKept
  <2>1. invoices' \in [InvoiceIds -> InvoiceType]
    BY <1>3 DEF Restart
  <2> QED
    BY <1>3, <2>1 DEF InvoicesOK, InvoicesKept
<1>5. \A r \in RequestIds : reqs'[r] = Lost(reqs[r]) /\ reqs[r] \in RequestType /\ RequestOK(reqs[r])
  BY <1>0 DEF Restart, RequestsOK
<1>6. RequestsOK'
  <2>1. \A r \in RequestIds : reqs'[r] \in RequestType /\ RequestOK(reqs'[r])
    BY <1>5, LostOK
  <2>2. reqs' \in [RequestIds -> RequestType]
    BY <1>5, LostOK DEF Restart
  <2> QED
    BY <2>1, <2>2 DEF RequestsOK
<1>7. SentIsPaid' /\ DepositIsSettled'
  <2>1. ASSUME NEW r \in RequestIds
        PROVE  /\ reqs'[r].stage \in Charged /\ reqs'[r].sent > 0 => reqs'[r].inv \in extPaid'
               /\ reqs'[r].kind = "deposit" =>
                    /\ reqs'[r].inv \in InvoiceIds
                    /\ invoices'[reqs'[r].inv].state = "settled"
                    /\ invoices'[reqs'[r].inv].value = reqs'[r].amount
    <3>1. /\ reqs'[r].stage \in Charged => reqs'[r].inv = reqs[r].inv /\ reqs'[r].sent = reqs[r].sent
                                          /\ reqs[r].stage \in Charged
          /\ reqs'[r].kind = "deposit" =>
              reqs[r].kind = "deposit" /\ reqs'[r].inv = reqs[r].inv /\ reqs'[r].amount = reqs[r].amount
      BY <1>5, LostOK
    <3> QED
      BY <1>0, <1>2, <1>3, <3>1 DEF SentIsPaid, DepositIsSettled
  <2> QED
    BY <2>1 DEF SentIsPaid, DepositIsSettled
<1> QED
  BY <1>1, <1>2, <1>4, <1>6, <1>7, InvParts

\* Every step of the bank keeps the invariant.
LEMMA NextInv ==
  ASSUME LedgerLaws, Inv, [Next]_vars
  PROVE  Inv'
<1>0. Rates \subseteq RateType
  BY BankAssumption DEF RateType
<1>1. CASE ApiRequest
  <2>1. ASSUME NEW u \in Users, NEW c \in Currency, NEW amount \in Amounts,
               \/ \E into \in Currency : InvoiceRequest(u, c, amount, into)
               \/ \E v \in Users : PaymentByName(u, v, c, amount)
               \/ \E to \in Currency : SwapRequest(u, c, to, amount)
               \/ CreateLnurlWithdrawal(u, c, amount)
        PROVE  Inv'
    BY <2>1, InvoiceRequestInv, PaymentByNameInv, SwapRequestInv, CreateLnurlWithdrawalInv
  <2>2. ASSUME NEW u \in Users, NEW c \in Currency,
               \/ \E i \in InvoiceIds : PaymentRequest(u, c, TRUE, i)
               \/ \E e \in ExternalIds : PaymentRequest(u, c, FALSE, e)
        PROVE  Inv'
    BY <2>2, PaymentRequestInv, ZenonT(30)
  <2>3. ASSUME NEW u \in Users, GetBalances(u) PROVE Inv'
    BY <2>3, QueriesInv
  <2> QED
    BY <1>1, <2>1, <2>2, <2>3 DEF ApiRequest
<1>2. CASE DealerMessage
  <2>1. ASSUME NEW r \in RequestIds, NEW rate \in Rates,
               \/ InvoiceResponse(r, rate) \/ FiatDepositResponse(r, rate)
               \/ SwapResponse(r, rate) \/ LnurlQuoted(r, rate) \/ PaymentResumes(r, rate)
        PROVE  Inv'
    BY <1>0, <2>1, InvoiceResponseInv, FiatDepositResponseInv, SwapResponseInv,
       LnurlQuotedInv, PaymentResumesInv
  <2>2. ASSUME NEW r \in RequestIds, DealerRefuses(r) PROVE Inv'
    BY <2>2, GiveUpInv DEF DealerRefuses
  <2>3. ASSUME NEW amount \in Amounts, NEW fee \in DealerFees, NEW is_external \in BOOLEAN,
               process_dealer_invoice(amount, fee, is_external)
        PROVE  Inv'
    BY <2>3, DealerInvoiceInv
  <2>4. ASSUME NEW amount \in Amounts, NEW ref \in {"KolliderSettlement", "ExternalDeposit"},
               process_create_invoice_request(amount, ref)
        PROVE  Inv'
    BY <2>4, CreateInvoiceInv
  <2>5. ASSUME NEW cs \in SUBSET Currency, Health(cs) PROVE Inv'
    BY <2>5, QueriesInv
  <2> QED
    BY <1>2, <2>1, <2>2, <2>3, <2>4, <2>5 DEF DealerMessage
<1>3. CASE LndStep
  BY <1>3, ExternalPaysInv, LndPaysInv, LndFailsInv DEF LndStep
<1>4. CASE EngineStep
  <2>1. \A r \in RequestIds : reqs[r].rate \in RateType
    BY InvParts DEF RequestsOK, RequestType
  <2>2. ASSUME NEW r \in RequestIds, PaymentRefused(r) PROVE Inv'
    BY <2>2, GiveUpInv DEF PaymentRefused
  <2> QED
    BY <1>4, <2>1, <2>2, DepositInv, DepositDroppedInv, PaymentResultInv, PaymentResumesInv, ZenonT(30)
    DEF EngineStep
<1>5. CASE WalletStep
  BY <1>5, PayLnurlWithdrawalInv DEF WalletStep
<1>6. CASE Restart
  BY <1>6, RestartInv
<1>7. CASE UNCHANGED vars
  <2>1. /\ BooksOK /\ RequestsOK /\ InvoicesOK /\ ViewsOK /\ SentIsPaid /\ DepositIsSettled
        /\ UNCHANGED <<books, reqs, invoices, extPaid>>
    BY <1>7, InvParts DEF vars, books
  <2>2. ViewsOK'
    BY <1>7, <2>1 DEF vars, ViewsOK
  <2> QED
    BY <2>1, <2>2, Frames, InvParts
<1> QED
  BY <1>1, <1>2, <1>3, <1>4, <1>5, <1>6, <1>7 DEF Next
-----------------------------------------------------------------------------
(***************************************************************************)
(* The node and the books.                                                 *)
(***************************************************************************)
\* The amount of a payment and its fee are debited in one sum (PaymentRequest).
LEMMA NatSum == \A x, y \in Nat : x + y \in Nat
BY SMT

\* Amounts are whole numbers.
LEMMA IntNat == \A x \in Nat : x \in Int
BY SMT

\* What the ledger says is outside the users' and the dealer's accounts.
Outside(l) == l[BankLiability] + l[DealerExternal]

\* No request took more from the node than from the books, up to two parts of a
\* satoshi, as long as every answer of LND arrives: only then is no payment
\* refunded that was made.
GapsBacked ==
  "reply" \notin Faults =>
    \A r \in RequestIds :
      /\ reqs[r].sent <= reqs[r].btc + 2 * (Sat - 1)
      /\ reqs[r].stage = "failed" => reqs[r].sent = 0

\* A receipt is credited once, and for no more than was received: while its
\* event or its request for a rate is on the way, nothing is credited yet, and
\* there is only one of the two.
CreditedOnce ==
  /\ \A i \in InvoiceIds :
       LET v == invoices[i] IN
       /\ v.state = "settled" => v.value <= v.received
       /\ v.credited = 0 \/ v.credited = v.value
       /\ v.event => v.credited = 0
  /\ \A r \in RequestIds : reqs[r].kind = "deposit" =>
       /\ invoices[reqs[r].inv].credited = 0 /\ ~invoices[reqs[r].inv].event
       /\ \A s \in RequestIds :
            reqs[s].kind = "deposit" /\ reqs[s].inv = reqs[r].inv => s = r

MoneyOK == BooksMatchNode /\ GapsBacked /\ CreditedOnce

-----------------------------------------------------------------------------
\* A request that is over, with the gap it left, is well formed (NoRequest, Over).
LEMMA OverRequest ==
  /\ NoRequest \in RequestType
  /\ NoRequest.btc = 0 /\ NoRequest.sent = 0 /\ NoRequest.own = FALSE
  /\ NoRequest.stage = "free" /\ NoRequest.kind = "none" /\ NoRequest.rate = UnitRate
  /\ \A gap \in Int :
       /\ Over(gap) \in RequestType
       /\ Over(gap).stage = "done" /\ Over(gap).kind = "none"
       /\ Over(gap).btc = gap /\ Over(gap).sent = 0
<1>1. NoRequest \in RequestType
  BY LedgerAssumption, SMT DEF NoRequest, RequestType, Kinds, Stages, RateType, UnitRate, Currency
<1>2. /\ NoRequest.btc = 0 /\ NoRequest.sent = 0 /\ NoRequest.own = FALSE
      /\ NoRequest.stage = "free" /\ NoRequest.kind = "none" /\ NoRequest.rate = UnitRate
  BY DEF NoRequest
<1>3. ASSUME NEW gap \in Int
      PROVE  /\ Over(gap) \in RequestType
             /\ Over(gap).stage = "done" /\ Over(gap).kind = "none"
             /\ Over(gap).btc = gap /\ Over(gap).sent = 0
  BY <1>1, <1>2 DEF Over, RequestType, Stages
<1> QED
  BY <1>1, <1>2, <1>3

\* The amounts of an invoice, before and after a step.
LEMMA InvoiceNumbers ==
  /\ InvoicesOK => \A i \in InvoiceIds :
       invoices[i].received \in Nat /\ invoices[i].credited \in Nat /\ invoices[i].value \in Nat
  /\ InvoicesOK' => \A i \in InvoiceIds :
       invoices'[i].received \in Nat /\ invoices'[i].credited \in Nat /\ invoices'[i].value \in Nat
<1>1. ASSUME NEW v \in InvoiceType
      PROVE  v.received \in Nat /\ v.credited \in Nat /\ v.value \in Nat
  BY DEF InvoiceType
<1>2. /\ InvoicesOK => \A i \in InvoiceIds : invoices[i] \in InvoiceType
      /\ InvoicesOK' => \A i \in InvoiceIds : invoices'[i] \in InvoiceType
  BY DEF InvoicesOK
<1> QED
  BY <1>1, <1>2

\* The differences that requests and invoices leave are whole numbers, and so
\* are their sums.
LEMMA GapTypes ==
  ASSUME LedgerLaws
  PROVE  /\ RequestsOK => RequestGap \in [1 .. NumRequests -> Int] /\ SumTo(RequestGap, NumRequests) \in Int
         /\ InvoicesOK => InvoiceGap \in [1 .. NumInvoices -> Int] /\ SumTo(InvoiceGap, NumInvoices) \in Int
<1>0. NumRequests \in Nat /\ NumInvoices \in Nat
  BY BankAssumption
<1>1. ASSUME RequestsOK PROVE RequestGap \in [1 .. NumRequests -> Int]
  <2>1. \A r \in RequestIds : reqs[r].btc \in Int /\ reqs[r].sent \in Int
    BY <1>1, SMT DEF RequestsOK, RequestType
  <2> QED
    BY <2>1, SMT DEF RequestGap, RequestIds
<1>2. ASSUME InvoicesOK PROVE InvoiceGap \in [1 .. NumInvoices -> Int]
  <2>1. \A i \in InvoiceIds : invoices[i].received \in Int /\ invoices[i].credited \in Int
    BY <1>2, InvoiceNumbers, SMT
  <2> QED
    BY <2>1, SMT DEF InvoiceGap, InvoiceIds
<1> QED
  BY <1>0, <1>1, <1>2 DEF LedgerLaws, SumLaw

\* The same in the next state.
LEMMA GapTypesNext ==
  /\ RequestsOK' => RequestGap' \in [1 .. NumRequests -> Int]
  /\ InvoicesOK' => InvoiceGap' \in [1 .. NumInvoices -> Int]
<1>1. ASSUME RequestsOK' PROVE RequestGap' \in [1 .. NumRequests -> Int]
  <2>1. \A r \in RequestIds : reqs'[r].btc \in Int /\ reqs'[r].sent \in Int
    BY <1>1, SMT DEF RequestsOK, RequestType
  <2> QED
    BY <2>1, SMT DEF RequestGap, RequestIds
<1>2. ASSUME InvoicesOK' PROVE InvoiceGap' \in [1 .. NumInvoices -> Int]
  <2>1. \A i \in InvoiceIds : invoices'[i].received \in Int /\ invoices'[i].credited \in Int
    BY <1>2, InvoiceNumbers, SMT
  <2> QED
    BY <2>1, SMT DEF InvoiceGap, InvoiceIds
<1> QED
  BY <1>1, <1>2

\* Steps that leave every request's part of the difference alone, start no
\* deposit and fail no payment; and those that leave every invoice's part.
CalmRequest(r) ==
  /\ reqs'[r].btc - reqs'[r].sent = reqs[r].btc - reqs[r].sent
  /\ reqs'[r].kind = "deposit" => reqs[r].kind = "deposit" /\ reqs'[r].inv = reqs[r].inv
  /\ reqs'[r].stage = "failed" => reqs'[r].sent = reqs[r].sent /\ reqs[r].stage \in {"failed", "inflight"}
CalmInvoice(i) ==
  /\ invoices'[i].received = invoices[i].received
  /\ invoices'[i].credited = invoices[i].credited
  /\ invoices'[i].event => invoices[i].event
  /\ invoices'[i].state = "settled" => invoices[i].state = "settled"
  /\ invoices'[i].value = invoices[i].value \/ invoices'[i].state = "open"

\* What one request takes from the books and the node changes the sum by as much.
LEMMA RequestSum ==
  ASSUME LedgerLaws, RequestsOK, RequestsOK', NEW r \in RequestIds,
         \A s \in RequestIds : s # r => CalmRequest(s)
  PROVE  SumTo(RequestGap', NumRequests)
           = SumTo(RequestGap, NumRequests)
               + (reqs'[r].btc - reqs'[r].sent) - (reqs[r].btc - reqs[r].sent)
<1>1. RequestGap \in [1 .. NumRequests -> Int] /\ RequestGap' \in [1 .. NumRequests -> Int]
  BY GapTypes, GapTypesNext
<1>2. \A s \in 1 .. NumRequests : s # r => RequestGap[s] = RequestGap'[s]
  BY DEF CalmRequest, RequestGap, RequestIds
<1>3. RequestGap[r] = reqs[r].btc - reqs[r].sent /\ RequestGap'[r] = reqs'[r].btc - reqs'[r].sent
  BY DEF RequestGap
<1>4. SumTo(RequestGap', NumRequests) = SumTo(RequestGap, NumRequests) + RequestGap'[r] - RequestGap[r]
  <2>1. NumRequests \in Nat /\ r \in 1 .. NumRequests
    BY BankAssumption DEF RequestIds
  <2>2. \A f, g \in [1 .. NumRequests -> Int] :
          (\A s \in 1 .. NumRequests : s # r => f[s] = g[s])
            => SumTo(g, NumRequests) = SumTo(f, NumRequests) + g[r] - f[r]
    BY <2>1 DEF LedgerLaws, SumLaw
  <2> QED
    BY <1>1, <1>2, <2>2
<1>5. /\ SumTo(RequestGap, NumRequests) \in Int
      /\ reqs'[r].btc \in Int /\ reqs'[r].sent \in Int /\ reqs[r].btc \in Int /\ reqs[r].sent \in Int
  BY GapTypes, SMTT(20) DEF RequestsOK, RequestType
<1> QED
  BY <1>3, <1>4, <1>5

\* The same for an invoice.
LEMMA InvoiceSum ==
  ASSUME LedgerLaws, InvoicesOK, InvoicesOK', NEW i \in InvoiceIds,
         \A j \in InvoiceIds : j # i => CalmInvoice(j)
  PROVE  SumTo(InvoiceGap', NumInvoices)
           = SumTo(InvoiceGap, NumInvoices)
               + (invoices'[i].received - invoices'[i].credited)
               - (invoices[i].received - invoices[i].credited)
<1>1. InvoiceGap \in [1 .. NumInvoices -> Int] /\ InvoiceGap' \in [1 .. NumInvoices -> Int]
  BY GapTypes, GapTypesNext
<1>2. \A j \in 1 .. NumInvoices : j # i => InvoiceGap[j] = InvoiceGap'[j]
  BY DEF CalmInvoice, InvoiceGap, InvoiceIds
<1>3. /\ InvoiceGap[i] = invoices[i].received - invoices[i].credited
      /\ InvoiceGap'[i] = invoices'[i].received - invoices'[i].credited
  BY DEF InvoiceGap
<1>4. SumTo(InvoiceGap', NumInvoices) = SumTo(InvoiceGap, NumInvoices) + InvoiceGap'[i] - InvoiceGap[i]
  <2>1. NumInvoices \in Nat /\ i \in 1 .. NumInvoices
    BY BankAssumption DEF InvoiceIds
  <2>2. \A f, g \in [1 .. NumInvoices -> Int] :
          (\A j \in 1 .. NumInvoices : j # i => f[j] = g[j])
            => SumTo(g, NumInvoices) = SumTo(f, NumInvoices) + g[i] - f[i]
    BY <2>1 DEF LedgerLaws, SumLaw
  <2> QED
    BY <1>1, <1>2, <2>2
<1>5. /\ SumTo(InvoiceGap, NumInvoices) \in Int
      /\ invoices'[i].received \in Int /\ invoices'[i].credited \in Int
      /\ invoices[i].received \in Int /\ invoices[i].credited \in Int
  BY GapTypes, InvoiceNumbers, SMT
<1> QED
  BY <1>3, <1>4, <1>5

\* Steps that change none of them leave the sums alone.
LEMMA CalmSums ==
  /\ RequestsOK /\ RequestsOK' /\ (\A r \in RequestIds : CalmRequest(r))
       => SumTo(RequestGap', NumRequests) = SumTo(RequestGap, NumRequests)
  /\ InvoicesOK /\ InvoicesOK' /\ (\A i \in InvoiceIds : CalmInvoice(i))
       => SumTo(InvoiceGap', NumInvoices) = SumTo(InvoiceGap, NumInvoices)
<1>1. ASSUME RequestsOK, RequestsOK', \A r \in RequestIds : CalmRequest(r)
      PROVE  SumTo(RequestGap', NumRequests) = SumTo(RequestGap, NumRequests)
  <2>1. RequestGap' = RequestGap
    BY <1>1 DEF RequestGap, CalmRequest
  <2> QED
    BY <2>1
<1>2. ASSUME InvoicesOK, InvoicesOK', \A i \in InvoiceIds : CalmInvoice(i)
      PROVE  SumTo(InvoiceGap', NumInvoices) = SumTo(InvoiceGap, NumInvoices)
  <2>1. InvoiceGap' = InvoiceGap
    BY <1>2 DEF InvoiceGap, CalmInvoice
  <2> QED
    BY <2>1
<1> QED
  BY <1>1, <1>2

-----------------------------------------------------------------------------
\* Requests that are calm, or whose new difference is in order, are in order.
LEMMA GapsStep ==
  ASSUME Inv, Inv', MoneyOK,
         \A r \in RequestIds :
           \/ CalmRequest(r)
           \/ "reply" \notin Faults => /\ reqs'[r].sent <= reqs'[r].btc + 2 * (Sat - 1)
                                       /\ reqs'[r].stage = "failed" => reqs'[r].sent = 0
  PROVE  GapsBacked'
<1>0. RequestsOK /\ RequestsOK'
  BY DEF Inv
<1>1. ASSUME "reply" \notin Faults, NEW r \in RequestIds, CalmRequest(r)
      PROVE  /\ reqs'[r].sent <= reqs'[r].btc + 2 * (Sat - 1)
             /\ reqs'[r].stage = "failed" => reqs'[r].sent = 0
  <2>1. /\ reqs[r].sent <= reqs[r].btc + 2 * (Sat - 1)
        /\ reqs[r].stage = "failed" => reqs[r].sent = 0
        /\ reqs[r].stage = "inflight" => reqs[r].sent = 0
        /\ reqs[r].btc \in Int /\ reqs[r].sent \in Int
        /\ reqs'[r].btc \in Int /\ reqs'[r].sent \in Int /\ Sat \in Nat
    BY <1>0, <1>1, SatFacts, SMT DEF RequestsOK, RequestType, RequestOK, MoneyOK, GapsBacked
  <2> QED
    BY <1>1, <2>1, SMT DEF CalmRequest
<1> QED
  BY <1>1 DEF GapsBacked

\* What CreditedOnce asks of an invoice, in the next state.
CreditOK(i) ==
  /\ invoices'[i].state = "settled" => invoices'[i].value <= invoices'[i].received
  /\ invoices'[i].credited = 0 \/ invoices'[i].credited = invoices'[i].value
  /\ invoices'[i].event => invoices'[i].credited = 0

\* Requests that start no deposit, and invoices that are calm or in order and
\* not waited for, keep receipts credited once.
LEMMA CreditsStep ==
  ASSUME Inv, Inv', MoneyOK,
         \A r \in RequestIds : CalmRequest(r) \/ reqs'[r].kind # "deposit",
         \A i \in InvoiceIds :
           \/ CalmInvoice(i)
           \/ CreditOK(i) /\ \A r \in RequestIds : reqs'[r].kind = "deposit" => reqs'[r].inv # i
  PROVE  CreditedOnce'
<1>0. InvoicesOK'
  BY DEF Inv
<1>1. ASSUME NEW i \in InvoiceIds, CalmInvoice(i) PROVE CreditOK(i)
  <2>1. /\ invoices[i].state = "settled" => invoices[i].value <= invoices[i].received
        /\ invoices[i].credited = 0 \/ invoices[i].credited = invoices[i].value
        /\ invoices[i].event => invoices[i].credited = 0
    BY DEF MoneyOK, CreditedOnce
  <2>2. invoices'[i].state = "open" => invoices'[i].credited = 0
    BY <1>0 DEF InvoicesOK, InvoiceOK
  <2> QED
    BY <1>1, <2>1, <2>2 DEF CalmInvoice, CreditOK
<1>2. ASSUME NEW r \in RequestIds, reqs'[r].kind = "deposit"
      PROVE  /\ invoices'[reqs'[r].inv].credited = 0 /\ ~invoices'[reqs'[r].inv].event
             /\ \A s \in RequestIds :
                  reqs'[s].kind = "deposit" /\ reqs'[s].inv = reqs'[r].inv => s = r
  <2>1. reqs[r].kind = "deposit" /\ reqs'[r].inv = reqs[r].inv /\ reqs[r].inv \in InvoiceIds
    BY <1>2 DEF Inv, CalmRequest, DepositIsSettled
  <2>2. CalmInvoice(reqs[r].inv)
    BY <1>2, <2>1
  <2>3. /\ invoices[reqs[r].inv].credited = 0 /\ ~invoices[reqs[r].inv].event
        /\ \A s \in RequestIds : reqs[s].kind = "deposit" /\ reqs[s].inv = reqs[r].inv => s = r
    BY <2>1 DEF MoneyOK, CreditedOnce
  <2>4. \A s \in RequestIds : reqs'[s].kind = "deposit" => reqs[s].kind = "deposit" /\ reqs'[s].inv = reqs[s].inv
    BY DEF CalmRequest
  <2> QED
    BY <2>1, <2>2, <2>3, <2>4 DEF CalmInvoice
<1> QED
  BY <1>1, <1>2 DEF CreditedOnce, CreditOK

\* The quantities that BooksMatchNode adds up are whole numbers.
LEMMA MoneyTypes ==
  ASSUME LedgerLaws, Inv, Inv'
  PROVE  /\ node \in Int /\ node' \in Int /\ dealerGap \in Int /\ dealerGap' \in Int
         /\ ledger[BankLiability] \in Int /\ ledger[DealerExternal] \in Int
         /\ ledger'[BankLiability] \in Int /\ ledger'[DealerExternal] \in Int
         /\ SumTo(RequestGap, NumRequests) \in Int /\ SumTo(InvoiceGap, NumInvoices) \in Int
         /\ \A r \in RequestIds : /\ reqs[r].btc \in Int /\ reqs[r].sent \in Int
                                  /\ reqs'[r].btc \in Int /\ reqs'[r].sent \in Int
<1> /\ BooksOK /\ ViewsOK /\ RequestsOK /\ InvoicesOK
    /\ BooksOK' /\ ViewsOK' /\ RequestsOK'
  BY DEF Inv
<1>1. node \in Int /\ node' \in Int /\ dealerGap \in Int /\ dealerGap' \in Int
  BY SMT DEF ViewsOK
<1>2. /\ ledger[BankLiability] \in Int /\ ledger[DealerExternal] \in Int
      /\ ledger'[BankLiability] \in Int /\ ledger'[DealerExternal] \in Int
  BY DEF BooksOK, LedgerLaws, AccountLaw
<1>3. \A r \in RequestIds : /\ reqs[r].btc \in Int /\ reqs[r].sent \in Int
                           /\ reqs'[r].btc \in Int /\ reqs'[r].sent \in Int
  BY SMT DEF RequestsOK, RequestType
<1> QED
  BY <1>1, <1>2, <1>3, GapTypes

\* A calm step keeps the invariant when the books and the node agree after it
\* as they did before.
LEMMA CalmStep ==
  ASSUME LedgerLaws, Inv, Inv', MoneyOK,
         \A r \in RequestIds : CalmRequest(r), \A i \in InvoiceIds : CalmInvoice(i),
         "save" \notin Faults =>
           node' + Outside(ledger') + dealerGap' = node + Outside(ledger) + dealerGap
  PROVE  MoneyOK'
<1>1. /\ SumTo(RequestGap', NumRequests) = SumTo(RequestGap, NumRequests)
      /\ SumTo(InvoiceGap', NumInvoices) = SumTo(InvoiceGap, NumInvoices)
  BY CalmSums DEF Inv
<1>2. BooksMatchNode'
  BY <1>1, MoneyTypes, SMT DEF BooksMatchNode, MoneyOK, Outside
<1> QED
  BY <1>2, GapsStep, CreditsStep DEF MoneyOK

\* A step that changes the difference of one request keeps the invariant when
\* the books and the node differ by as much more.
LEMMA RequestStep ==
  ASSUME LedgerLaws, Inv, Inv', MoneyOK, NEW r \in RequestIds,
         \A s \in RequestIds : s # r => CalmRequest(s), \A i \in InvoiceIds : CalmInvoice(i),
         reqs'[r].kind # "deposit",
         "reply" \notin Faults => /\ reqs'[r].sent <= reqs'[r].btc + 2 * (Sat - 1)
                                  /\ reqs'[r].stage = "failed" => reqs'[r].sent = 0,
         UNCHANGED <<node, dealerGap>>,
         Outside(ledger')
           = Outside(ledger) + (reqs'[r].btc - reqs'[r].sent) - (reqs[r].btc - reqs[r].sent)
  PROVE  MoneyOK'
<1>1. /\ SumTo(RequestGap', NumRequests)
           = SumTo(RequestGap, NumRequests)
               + (reqs'[r].btc - reqs'[r].sent) - (reqs[r].btc - reqs[r].sent)
      /\ SumTo(InvoiceGap', NumInvoices) = SumTo(InvoiceGap, NumInvoices)
  BY CalmSums, RequestSum DEF Inv
<1>2. BooksMatchNode'
  <2>1. PICK n \in Int, o \in Int, d \in Int, x \in Int, y \in Int :
          /\ n = node /\ o = Outside(ledger) /\ d = dealerGap
          /\ x = reqs'[r].btc - reqs'[r].sent /\ y = reqs[r].btc - reqs[r].sent
    <3>1. /\ node \in Int /\ Outside(ledger) \in Int /\ dealerGap \in Int
          /\ reqs'[r].btc - reqs'[r].sent \in Int /\ reqs[r].btc - reqs[r].sent \in Int
      BY MoneyTypes, SMT DEF Outside
    <3> QED
      BY <3>1
  <2>2. n + (o + x - y) + d = n + o + d + x - y
    BY SMT
  <2>3. node' + Outside(ledger') + dealerGap' = node + Outside(ledger) + dealerGap + x - y
    BY <2>1, <2>2
  <2> QED
    BY <1>1, <2>1, <2>3, MoneyTypes, SMT DEF BooksMatchNode, MoneyOK, Outside
<1>3. GapsBacked'
  BY GapsStep
<1>4. CreditedOnce'
  BY CreditsStep
<1> QED
  BY <1>2, <1>3, <1>4 DEF MoneyOK

\* The same for a step that changes the difference of one invoice.
LEMMA InvoiceStep ==
  ASSUME LedgerLaws, Inv, Inv', MoneyOK, NEW i \in InvoiceIds,
         \A r \in RequestIds : CalmRequest(r), \A j \in InvoiceIds : j # i => CalmInvoice(j),
         CreditOK(i), \A r \in RequestIds : reqs'[r].kind = "deposit" => reqs'[r].inv # i,
         "save" \notin Faults =>
           node' + Outside(ledger') + dealerGap'
             = node + Outside(ledger) + dealerGap
                 + (invoices'[i].received - invoices'[i].credited)
                 - (invoices[i].received - invoices[i].credited)
  PROVE  MoneyOK'
<1>0. /\ invoices'[i].received \in Int /\ invoices'[i].credited \in Int
      /\ invoices[i].received \in Int /\ invoices[i].credited \in Int
  BY InvoiceNumbers, SMT DEF Inv
<1>1. /\ SumTo(RequestGap', NumRequests) = SumTo(RequestGap, NumRequests)
      /\ SumTo(InvoiceGap', NumInvoices)
           = SumTo(InvoiceGap, NumInvoices)
               + (invoices'[i].received - invoices'[i].credited)
               - (invoices[i].received - invoices[i].credited)
  BY CalmSums, InvoiceSum DEF Inv
<1>2. BooksMatchNode'
  BY <1>0, <1>1, MoneyTypes, SMT DEF BooksMatchNode, MoneyOK, Outside
<1>3. GapsBacked'
  BY GapsStep
<1>4. CreditedOnce'
  BY CreditsStep
<1> QED
  BY <1>2, <1>3, <1>4 DEF MoneyOK

\* The accounts of the users and of the dealer's trades.
Internal(a) == a \in Accounts /\ a \notin {BankLiability, DealerExternal}

\* Which accounts those are.
LEMMA Internals ==
  ASSUME LedgerLaws
  PROVE  /\ BTC \in Currency /\ BankLiability \in Accounts /\ \A a : Internal(a) => a \in Accounts
         /\ \A c \in Currency : Internal(DealerAccount(c))
         /\ \A u \in Users, c \in Currency :
              /\ Internal(UserAccount(u, c))
              /\ \A d \in Currency : UserAccount(u, c) # DealerAccount(d)
              /\ \A v \in Users : u # v => UserAccount(u, c) # UserAccount(v, c)
BY SMT DEF Internal, LedgerLaws, AccountLaw

\* A posting changes two accounts.
LEMMA PostAt ==
  ASSUME NEW l \in [Accounts -> Int], NEW out \in Accounts, NEW in \in Accounts, out # in,
         NEW amount \in Int
  PROVE  /\ Post(l, out, in, amount)[out] = l[out] - amount
         /\ Post(l, out, in, amount)[in] = l[in] + amount
         /\ \A a \in Accounts \ {out, in} : Post(l, out, in, amount)[a] = l[a]
BY DEF Post

\* The accounts outside are two, and not among them.
LEMMA Outsiders ==
  ASSUME LedgerLaws
  PROVE  /\ BankLiability \in Accounts /\ DealerExternal \in Accounts /\ BankLiability # DealerExternal
         /\ \A a : Internal(a) => a \in Accounts /\ a # BankLiability /\ a # DealerExternal
BY DEF Internal, BankLiability, DealerExternal, BANK_UID, DEALER_UID, LedgerLaws, AccountLaw

\* A posting from the outside into one of them.
LEMMA PostIn ==
  ASSUME LedgerLaws, NEW l \in [Accounts -> Int], NEW a, Internal(a), NEW amount \in Int,
         NEW b \in {BankLiability, DealerExternal}
  PROVE  Outside(Post(l, b, a, amount)) = Outside(l) - amount
<1>1. a \in Accounts /\ b \in Accounts /\ a # b
  BY Outsiders
<1>2. PICK p : p = Post(l, b, a, amount)
  OBVIOUS
<1>3. p[b] = l[b] - amount /\ \A c \in Accounts \ {a, b} : p[c] = l[c]
  BY <1>1, <1>2 DEF Post
<1>4. l[BankLiability] \in Int /\ l[DealerExternal] \in Int
  BY Outsiders
<1>5. CASE b = BankLiability
  <2>1. p[BankLiability] = l[BankLiability] - amount /\ p[DealerExternal] = l[DealerExternal]
    BY <1>3, <1>5, Outsiders
  <2> QED
    BY <1>2, <1>4, <2>1, SMT DEF Outside
<1>6. CASE b = DealerExternal
  <2>1. p[BankLiability] = l[BankLiability] /\ p[DealerExternal] = l[DealerExternal] - amount
    BY <1>3, <1>6, Outsiders
  <2> QED
    BY <1>2, <1>4, <2>1, SMT DEF Outside
<1> QED
  BY <1>5, <1>6

\* A posting from one of them to the outside.
LEMMA PostOut ==
  ASSUME LedgerLaws, NEW l \in [Accounts -> Int], NEW a, Internal(a), NEW amount \in Int,
         NEW b \in {BankLiability, DealerExternal}
  PROVE  Outside(Post(l, a, b, amount)) = Outside(l) + amount
<1>1. a \in Accounts /\ b \in Accounts /\ a # b
  BY Outsiders
<1>2. PICK p : p = Post(l, a, b, amount)
  OBVIOUS
<1>3. p[b] = l[b] + amount /\ \A c \in Accounts \ {a, b} : p[c] = l[c]
  BY <1>1, <1>2 DEF Post
<1>4. l[BankLiability] \in Int /\ l[DealerExternal] \in Int
  BY Outsiders
<1>5. CASE b = BankLiability
  <2>1. p[BankLiability] = l[BankLiability] + amount /\ p[DealerExternal] = l[DealerExternal]
    BY <1>3, <1>5, Outsiders
  <2> QED
    BY <1>2, <1>4, <2>1, SMT DEF Outside
<1>6. CASE b = DealerExternal
  <2>1. p[BankLiability] = l[BankLiability] /\ p[DealerExternal] = l[DealerExternal] + amount
    BY <1>3, <1>6, Outsiders
  <2> QED
    BY <1>2, <1>4, <2>1, SMT DEF Outside
<1> QED
  BY <1>5, <1>6

\* A posting between two of them.
LEMMA PostWithin ==
  ASSUME LedgerLaws, NEW l \in [Accounts -> Int], NEW a, Internal(a), NEW b, Internal(b), a # b,
         NEW amount \in Int
  PROVE  Outside(Post(l, a, b, amount)) = Outside(l)
BY Outsiders, PostAt, SMT DEF Outside

\* A ledger stays one.
LEMMA PostType ==
  ASSUME NEW l \in [Accounts -> Int], NEW a \in Accounts, NEW b \in Accounts, NEW amount \in Int
  PROVE  Post(l, a, b, amount) \in [Accounts -> Int]
BY SMT DEF Post

\* Requests and invoices that are left alone are calm.
LEMMA CalmFrame ==
  /\ UNCHANGED reqs => \A r \in RequestIds : CalmRequest(r)
  /\ UNCHANGED invoices => \A i \in InvoiceIds : CalmInvoice(i)
BY DEF CalmRequest, CalmInvoice

\* Replacing a request by one with the same difference is calm.
LEMMA CalmSet ==
  ASSUME RequestsOK, NEW r \in RequestIds, NEW x, reqs' = [reqs EXCEPT ![r] = x],
         x.btc - x.sent = reqs[r].btc - reqs[r].sent,
         x.kind # "deposit", x.stage # "failed"
  PROVE  \A s \in RequestIds : CalmRequest(s)
<1>1. \A s \in RequestIds : reqs'[s] = IF s = r THEN x ELSE reqs[s]
  BY DEF RequestsOK
<1> QED
  BY <1>1 DEF CalmRequest

\* So is closing a request.
LEMMA CalmClose ==
  ASSUME RequestsOK, NEW r \in RequestIds, Close(r)
  PROVE  \A s \in RequestIds : CalmRequest(s)
<1> DEFINE gap == reqs[r].btc - reqs[r].sent
<1>1. gap \in Int
  BY SMT DEF RequestsOK, RequestType
<1>2. reqs' = [reqs EXCEPT ![r] = Over(gap)]
  BY DEF Close
<1> HIDE DEF gap
<1>3. Over(gap).stage = "done" /\ Over(gap).kind = "none" /\ Over(gap).btc = gap /\ Over(gap).sent = 0
  BY <1>1, OverRequest
<1>4. Over(gap).btc - Over(gap).sent = gap
  BY <1>1, <1>3, SMT
<1> QED
  BY <1>2, <1>3, <1>4, CalmSet DEF gap

\* And sending a request, new or known, to wait somewhere.
LEMMA CalmWait ==
  ASSUME RequestsOK, RequestsOK', NEW r \in RequestIds, NEW x, reqs' = [reqs EXCEPT ![r] = x],
         reqs[r].stage \in Waiting \cup {"free"}, x.stage \in Waiting, x.kind # "deposit"
  PROVE  \A s \in RequestIds : CalmRequest(s)
<1>1. reqs'[r] = x
  BY DEF RequestsOK
<1>2. x.btc = 0 /\ x.sent = 0 /\ reqs[r].btc = 0 /\ reqs[r].sent = 0
  BY <1>1 DEF RequestsOK, RequestOK
<1>3. x.stage # "failed"
  BY DEF Waiting
<1> QED
  BY <1>2, <1>3, CalmSet

\* Issuing an invoice is calm.
LEMMA CalmIssue ==
  ASSUME InvoicesOK, NEW i \in InvoiceIds, NEW owner, NEW value, NEW into, NEW reference,
         NewInvoice(i, owner, value, into, reference)
  PROVE  \A j \in InvoiceIds : CalmInvoice(j)
<1> DEFINE x == [NoInvoice EXCEPT !.state = "open", !.owner = owner, !.value = value,
                                  !.into = into, !.reference = reference]
<1>1. x.state = "open" /\ x.received = 0 /\ x.credited = 0 /\ x.event = FALSE
  BY DEF NoInvoice
<1>2. invoices[i].state = "none" /\ invoices' = [invoices EXCEPT ![i] = x]
  BY DEF NewInvoice, FreshInvoice
<1> HIDE DEF x
<1>3. \A j \in InvoiceIds : invoices'[j] = IF j = i THEN x ELSE invoices[j]
  BY <1>2 DEF InvoicesOK
<1>4. invoices[i].received = 0 /\ invoices[i].credited = 0
  BY <1>2 DEF InvoicesOK, InvoiceOK
<1> QED
  BY <1>1, <1>3, <1>4 DEF CalmInvoice

\* Taking an event from the queue is calm.
LEMMA CalmEvent ==
  ASSUME InvoicesOK, NEW i \in InvoiceIds, invoices' = EventTaken(i)
  PROVE  /\ \A j \in InvoiceIds : CalmInvoice(j)
         /\ invoices'[i].event = FALSE
<1> DEFINE x == [invoices[i] EXCEPT !.event = FALSE]
<1>0. invoices[i] \in InvoiceType
  BY DEF InvoicesOK
<1>1. /\ x.state = invoices[i].state /\ x.value = invoices[i].value
      /\ x.received = invoices[i].received /\ x.credited = invoices[i].credited /\ x.event = FALSE
  BY <1>0 DEF InvoiceType
<1>2. \A j \in InvoiceIds : invoices'[j] = IF j = i THEN x ELSE invoices[j]
  BY DEF InvoicesOK, EventTaken
<1> HIDE DEF x
<1> QED
  BY <1>1, <1>2 DEF CalmInvoice

-----------------------------------------------------------------------------
\* Nothing outside changes: a step that leaves the ledger and the node alone.
LEMMA Aside ==
  ASSUME LedgerLaws, Inv, Inv', MoneyOK, UNCHANGED <<ledger, node, dealerGap>>,
         \A r \in RequestIds : CalmRequest(r), \A i \in InvoiceIds : CalmInvoice(i)
  PROVE  MoneyOK'
BY CalmStep

\* A request for an invoice issues one at most.
LEMMA InvoiceRequestMoney ==
  ASSUME LedgerLaws, Inv, Inv', MoneyOK, NEW u \in Users, NEW cur \in Currency, NEW amount \in Amounts,
         NEW into \in Currency, InvoiceRequest(u, cur, amount, into)
  PROVE  MoneyOK'
<1> RequestsOK /\ InvoicesOK /\ RequestsOK' /\ UNCHANGED <<ledger, node, dealerGap>>
  BY DEF Inv, InvoiceRequest, books, lnd
<1>1. CASE UNCHANGED reqs /\ \E i \in InvoiceIds : NewInvoice(i, u, InSats(amount), into, "")
  BY <1>1, CalmFrame, CalmIssue, Aside
<1>2. CASE UNCHANGED <<invoices, reqs>>
  BY <1>2, CalmFrame, Aside
<1>3. CASE /\ UNCHANGED invoices
           /\ \E r \in RequestIds :
                /\ FreshRequest(r)
                /\ reqs' = [reqs EXCEPT ![r] =
                     [NoRequest EXCEPT !.kind = "invoice", !.stage = "dealer",
                                       !.uid = u, !.cur = cur, !.amount = amount]]
  <2>1. PICK r \in RequestIds :
                /\ FreshRequest(r)
                /\ reqs' = [reqs EXCEPT ![r] =
                     [NoRequest EXCEPT !.kind = "invoice", !.stage = "dealer",
                                       !.uid = u, !.cur = cur, !.amount = amount]]
    BY <1>3
  <2> DEFINE x == [NoRequest EXCEPT !.kind = "invoice", !.stage = "dealer",
                                       !.uid = u, !.cur = cur, !.amount = amount]
  <2>2. x.stage = "dealer" /\ x.kind = "invoice"
    BY DEF NoRequest
  <2>3. reqs' = [reqs EXCEPT ![r] = x] /\ reqs[r].stage = "free"
    BY <2>1 DEF FreshRequest
  <2> HIDE DEF x
  <2>4. \A s \in RequestIds : CalmRequest(s)
    BY <2>2, <2>3, CalmWait DEF Waiting
  <2> QED
    BY <1>3, <2>4, CalmFrame, Aside
<1> QED
  BY <1>1, <1>2, <1>3 DEF InvoiceRequest

\* An answer of the dealer issues the invoice, and closes the request.
LEMMA InvoiceResponseMoney ==
  ASSUME LedgerLaws, Inv, Inv', MoneyOK, NEW r \in RequestIds, NEW rate, InvoiceResponse(r, rate)
  PROVE  MoneyOK'
<1> RequestsOK /\ InvoicesOK /\ UNCHANGED <<ledger, node, dealerGap>> /\ Close(r)
  BY DEF Inv, InvoiceResponse, books, lnd
<1>1. \A i \in InvoiceIds : CalmInvoice(i)
  BY CalmFrame, CalmIssue DEF InvoiceResponse
<1> QED
  BY <1>1, CalmClose, Aside

\* ExternalPays: the node receives what the invoice received.
LEMMA ExternalPaysMoney ==
  ASSUME LedgerLaws, Inv, Inv', MoneyOK, NEW i \in InvoiceIds, NEW amount \in Amounts, ExternalPays(i, amount)
  PROVE  MoneyOK'
<1> InvoicesOK /\ invoices[i].state = "open" /\ amount \in Nat /\ amount >= invoices[i].value
  BY BankAssumption DEF Inv, ExternalPays
<1>1. invoices[i] \in InvoiceType /\ invoices[i].received = 0 /\ invoices[i].credited = 0
  BY DEF InvoicesOK, InvoiceOK
<1>2. PICK reported \in BOOLEAN :
        invoices' = [invoices EXCEPT ![i].state = "settled", ![i].received = amount,
                                     ![i].event = reported]
  BY DEF ExternalPays, Attempt
<1> DEFINE x == [invoices[i] EXCEPT !.state = "settled", !.received = amount, !.event = reported]
<1>3. /\ x.state = "settled" /\ x.received = amount /\ x.credited = invoices[i].credited
      /\ x.value = invoices[i].value
  BY <1>1 DEF InvoiceType
<1>4. \A j \in InvoiceIds : invoices'[j] = IF j = i THEN x ELSE invoices[j]
  BY <1>2 DEF InvoicesOK
<1> HIDE DEF x
<1>5. CreditOK(i) /\ \A j \in InvoiceIds : j # i => CalmInvoice(j)
  BY <1>1, <1>3, <1>4 DEF CreditOK, CalmInvoice
<1>6. \A r \in RequestIds : CalmRequest(r) /\ (reqs'[r].kind = "deposit" => reqs'[r].inv # i)
  BY CalmFrame DEF Inv, ExternalPays, DepositIsSettled
<1>7. node' = node + amount /\ UNCHANGED <<ledger, dealerGap>>
  BY DEF ExternalPays, books
<1>8. node' + Outside(ledger') + dealerGap'
        = node + Outside(ledger) + dealerGap
            + (invoices'[i].received - invoices'[i].credited)
            - (invoices[i].received - invoices[i].credited)
  <2>1. /\ invoices'[i].received = amount /\ invoices'[i].credited = 0
        /\ invoices[i].received = 0 /\ invoices[i].credited = 0
    BY <1>1, <1>3, <1>4
  <2>2. node \in Int /\ Outside(ledger) \in Int /\ dealerGap \in Int
    BY MoneyTypes, SMT DEF Outside
  <2> QED
    BY <1>7, <2>1, <2>2, SMT
<1> QED
  BY <1>5, <1>6, <1>8, InvoiceStep

\* Crediting an invoice of which nothing was credited yet.
LEMMA CreditedMoney ==
  ASSUME LedgerLaws, Inv, Inv', MoneyOK, NEW i \in InvoiceIds, NEW marked \in BOOLEAN, Credited(i, marked),
         invoices[i].state = "settled", invoices[i].credited = 0,
         \A r \in RequestIds : CalmRequest(r),
         \A r \in RequestIds : reqs'[r].kind = "deposit" => reqs'[r].inv # i,
         Outside(ledger') = Outside(ledger) - invoices[i].value,
         UNCHANGED <<node, dealerGap>>
  PROVE  MoneyOK'
<1> InvoicesOK /\ invoices[i] \in InvoiceType /\ invoices[i].value \in Nat /\ invoices[i].received \in Nat
  BY InvoiceNumbers DEF Inv, InvoicesOK
<1>1. PICK n \in Nat : n = invoices[i].credited + invoices[i].value
  BY SMT
<1>2. PICK m \in BOOLEAN : m = (invoices[i].settled \/ marked)
  BY DEF InvoiceType
<1> DEFINE x == [invoices[i] EXCEPT !.event = FALSE, !.credited = n, !.settled = m]
<1>3. /\ x.state = invoices[i].state /\ x.value = invoices[i].value
      /\ x.received = invoices[i].received /\ x.credited = n /\ x.event = FALSE
  BY DEF InvoiceType
<1>4. invoices' = [invoices EXCEPT ![i] = x]
  BY <1>1, <1>2 DEF Credited
<1>5. \A j \in InvoiceIds : invoices'[j] = IF j = i THEN x ELSE invoices[j]
  BY <1>4 DEF InvoicesOK
<1> HIDE DEF x
<1>6. n = invoices[i].value
  BY <1>1, SMT
<1>7. CreditOK(i) /\ \A j \in InvoiceIds : j # i => CalmInvoice(j)
  BY <1>3, <1>5, <1>6 DEF CreditOK, CalmInvoice, MoneyOK, CreditedOnce
<1>8. node' + Outside(ledger') + dealerGap'
        = node + Outside(ledger) + dealerGap
            + (invoices'[i].received - invoices'[i].credited)
            - (invoices[i].received - invoices[i].credited)
  <2>1. PICK v \in Int, w \in Int : v = invoices[i].value /\ w = invoices[i].received
    BY IntNat
  <2>2. /\ invoices'[i].received = w /\ invoices'[i].credited = v
        /\ invoices[i].received = w /\ invoices[i].credited = 0 /\ Outside(ledger') = Outside(ledger) - v
    BY <1>3, <1>5, <1>6, <2>1
  <2>3. node \in Int /\ Outside(ledger) \in Int /\ dealerGap \in Int
    BY MoneyTypes, SMT DEF Outside
  <2> QED
    BY <2>2, <2>3, SMT
<1> QED
  BY <1>7, <1>8, InvoiceStep

\* While the event of an invoice waits, no request for a rate does.
LEMMA EventAlone ==
  ASSUME Inv, MoneyOK, NEW i \in InvoiceIds, invoices[i].event
  PROVE  /\ invoices[i].credited = 0 /\ invoices[i].state = "settled"
         /\ \A r \in RequestIds : reqs[r].kind = "deposit" => reqs[r].inv # i
BY DEF Inv, MoneyOK, CreditedOnce, InvoicesOK, InvoiceOK

\* A deposit in Bitcoin books what it credits.
LEMMA DepositBtcMoney ==
  ASSUME LedgerLaws, Inv, Inv', MoneyOK, NEW i \in InvoiceIds, invoices[i].event,
         invoices[i].owner # DEALER_UID, DepositBtc(i), UNCHANGED <<node, dealerGap>>
  PROVE  MoneyOK'
<1> DEFINE u == invoices[i].owner
<1> DEFINE v == invoices[i].value
<1> InvoicesOK /\ BooksOK /\ invoices[i] \in InvoiceType /\ v \in Nat /\ u \in Users
  <2>1. InvoicesOK /\ BooksOK /\ invoices[i] \in InvoiceType /\ v \in Nat /\ InvoiceOK(invoices[i])
    BY InvoiceNumbers DEF Inv, InvoicesOK
  <2>2. invoices[i].state = "settled"
    BY EventAlone
  <2> QED
    BY <2>1, <2>2 DEF InvoiceOK
<1>1. \A r \in RequestIds : CalmRequest(r)
  BY CalmFrame DEF DepositBtc
<1>2. CASE invoices' = EventTaken(i) /\ UNCHANGED books
  BY <1>1, <1>2, CalmEvent, Aside DEF books
<1>3. CASE /\ Commit(Post(ledger, BankLiability, UserAccount(u, BTC), v),
                     {BankLiability, UserAccount(u, BTC)})
           /\ \E marked \in Attempt({"summary", "save"}) : Credited(i, marked)
  <2>1. PICK marked \in BOOLEAN : Credited(i, marked)
    BY <1>3 DEF Attempt
  <2>2. ledger' = Post(ledger, BankLiability, UserAccount(u, BTC), v)
    BY <1>3 DEF Commit
  <2>3. ledger \in [Accounts -> Int] /\ v \in Int
    BY SMT DEF BooksOK
  <2>4. Outside(ledger') = Outside(ledger) - v
    BY <2>2, <2>3, PostIn, Internals
  <2>5. \A r \in RequestIds : reqs'[r].kind = "deposit" => reqs'[r].inv # i
    BY EventAlone DEF DepositBtc
  <2> QED
    BY <1>1, <2>1, <2>4, <2>5, EventAlone, CreditedMoney
<1> QED
  BY <1>2, <1>3 DEF DepositBtc, DepositAmount

\* A deposit of the dealer's own does too, or changes no account.
LEMMA DealerDepositMoney ==
  ASSUME LedgerLaws, Inv, Inv', MoneyOK, NEW i \in InvoiceIds, invoices[i].event,
         handle_dealer_deposit(i), UNCHANGED <<node, dealerGap>>
  PROVE  MoneyOK'
<1> DEFINE v == invoices[i].value
<1> InvoicesOK /\ BooksOK /\ v \in Nat
  BY InvoiceNumbers DEF Inv
<1>1. \A r \in RequestIds : CalmRequest(r)
  BY CalmFrame DEF handle_dealer_deposit
<1>2. PICK from \in {DealerExternal, BankLiability} :
        \/ Commit(Post(ledger, from, DealerAccount(BTC), v), {from, DealerAccount(BTC)})
             /\ Credited(i, FALSE)
        \/ Commit(ledger, {from, DealerAccount(BTC)}) /\ invoices' = EventTaken(i)
  BY DEF handle_dealer_deposit
<1>3. CASE Commit(ledger, {from, DealerAccount(BTC)}) /\ invoices' = EventTaken(i)
  <2>1. UNCHANGED ledger
    BY <1>3 DEF Commit
  <2> QED
    BY <1>1, <1>3, <2>1, CalmEvent, Aside
<1>4. CASE Commit(Post(ledger, from, DealerAccount(BTC), v), {from, DealerAccount(BTC)})
             /\ Credited(i, FALSE)
  <2>1. ledger' = Post(ledger, from, DealerAccount(BTC), v)
    BY <1>4 DEF Commit
  <2>2. ledger \in [Accounts -> Int] /\ v \in Int
    BY SMT DEF BooksOK
  <2>3. Outside(ledger') = Outside(ledger) - v
    BY <2>1, <2>2, PostIn, Internals
  <2>4. \A r \in RequestIds : reqs'[r].kind = "deposit" => reqs'[r].inv # i
    BY EventAlone DEF handle_dealer_deposit
  <2> QED
    BY <1>1, <1>4, <2>3, <2>4, EventAlone, CreditedMoney
<1> QED
  BY <1>2, <1>3, <1>4

\* A deposit into a fiat account turns the event into a request for a rate.
LEMMA DepositFiatMoney ==
  ASSUME LedgerLaws, Inv, Inv', MoneyOK, NEW i \in InvoiceIds, invoices[i].event,
         DepositFiat(i), UNCHANGED <<node, dealerGap>>
  PROVE  MoneyOK'
<1> RequestsOK /\ RequestsOK' /\ InvoicesOK /\ invoices' = EventTaken(i) /\ UNCHANGED ledger
  BY DEF Inv, DepositFiat, books
<1>1. PICK r \in RequestIds :
       /\ FreshRequest(r)
       /\ reqs' = [reqs EXCEPT ![r] =
            [NoRequest EXCEPT !.kind = "deposit", !.stage = "dealer",
                              !.uid = invoices[i].owner, !.cur = invoices[i].into,
                              !.amount = invoices[i].value, !.inv = i]]
  BY DEF DepositFiat
<1> DEFINE x == [NoRequest EXCEPT !.kind = "deposit", !.stage = "dealer",
                              !.uid = invoices[i].owner, !.cur = invoices[i].into,
                              !.amount = invoices[i].value, !.inv = i]
<1>2. x.kind = "deposit" /\ x.stage = "dealer" /\ x.inv = i /\ x.btc = 0 /\ x.sent = 0
  BY DEF NoRequest
<1>3. reqs[r].stage = "free" /\ reqs' = [reqs EXCEPT ![r] = x]
  BY <1>1 DEF FreshRequest
<1> HIDE DEF x
<1>4. \A s \in RequestIds : reqs'[s] = IF s = r THEN x ELSE reqs[s]
  BY <1>3 DEF RequestsOK
<1>5. reqs[r].btc = 0 /\ reqs[r].sent = 0
  BY <1>3 DEF RequestsOK, RequestOK
<1>6. \A s \in RequestIds : s # r => CalmRequest(s)
  BY <1>4 DEF CalmRequest
<1>7. (\A j \in InvoiceIds : CalmInvoice(j)) /\ invoices'[i].event = FALSE
  BY CalmEvent
<1>8. BooksMatchNode'
  <2>1. SumTo(RequestGap', NumRequests)
           = SumTo(RequestGap, NumRequests)
               + (reqs'[r].btc - reqs'[r].sent) - (reqs[r].btc - reqs[r].sent)
    BY <1>6, RequestSum
  <2>2. SumTo(RequestGap', NumRequests) = SumTo(RequestGap, NumRequests)
    BY <1>2, <1>4, <1>5, <2>1, MoneyTypes, SMT
  <2>3. SumTo(InvoiceGap', NumInvoices) = SumTo(InvoiceGap, NumInvoices)
    BY <1>7, CalmSums DEF Inv
  <2> QED
    BY <2>2, <2>3 DEF BooksMatchNode, MoneyOK
<1>9. GapsBacked'
  <2>1. 0 <= 0 + 2 * (Sat - 1)
    BY SatFacts, SMT
  <2>2. reqs'[r].sent <= reqs'[r].btc + 2 * (Sat - 1) /\ reqs'[r].stage # "failed"
    BY <1>2, <1>4, <2>1
  <2> QED
    BY <1>6, <2>2, GapsStep
<1>10. CreditedOnce'
  <2>1. \A j \in InvoiceIds : CreditOK(j)
    <3>1. ASSUME NEW j \in InvoiceIds PROVE CreditOK(j)
      <4>1. CalmInvoice(j)
        BY <1>7
      <4>2. /\ invoices[j].state = "settled" => invoices[j].value <= invoices[j].received
            /\ invoices[j].credited = 0 \/ invoices[j].credited = invoices[j].value
            /\ invoices[j].event => invoices[j].credited = 0
        BY DEF MoneyOK, CreditedOnce
      <4>3. invoices'[j].state = "open" => invoices'[j].credited = 0
        BY DEF Inv, InvoicesOK, InvoiceOK
      <4> QED
        BY <4>1, <4>2, <4>3 DEF CalmInvoice, CreditOK
    <3> QED
      BY <3>1
  <2>2. ASSUME NEW s \in RequestIds, reqs'[s].kind = "deposit"
        PROVE  /\ invoices'[reqs'[s].inv].credited = 0 /\ ~invoices'[reqs'[s].inv].event
               /\ \A t \in RequestIds :
                    reqs'[t].kind = "deposit" /\ reqs'[t].inv = reqs'[s].inv => t = s
    <3>1. /\ invoices[i].credited = 0
          /\ \A t \in RequestIds : reqs[t].kind = "deposit" => reqs[t].inv # i
      BY EventAlone
    <3>2. CASE s = r
      <4>1. CalmInvoice(i) /\ reqs'[s].inv = i
        BY <1>2, <1>4, <1>7, <3>2
      <4> QED
        BY <1>4, <1>7, <3>1, <3>2, <4>1, SMT DEF CalmInvoice
    <3>3. CASE s # r
      <4>1. reqs[s].kind = "deposit" /\ reqs'[s].inv = reqs[s].inv /\ reqs[s].inv # i
        BY <1>4, <2>2, <3>1, <3>3
      <4>2. reqs[s].inv \in InvoiceIds
        BY <4>1 DEF Inv, DepositIsSettled
      <4>3. CalmInvoice(reqs[s].inv)
        BY <1>7, <4>2
      <4>4. /\ invoices[reqs[s].inv].credited = 0 /\ ~invoices[reqs[s].inv].event
            /\ \A t \in RequestIds : reqs[t].kind = "deposit" /\ reqs[t].inv = reqs[s].inv => t = s
        BY <4>1 DEF MoneyOK, CreditedOnce
      <4> QED
        BY <1>2, <1>4, <4>1, <4>3, <4>4 DEF CalmInvoice
    <3> QED
      BY <3>2, <3>3
  <2> QED
    BY <2>1, <2>2 DEF CreditedOnce, CreditOK
<1> QED
  BY <1>8, <1>9, <1>10 DEF MoneyOK

\* A settlement read from the queue, or lost for want of a connection.
LEMMA DepositMoney ==
  ASSUME LedgerLaws, Inv, Inv', MoneyOK, NEW i \in InvoiceIds, Deposit(i) \/ DepositDropped(i)
  PROVE  MoneyOK'
<1>0. invoices[i].event /\ UNCHANGED <<node, dealerGap>>
  BY DEF Deposit, DepositDropped, lnd
<1>1. CASE DepositDropped(i)
  BY <1>1, CalmFrame, CalmEvent, Aside DEF Inv, DepositDropped, books, lnd
<1>2. CASE Deposit(i)
  BY <1>0, <1>2, DepositBtcMoney, DealerDepositMoney, DepositFiatMoney DEF Deposit
<1> QED
  BY <1>1, <1>2

\* BTC from outside to the dealer, fiat from the dealer to a user.
LEMMA BuyFiatOutside ==
  ASSUME LedgerLaws, BooksOK, NEW u \in Users, NEW c \in Currency, NEW btc \in Int, NEW fiat \in Int
  PROVE  Outside(BuyFiat(ledger, u, c, btc, fiat)) = Outside(ledger) - btc
<1>1. ledger \in [Accounts -> Int]
  BY DEF BooksOK
<1>2. PICK p \in [Accounts -> Int] : p = Post(ledger, BankLiability, DealerAccount(BTC), btc)
  BY <1>1, PostType, Internals
<1>3. Outside(p) = Outside(ledger) - btc
  BY <1>1, <1>2, PostIn, Internals
<1>4. Outside(Post(p, DealerAccount(c), UserAccount(u, c), fiat)) = Outside(p)
  BY <1>3, PostWithin, Internals
<1> QED
  BY <1>2, <1>3, <1>4 DEF BuyFiat

\* A deposit into a fiat account books what it credits.
LEMMA FiatDepositMoney ==
  ASSUME LedgerLaws, Inv, Inv', MoneyOK, NEW r \in RequestIds, NEW rate \in RateType,
         FiatDepositResponse(r, rate)
  PROVE  MoneyOK'
<1> DEFINE q == reqs[r]
<1> DEFINE i == reqs[r].inv
<1> /\ RequestsOK /\ InvoicesOK /\ BooksOK /\ q \in RequestType /\ RequestOK(q)
    /\ q.kind = "deposit" /\ q.stage = "dealer" /\ Close(r) /\ UNCHANGED <<node, dealerGap>>
  BY DEF Inv, FiatDepositResponse, RequestsOK, lnd
<1>1. i \in InvoiceIds /\ invoices[i].state = "settled" /\ invoices[i].value = q.amount
  BY DEF Inv, DepositIsSettled
<1>2. \A s \in RequestIds : CalmRequest(s)
  BY CalmClose
<1>3. CASE UNCHANGED <<books, invoices>>
  BY <1>2, <1>3, CalmFrame, Aside DEF books
<1>4. CASE /\ Commit(BuyFiat(ledger, q.uid, q.cur, q.amount, Exchange(q.amount, rate)),
                     FiatAccounts(q.uid, q.cur))
           /\ \E marked \in Attempt({"summary", "save"}) : Credited(i, marked)
  <2>1. PICK marked \in BOOLEAN : Credited(i, marked)
    BY <1>4 DEF Attempt
  <2>2. q.uid \in Users /\ q.cur \in Currency /\ q.amount \in Int
    BY SMT DEF RequestType, RequestOK, Waiting
  <2>3. Exchange(q.amount, rate) \in Int
    BY <2>2 DEF RateType, LedgerLaws, ExchangeLaw
  <2>4. ledger' = BuyFiat(ledger, q.uid, q.cur, q.amount, Exchange(q.amount, rate))
    BY <1>4 DEF Commit
  <2>5. Outside(ledger') = Outside(ledger) - invoices[i].value
    BY <1>1, <2>2, <2>3, <2>4, BuyFiatOutside, SMT
  <2>6. invoices[i].credited = 0
    BY DEF MoneyOK, CreditedOnce
  <2>7. \A s \in RequestIds : reqs'[s].kind = "deposit" => reqs'[s].inv # i
    <3>1. reqs'[r].kind # "deposit"
      <4>1. reqs'[r] = Over(reqs[r].btc - reqs[r].sent) /\ reqs[r].btc - reqs[r].sent \in Int
        BY SMT DEF Close, RequestsOK, RequestType
      <4> QED
        BY <4>1, OverRequest
    <3>2. \A s \in RequestIds : reqs'[s].kind = "deposit" => reqs[s].kind = "deposit" /\ reqs'[s].inv = reqs[s].inv
      BY <1>2 DEF CalmRequest
    <3>3. \A s \in RequestIds : reqs[s].kind = "deposit" /\ reqs[s].inv = i => s = r
      BY DEF MoneyOK, CreditedOnce
    <3> QED
      BY <3>1, <3>2, <3>3
  <2> HIDE DEF i
  <2> QED
    BY <1>1, <1>2, <2>1, <2>5, <2>6, <2>7, CreditedMoney
<1> QED
  BY <1>3, <1>4 DEF FiatDepositResponse

-----------------------------------------------------------------------------
\* A request that is given up, by the dealer or by the engine.
LEMMA GiveUpMoney ==
  ASSUME LedgerLaws, Inv, Inv', MoneyOK, NEW r \in RequestIds, DealerRefuses(r) \/ PaymentRefused(r)
  PROVE  MoneyOK'
<1>1. RequestsOK /\ Close(r) /\ UNCHANGED <<ledger, invoices, node, dealerGap>>
  BY DEF Inv, DealerRefuses, PaymentRefused, books, lnd
<1> QED
  BY <1>1, CalmClose, CalmFrame, Aside

\* A transfer between users moves nothing in or out.
LEMMA InternalTxOutside ==
  ASSUME LedgerLaws, BooksOK, NEW u \in Users, NEW v \in Users, NEW c \in Currency, NEW amount \in Int, NEW ok,
         make_internal_tx(u, v, c, amount, ok)
  PROVE  Outside(ledger') = Outside(ledger)
<1>1. CASE ~InternalTxBooks(u, v, c, amount, ok)
  BY <1>1 DEF make_internal_tx, books
<1>2. CASE InternalTxBooks(u, v, c, amount, ok)
  <2>1. ledger' = Post(ledger, UserAccount(u, c), UserAccount(v, c), amount) /\ u # v
    BY <1>2 DEF make_internal_tx, InternalTxBooks, Commit
  <2>2. ledger \in [Accounts -> Int]
    BY DEF BooksOK
  <2> QED
    BY <2>1, <2>2, PostWithin, Internals
<1> QED
  BY <1>1, <1>2

\* The invoice of another user, paid inside the bank.
LEMMA PayOwnOutside ==
  ASSUME LedgerLaws, Inv, NEW u \in Users, NEW c \in Currency, NEW i \in InvoiceIds,
         NEW rate \in RateType, PayOwn(u, c, i, rate)
  PROVE  Outside(ledger') = Outside(ledger) /\ \A j \in InvoiceIds : CalmInvoice(j)
<1> BooksOK /\ InvoicesOK
  BY DEF Inv
<1>1. invoices[i] \in InvoiceType
  BY DEF InvoicesOK
<1>2. PICK v \in Users : v = invoices[i].owner
  BY DEF PayOwn
<1>3. invoices[i].value \in Nat
  BY <1>1 DEF InvoiceType
<1>4. PICK amount \in Int : amount = Exchange(invoices[i].value, rate)
  BY <1>3, SMT DEF RateType, LedgerLaws, ExchangeLaw
<1>5. PICK ok \in Attempt({"row", "summary"}), written \in Attempt({"save"}) :
        /\ make_internal_tx(u, invoices[i].owner, c, Exchange(invoices[i].value, rate), ok)
        /\ invoices' = [invoices EXCEPT ![i].settled =
               @ \/ (written /\ InternalTxBooks(u, invoices[i].owner, c,
                                                Exchange(invoices[i].value, rate), ok))]
  BY ZenonT(30) DEF PayOwn
<1>6. Outside(ledger') = Outside(ledger)
  BY <1>2, <1>4, <1>5, InternalTxOutside
<1>7. PICK m \in BOOLEAN : invoices' = [invoices EXCEPT ![i].settled = m]
  BY <1>1, <1>5 DEF InvoiceType
<1> DEFINE x == [invoices[i] EXCEPT !.settled = m]
<1>8. /\ x.state = invoices[i].state /\ x.value = invoices[i].value
      /\ x.received = invoices[i].received /\ x.credited = invoices[i].credited
      /\ x.event = invoices[i].event
  BY <1>1 DEF InvoiceType
<1>9. \A j \in InvoiceIds : invoices'[j] = IF j = i THEN x ELSE invoices[j]
  BY <1>7 DEF InvoicesOK
<1> HIDE DEF x
<1> QED
  BY <1>6, <1>8, <1>9 DEF CalmInvoice

\* A transfer by user name.
LEMMA PaymentByNameMoney ==
  ASSUME LedgerLaws, Inv, Inv', MoneyOK, NEW u \in Users, NEW v \in Users, NEW c \in Currency,
         NEW amount \in Amounts, PaymentByName(u, v, c, amount)
  PROVE  MoneyOK'
<1>1. BooksOK /\ amount \in Int /\ UNCHANGED <<invoices, reqs, node, dealerGap>>
  BY BankAssumption, SMT DEF Inv, PaymentByName, lnd
<1>2. Outside(ledger') = Outside(ledger)
  BY <1>1, InternalTxOutside DEF PaymentByName
<1>3. (\A r \in RequestIds : CalmRequest(r)) /\ (\A i \in InvoiceIds : CalmInvoice(i))
  BY <1>1, CalmFrame
<1> QED
  BY <1>1, <1>2, <1>3, CalmStep

\* A debit in Bitcoin takes the total from the payer, one in fiat from the dealer.
LEMMA DebitOutside ==
  ASSUME LedgerLaws, BooksOK, NEW u \in Users, NEW c \in Currency, NEW total \in Int, NEW charge \in Int,
         c = BTC => charge = total, Debit(u, c, total, charge)
  PROVE  Outside(ledger') = Outside(ledger) + total
<1>1. ledger \in [Accounts -> Int]
  BY DEF BooksOK
<1>2. CASE c = BTC
  <2>1. ledger' = Post(ledger, UserAccount(u, c), BankLiability, total)
    BY <1>2 DEF Debit, Commit
  <2> QED
    BY <1>1, <2>1, PostOut, Internals
<1>3. CASE c # BTC
  <2>1. PICK p \in [Accounts -> Int] : p = Post(ledger, UserAccount(u, c), DealerAccount(c), charge)
    BY <1>1, PostType, Internals
  <2>2. Outside(p) = Outside(ledger)
    BY <1>1, <2>1, PostWithin, Internals
  <2>3. ledger' = Post(p, DealerAccount(BTC), BankLiability, total)
    BY <1>3, <2>1 DEF Debit, Commit
  <2> QED
    BY <2>2, <2>3, PostOut, Internals, SMT
<1> QED
  BY <1>2, <1>3

\* A debited payment is missing from the books until it is paid or refunded.
LEMMA PayExternalMoney ==
  ASSUME LedgerLaws, Inv, Inv', MoneyOK, NEW r \in RequestIds, NEW u \in Users, NEW c \in Currency,
         NEW e \in ExternalIds, NEW rate \in RateType, c = BTC => rate = UnitRate,
         reqs[r].stage \in Waiting \cup {"free"},
         PayExternal(r, u, c, e, rate), UNCHANGED <<node, dealerGap>>
  PROVE  MoneyOK'
<1> BooksOK /\ RequestsOK
  BY DEF Inv
<1>1. PICK fee \in FeeLimits :
        /\ Debit(u, c, AmountInSats(e) + fee, Exchange(AmountInSats(e) + fee, rate))
        /\ \E summary \in Attempt({"summary"}) :
             reqs' = [reqs EXCEPT ![r] =
               [NoRequest EXCEPT !.kind = "payment",
                 !.stage = IF summary THEN "inflight" ELSE "stranded",
                 !.uid = u, !.cur = c, !.inv = e, !.rate = rate,
                 !.btc = AmountInSats(e) + fee,
                 !.charge = Exchange(AmountInSats(e) + fee, rate)]]
        /\ UNCHANGED <<known, invoices>>
  BY DEF PayExternal
<1>2. AmountInSats(e) \in Nat /\ fee \in Nat
  BY SatFacts
<1>3. PICK total \in Nat : total = AmountInSats(e) + fee
  BY <1>2, NatSum
<1>4. PICK charge \in Int : charge = Exchange(total, rate)
  BY SMT DEF RateType, LedgerLaws, ExchangeLaw
<1>5. c = BTC => charge = total
  BY <1>4, SMT DEF LedgerLaws, ExchangeLaw
<1>6. Outside(ledger') = Outside(ledger) + total
  BY <1>1, <1>3, <1>4, <1>5, DebitOutside, SMT
<1>7. PICK stage \in {"inflight", "stranded"} :
        reqs' = [reqs EXCEPT ![r] =
          [NoRequest EXCEPT !.kind = "payment", !.stage = stage, !.uid = u, !.cur = c,
             !.inv = e, !.rate = rate, !.btc = total, !.charge = charge]]
  BY <1>1, <1>3, <1>4
<1> DEFINE x == [NoRequest EXCEPT !.kind = "payment", !.stage = stage, !.uid = u, !.cur = c,
                   !.inv = e, !.rate = rate, !.btc = total, !.charge = charge]
<1>8. x.kind = "payment" /\ x.stage = stage /\ x.btc = total /\ x.sent = 0
  <2>1. NoRequest \in RequestType /\ NoRequest.sent = 0
    BY OverRequest
  <2> QED
    BY <2>1 DEF RequestType
<1>9. reqs' = [reqs EXCEPT ![r] = x]
  BY <1>7
<1> HIDE DEF x
<1>10. \A s \in RequestIds : reqs'[s] = IF s = r THEN x ELSE reqs[s]
  BY <1>9 DEF RequestsOK
<1>11. reqs[r].btc = 0 /\ reqs[r].sent = 0
  BY DEF RequestsOK, RequestOK
<1>12. \A s \in RequestIds : s # r => CalmRequest(s)
  BY <1>10 DEF CalmRequest
<1>13. \A i \in InvoiceIds : CalmInvoice(i)
  BY <1>1, CalmFrame
<1>14. Outside(ledger')
         = Outside(ledger) + (reqs'[r].btc - reqs'[r].sent) - (reqs[r].btc - reqs[r].sent)
  <2>1. reqs'[r].btc = total /\ reqs'[r].sent = 0
    BY <1>8, <1>10
  <2>2. PICK o \in Int : o = Outside(ledger)
    BY MoneyTypes, SMT DEF Outside
  <2>3. o + total = o + (total - 0) - (0 - 0)
    BY SMTT(20)
  <2> QED
    BY <1>6, <1>11, <2>1, <2>2, <2>3
<1>15. /\ reqs'[r].kind # "deposit" /\ reqs'[r].sent <= reqs'[r].btc + 2 * (Sat - 1)
       /\ reqs'[r].stage # "failed"
  BY <1>8, <1>10, SatFacts, SMT
<1> QED
  BY <1>12, <1>13, <1>14, <1>15, RequestStep

\* A payment request from the API.
LEMMA PaymentRequestMoney ==
  ASSUME LedgerLaws, Inv, Inv', MoneyOK, NEW u \in Users, NEW c \in Currency, NEW own \in BOOLEAN,
         NEW inv \in IF own THEN InvoiceIds ELSE ExternalIds, PaymentRequest(u, c, own, inv)
  PROVE  MoneyOK'
<1> RequestsOK /\ RequestsOK' /\ UNCHANGED <<node, dealerGap>> /\ UnitRate \in RateType
  BY SMT DEF Inv, PaymentRequest, lnd, UnitRate, RateType
<1>1. CASE \E r \in RequestIds : PaymentNeedsRate(r, u, c, own, inv)
  <2>1. PICK r \in RequestIds : PaymentNeedsRate(r, u, c, own, inv)
    BY <1>1
  <2> DEFINE x == [NoRequest EXCEPT !.kind = "payment", !.stage = "dealer", !.uid = u,
                                    !.cur = c, !.own = own, !.inv = inv]
  <2>2. x.stage = "dealer" /\ x.kind = "payment"
    BY DEF NoRequest
  <2>3. reqs' = [reqs EXCEPT ![r] = x] /\ reqs[r].stage = "free" /\ UNCHANGED <<ledger, invoices>>
    BY <2>1 DEF PaymentNeedsRate, FreshRequest, books
  <2> HIDE DEF x
  <2>4. \A s \in RequestIds : CalmRequest(s)
    BY <2>2, <2>3, CalmWait DEF Waiting
  <2> QED
    BY <2>3, <2>4, CalmFrame, Aside
<1>2. CASE own /\ PayOwn(u, BTC, inv, UnitRate) /\ UNCHANGED reqs
  <2>1. Outside(ledger') = Outside(ledger) /\ \A j \in InvoiceIds : CalmInvoice(j)
    BY <1>2, PayOwnOutside DEF LedgerLaws, AccountLaw
  <2> QED
    BY <1>2, <2>1, CalmFrame, CalmStep
<1>3. CASE ~own /\ \E r \in RequestIds : FreshRequest(r) /\ PayExternal(r, u, BTC, inv, UnitRate)
  <2>1. PICK r \in RequestIds : reqs[r].stage = "free" /\ PayExternal(r, u, BTC, inv, UnitRate)
    BY <1>3 DEF FreshRequest
  <2>2. inv \in ExternalIds /\ BTC \in Currency
    BY <1>3 DEF LedgerLaws, AccountLaw
  <2> QED
    BY <2>1, <2>2, PayExternalMoney
<1> QED
  BY <1>1, <1>2, <1>3 DEF PaymentRequest

\* The same handler for a request that comes back.
LEMMA PaymentResumesMoney ==
  ASSUME LedgerLaws, Inv, Inv', MoneyOK, NEW r \in RequestIds, NEW rate \in RateType, PaymentResumes(r, rate)
  PROVE  MoneyOK'
<1> RequestsOK /\ UNCHANGED <<node, dealerGap>>
  BY DEF Inv, PaymentResumes, lnd
<1>2. reqs[r] \in RequestType /\ RequestOK(reqs[r])
  BY DEF RequestsOK
<1>3. reqs[r].uid \in Users /\ reqs[r].cur \in Currency /\ reqs[r].own \in BOOLEAN
  BY <1>2 DEF RequestOK, RequestType, Waiting, PaymentResumes
<1>4. reqs[r].inv \in IF reqs[r].own THEN InvoiceIds ELSE ExternalIds
  BY <1>2, ZenonT(30) DEF RequestOK, Waiting, PaymentResumes
<1>5. (reqs[r].cur = BTC => rate = UnitRate) /\ reqs[r].stage \in Waiting
  BY <1>2 DEF RequestOK, Waiting, PaymentResumes
<1>6. CASE reqs[r].own /\ PayOwn(reqs[r].uid, reqs[r].cur, reqs[r].inv, rate) /\ Close(r)
  <2>1. Outside(ledger') = Outside(ledger) /\ \A j \in InvoiceIds : CalmInvoice(j)
    BY <1>3, <1>4, <1>6, PayOwnOutside
  <2> QED
    BY <1>6, <2>1, CalmClose, CalmStep
<1>7. CASE ~reqs[r].own /\ PayExternal(r, reqs[r].uid, reqs[r].cur, reqs[r].inv, rate)
  BY <1>3, <1>4, <1>5, <1>7, PayExternalMoney
<1> QED
  BY <1>6, <1>7 DEF PaymentResumes

\* What leaves the node and counts as sent keeps the two matched.
LEMMA SentFromNode ==
  ASSUME LedgerLaws, Inv, Inv', BooksMatchNode, "save" \notin Faults, NEW x \in Int, node' = node - x,
         UNCHANGED <<ledger, dealerGap>>,
         SumTo(RequestGap', NumRequests) = SumTo(RequestGap, NumRequests) - x,
         SumTo(InvoiceGap', NumInvoices) = SumTo(InvoiceGap, NumInvoices)
  PROVE  BooksMatchNode'
<1>1. PICK n \in Int, a \in Int, b \in Int, d \in Int, g \in Int, h \in Int :
        /\ n = node /\ a = ledger[BankLiability] /\ b = ledger[DealerExternal] /\ d = dealerGap
        /\ g = SumTo(RequestGap, NumRequests) /\ h = SumTo(InvoiceGap, NumInvoices)
  BY MoneyTypes
<1>2. SUFFICES ASSUME n + a + b + d = g + h PROVE (n - x) + a + b + d = (g - x) + h
  BY <1>1 DEF BooksMatchNode
<1> QED
  BY <1>2, SMT

\* LND paying takes from the node what it counts as sent.
LEMMA LndPaysMoney ==
  ASSUME LedgerLaws, Inv, Inv', MoneyOK, NEW r \in RequestIds, LndPays(r)
  PROVE  MoneyOK'
<1> RequestsOK /\ RequestsOK' /\ UNCHANGED <<ledger, invoices, dealerGap>>
  BY DEF Inv, LndPays, books
<1>1. /\ reqs[r] \in RequestType /\ RequestOK(reqs[r]) /\ reqs[r].stage \in {"inflight", "orphan"}
      /\ reqs[r].sent = 0
  BY DEF RequestsOK, LndPays
<1>2. /\ reqs[r].inv \in ExternalIds /\ reqs[r].btc \in Int
      /\ reqs[r].btc > AmountInSats(reqs[r].inv)
  BY <1>1 DEF RequestOK, RequestType, Charged
<1>3. /\ ExternalValue[reqs[r].inv] \in Nat /\ AmountInSats(reqs[r].inv) \in Nat
      /\ ExternalValue[reqs[r].inv] < AmountInSats(reqs[r].inv) + Sat /\ Sat \in Nat /\ Sat > 0
  BY <1>2, SatFacts
<1>4. PICK fee \in 0 .. (reqs[r].btc - AmountInSats(reqs[r].inv)), answered \in Attempt({"reply"}) :
        /\ node' = node - (ExternalValue[reqs[r].inv] + fee)
        /\ reqs' = [reqs EXCEPT ![r].sent = ExternalValue[reqs[r].inv] + fee,
               ![r].stage = IF reqs[r].stage = "orphan" THEN "orphan"
                            ELSE IF answered THEN "paid" ELSE "failed"]
  BY DEF LndPays
<1>5. PICK sent \in Nat : /\ sent = ExternalValue[reqs[r].inv] + fee
                          /\ sent <= reqs[r].btc + 2 * (Sat - 1)
  BY <1>2, <1>3, SMT
<1>6. PICK stage \in {"orphan", "paid", "failed"} :
        stage = IF reqs[r].stage = "orphan" THEN "orphan" ELSE IF answered THEN "paid" ELSE "failed"
  OBVIOUS
<1> DEFINE x == [reqs[r] EXCEPT !.sent = sent, !.stage = stage]
<1>7. x.sent = sent /\ x.stage = stage /\ x.btc = reqs[r].btc /\ x.kind = reqs[r].kind /\ x.inv = reqs[r].inv
  BY <1>1 DEF RequestType
<1>8. reqs' = [reqs EXCEPT ![r] = x]
  BY <1>4, <1>5, <1>6
<1> HIDE DEF x
<1>9. \A s \in RequestIds : reqs'[s] = IF s = r THEN x ELSE reqs[s]
  BY <1>8 DEF RequestsOK
<1>10. "reply" \notin Faults => stage # "failed"
  BY <1>6 DEF Attempt
<1>11. (\A s \in RequestIds : s # r => CalmRequest(s)) /\ \A i \in InvoiceIds : CalmInvoice(i)
  BY <1>9, CalmFrame DEF CalmRequest
<1>12. SumTo(RequestGap', NumRequests) = SumTo(RequestGap, NumRequests) - sent
  <2>1. SumTo(RequestGap', NumRequests)
          = SumTo(RequestGap, NumRequests)
              + (reqs'[r].btc - reqs'[r].sent) - (reqs[r].btc - reqs[r].sent)
    BY <1>11, RequestSum
  <2>2. reqs'[r].btc = reqs[r].btc /\ reqs'[r].sent = sent /\ reqs[r].sent = 0
    BY <1>1, <1>7, <1>9
  <2>3. PICK g \in Int, b \in Int : g = SumTo(RequestGap, NumRequests) /\ b = reqs[r].btc
    BY <1>2, MoneyTypes
  <2>4. SumTo(RequestGap', NumRequests) = g + (b - sent) - (b - 0)
    BY <2>1, <2>2, <2>3
  <2>5. g + (b - sent) - (b - 0) = g - sent
    BY SMT
  <2> QED
    BY <2>3, <2>4, <2>5
<1>13. BooksMatchNode'
  <2>1. SumTo(InvoiceGap', NumInvoices) = SumTo(InvoiceGap, NumInvoices)
    BY <1>11, CalmSums DEF Inv
  <2>2. node' = node - sent /\ sent \in Int
    <3>1. \A n \in Nat : n \in Int
      BY SMT
    <3> QED
      BY <1>4, <1>5, <3>1
  <2> QED
    BY <1>12, <2>1, <2>2, SentFromNode DEF BooksMatchNode, MoneyOK
<1>14. GapsBacked'
  BY <1>5, <1>7, <1>9, <1>10, <1>11, GapsStep
<1>15. CreditedOnce'
  <2>1. ASSUME NEW s \in RequestIds, reqs'[s].kind = "deposit"
        PROVE  reqs[s].kind = "deposit" /\ reqs'[s].inv = reqs[s].inv
    BY <1>7, <1>9, <2>1
  <2> QED
    BY <1>7, <1>9, <2>1, SMT DEF MoneyOK, CreditedOnce
<1> QED
  BY <1>13, <1>14, <1>15 DEF MoneyOK

\* Moving a request to another stage is calm, unless it fails what was sent.
LEMMA CalmStage ==
  ASSUME RequestsOK, NEW r \in RequestIds, NEW stage, reqs' = [reqs EXCEPT ![r].stage = stage],
         stage # "failed" \/ reqs[r].stage = "inflight"
  PROVE  \A s \in RequestIds : CalmRequest(s)
<1> DEFINE x == [reqs[r] EXCEPT !.stage = stage]
<1>1. /\ x.sent = reqs[r].sent /\ x.stage = stage /\ x.btc = reqs[r].btc
      /\ x.kind = reqs[r].kind /\ x.inv = reqs[r].inv
  BY DEF RequestsOK, RequestType
<1>2. \A s \in RequestIds : reqs'[s] = IF s = r THEN x ELSE reqs[s]
  BY DEF RequestsOK
<1> HIDE DEF x
<1> QED
  BY <1>1, <1>2 DEF CalmRequest

\* A payment that LND does not make.
LEMMA LndFailsMoney ==
  ASSUME LedgerLaws, Inv, Inv', MoneyOK, NEW r \in RequestIds, LndFails(r)
  PROVE  MoneyOK'
<1>1. /\ RequestsOK /\ UNCHANGED <<ledger, invoices, node, dealerGap>>
      /\ reqs[r].stage = "inflight" /\ reqs' = [reqs EXCEPT ![r].stage = "failed"]
  BY DEF Inv, LndFails, books, lnd
<1> QED
  BY <1>1, CalmStage, CalmFrame, Aside

\* A request that ends with another difference than it had.
LEMMA EndMoney ==
  ASSUME LedgerLaws, Inv, Inv', MoneyOK, NEW r \in RequestIds, NEW gap \in Int,
         reqs' = [reqs EXCEPT ![r] = Over(gap)], UNCHANGED <<invoices, node, dealerGap>>,
         "reply" \notin Faults => gap + 2 * (Sat - 1) >= 0,
         Outside(ledger') = Outside(ledger) + gap - (reqs[r].btc - reqs[r].sent)
  PROVE  MoneyOK'
<1>1. /\ Over(gap).stage = "done" /\ Over(gap).kind = "none" /\ Over(gap).btc = gap
      /\ Over(gap).sent = 0
  BY OverRequest
<1>2. \A s \in RequestIds : reqs'[s] = IF s = r THEN Over(gap) ELSE reqs[s]
  BY DEF Inv, RequestsOK
<1>3. (\A s \in RequestIds : s # r => CalmRequest(s)) /\ \A i \in InvoiceIds : CalmInvoice(i)
  BY <1>2, CalmFrame DEF CalmRequest
<1>4. Outside(ledger')
        = Outside(ledger) + (reqs'[r].btc - reqs'[r].sent) - (reqs[r].btc - reqs[r].sent)
  <2>1. reqs'[r].btc = gap /\ reqs'[r].sent = 0 /\ gap = gap - 0
    BY <1>1, <1>2, SMT
  <2> QED
    BY <2>1
<1>5. "reply" \notin Faults => reqs'[r].sent <= reqs'[r].btc + 2 * (Sat - 1)
  BY <1>1, <1>2, SatFacts, SMT
<1> QED
  BY <1>1, <1>2, <1>3, <1>4, <1>5, RequestStep

\* The result of a payment: the excess fee goes to the dealer, or the debit
\* goes back, whatever was sent.
LEMMA PaymentResultMoney ==
  ASSUME LedgerLaws, Inv, Inv', MoneyOK, NEW r \in RequestIds, PaymentResult(r)
  PROVE  MoneyOK'
<1> BooksOK /\ RequestsOK /\ UNCHANGED <<invoices, node, dealerGap>>
  BY DEF Inv, PaymentResult, lnd
<1>1. /\ reqs[r] \in RequestType /\ RequestOK(reqs[r])
      /\ reqs[r].btc \in Int /\ reqs[r].sent \in Nat /\ Outside(ledger) \in Int
  BY MoneyTypes, SMT DEF RequestsOK, RequestType, Outside
<1>2. ledger \in [Accounts -> Int]
  BY DEF BooksOK
<1>3. CASE PaymentSucceeded(r)
  <2>0. /\ PaidInSats(reqs[r]) \in Nat /\ PaidInSats(reqs[r]) <= reqs[r].btc
        /\ PaidInSats(reqs[r]) + 2 * (Sat - 1) >= reqs[r].sent
    BY <1>3, PaidFacts DEF PaymentSucceeded
  <2>1. PICK excess \in Nat : excess = reqs[r].btc - PaidInSats(reqs[r])
    <3>1. \A x \in Int, y \in Nat : y <= x => x - y \in Nat
      BY SMT
    <3> QED
      BY <1>1, <2>0, <3>1
  <2>2. Outside(ledger') = Outside(ledger) - excess
    <3>1. CASE excess > 0
      <4>1. ledger' = Post(ledger, BankLiability, DealerAccount(BTC), excess)
        BY <1>3, <2>1, <3>1 DEF PaymentSucceeded, ExcessFees, Commit
      <4> QED
        BY <1>2, <2>1, <4>1, PostIn, Internals, SMT
    <3>2. CASE ~(excess > 0)
      <4>1. UNCHANGED ledger /\ excess = 0
        BY <1>3, <2>1, <3>2, SMTT(20) DEF PaymentSucceeded, ExcessFees, books
      <4> QED
        BY <1>1, <4>1, SMTT(20)
    <3> QED
      BY <3>1, <3>2
  <2>3. PICK gap \in Int : gap = PaidInSats(reqs[r]) - reqs[r].sent /\ gap + 2 * (Sat - 1) >= 0
    BY <1>1, <2>0, SatFacts, SMTT(20)
  <2>4. Outside(ledger') = Outside(ledger) + gap - (reqs[r].btc - reqs[r].sent)
    BY <1>1, <2>0, <2>1, <2>2, <2>3, SMT
  <2>5. reqs' = [reqs EXCEPT ![r] = Over(gap)]
    BY <1>3, <2>3 DEF PaymentSucceeded
  <2> QED
    BY <2>3, <2>4, <2>5, EndMoney
<1>4. CASE PaymentRefunded(r)
  <2>1. reqs[r].uid \in Users /\ reqs[r].cur \in Currency /\ reqs[r].rate \in RateType
    BY <1>1, <1>4 DEF PaymentRefunded, RequestOK, RequestType, Charged
  <2>2. Outside(ledger') = Outside(ledger) - reqs[r].btc
    <3>1. CASE reqs[r].cur = BTC
      <4>1. ledger' = Post(ledger, BankLiability, UserAccount(reqs[r].uid, BTC), reqs[r].btc)
        BY <1>4, <3>1 DEF PaymentRefunded, Refund, Commit
      <4> QED
        BY <1>1, <1>2, <2>1, <4>1, PostIn, Internals
    <3>2. CASE reqs[r].cur # BTC
      <4>1. PICK charge \in Int : charge = Exchange(reqs[r].btc, reqs[r].rate)
        BY <1>1, <2>1 DEF RateType, LedgerLaws, ExchangeLaw
      <4>2. ledger' = BuyFiat(ledger, reqs[r].uid, reqs[r].cur, reqs[r].btc, charge)
        BY <1>4, <3>2, <4>1 DEF PaymentRefunded, Refund, RefundFiat, Commit
      <4> QED
        BY <1>1, <2>1, <4>2, BuyFiatOutside
    <3> QED
      BY <3>1, <3>2
  <2>3. PICK gap \in Int : gap = -reqs[r].sent
    BY <1>1, SMTT(20)
  <2>4. "reply" \notin Faults => gap + 2 * (Sat - 1) >= 0
    BY <1>1, <1>4, <2>3, SatFacts, SMT DEF MoneyOK, GapsBacked, PaymentRefunded
  <2>5. reqs' = [reqs EXCEPT ![r] = Over(gap)]
    BY <1>4, <2>3 DEF PaymentRefunded
  <2>6. Outside(ledger') = Outside(ledger) + gap - (reqs[r].btc - reqs[r].sent)
    BY <1>1, <2>2, <2>3, SMT
  <2> QED
    BY <2>4, <2>5, <2>6, EndMoney
<1>5. CASE reqs' = [reqs EXCEPT ![r].stage = "stranded"] /\ UNCHANGED <<books, extSettled>>
  <2>1. UNCHANGED ledger
    BY <1>5 DEF books
  <2> QED
    BY <1>5, <2>1, CalmStage, CalmFrame, Aside
<1> QED
  BY <1>3, <1>4, <1>5 DEF PaymentResult

-----------------------------------------------------------------------------
\* Swaps, withdrawals, the dealer's requests and the rest.

\* A request that waits for the dealer, or an LNURL withdrawal on its way.
LEMMA WaitingMoney ==
  ASSUME LedgerLaws, Inv, Inv', MoneyOK, NEW r \in RequestIds,
         \/ \E u \in Users, from \in Currency, to \in Currency, amount \in Amounts :
              /\ FreshRequest(r)
              /\ reqs' = [reqs EXCEPT ![r] =
                   [NoRequest EXCEPT !.kind = "swap", !.stage = "dealer", !.uid = u,
                                     !.cur = from, !.to = to, !.amount = amount]]
         \/ \E u \in Users, c \in Currency, amount \in Amounts :
              /\ FreshRequest(r)
              /\ reqs' = [reqs EXCEPT ![r] =
                   [NoRequest EXCEPT !.kind = "lnurl", !.uid = u, !.cur = c, !.amount = amount,
                                     !.stage = IF c = BTC THEN "lnurl" ELSE "dealer"]]
         \/ \E rate \in Rates : LnurlQuoted(r, rate)
         \/ \E own \in BOOLEAN, inv \in Nat : PayLnurlWithdrawal(r, own, inv),
         UNCHANGED <<ledger, invoices, node, dealerGap>>
  PROVE  MoneyOK'
<1> RequestsOK /\ RequestsOK' /\ reqs[r] \in RequestType /\ RequestOK(reqs[r])
  BY DEF Inv, RequestsOK
<1>1. SUFFICES \E x : /\ reqs' = [reqs EXCEPT ![r] = x] /\ reqs[r].stage \in Waiting \cup {"free"}
                      /\ x.stage \in Waiting /\ x.kind # "deposit"
  BY CalmWait, CalmFrame, Aside
<1>2. ASSUME NEW u \in Users, NEW from \in Currency, NEW to \in Currency, NEW amount \in Amounts,
             FreshRequest(r),
             reqs' = [reqs EXCEPT ![r] =
                   [NoRequest EXCEPT !.kind = "swap", !.stage = "dealer", !.uid = u,
                                     !.cur = from, !.to = to, !.amount = amount]]
      PROVE  \E x : /\ reqs' = [reqs EXCEPT ![r] = x] /\ reqs[r].stage \in Waiting \cup {"free"}
                    /\ x.stage \in Waiting /\ x.kind # "deposit"
  <2> DEFINE x == [NoRequest EXCEPT !.kind = "swap", !.stage = "dealer", !.uid = u,
                                     !.cur = from, !.to = to, !.amount = amount]
  <2>1. x.stage = "dealer" /\ x.kind = "swap"
    BY DEF NoRequest
  <2>2. reqs' = [reqs EXCEPT ![r] = x] /\ reqs[r].stage = "free"
    BY <1>2 DEF FreshRequest
  <2> HIDE DEF x
  <2> QED
    BY <2>1, <2>2 DEF Waiting
<1>3. ASSUME NEW u \in Users, NEW c \in Currency, NEW amount \in Amounts,
             FreshRequest(r),
             reqs' = [reqs EXCEPT ![r] =
                   [NoRequest EXCEPT !.kind = "lnurl", !.uid = u, !.cur = c, !.amount = amount,
                                     !.stage = IF c = BTC THEN "lnurl" ELSE "dealer"]]
      PROVE  \E x : /\ reqs' = [reqs EXCEPT ![r] = x] /\ reqs[r].stage \in Waiting \cup {"free"}
                    /\ x.stage \in Waiting /\ x.kind # "deposit"
  <2> DEFINE x == [NoRequest EXCEPT !.kind = "lnurl", !.uid = u, !.cur = c, !.amount = amount,
                                     !.stage = IF c = BTC THEN "lnurl" ELSE "dealer"]
  <2>1. x.stage \in {"lnurl", "dealer"} /\ x.kind = "lnurl"
    BY DEF NoRequest
  <2>2. reqs' = [reqs EXCEPT ![r] = x] /\ reqs[r].stage = "free"
    BY <1>3 DEF FreshRequest
  <2> HIDE DEF x
  <2> QED
    BY <2>1, <2>2 DEF Waiting
<1>4. ASSUME NEW rate \in Rates, LnurlQuoted(r, rate)
      PROVE  \E x : /\ reqs' = [reqs EXCEPT ![r] = x] /\ reqs[r].stage \in Waiting \cup {"free"}
                    /\ x.stage \in Waiting /\ x.kind # "deposit"
  <2> DEFINE x == [reqs[r] EXCEPT !.stage = "lnurl", !.rate = rate]
  <2>1. x.stage = "lnurl" /\ x.kind = reqs[r].kind
    BY DEF RequestType
  <2>2. /\ reqs' = [reqs EXCEPT ![r] = x] /\ reqs[r].stage = "dealer" /\ reqs[r].kind = "lnurl"
    BY <1>4 DEF LnurlQuoted
  <2> HIDE DEF x
  <2> QED
    BY <2>1, <2>2 DEF Waiting
<1>5. ASSUME NEW own \in BOOLEAN, NEW inv \in Nat, PayLnurlWithdrawal(r, own, inv)
      PROVE  \E x : /\ reqs' = [reqs EXCEPT ![r] = x] /\ reqs[r].stage \in Waiting \cup {"free"}
                    /\ x.stage \in Waiting /\ x.kind # "deposit"
  <2> DEFINE x == [reqs[r] EXCEPT !.stage = "loopback", !.own = own, !.inv = inv]
  <2>1. x.stage = "loopback" /\ x.kind = reqs[r].kind
    BY DEF RequestType
  <2>2. /\ reqs' = [reqs EXCEPT ![r] = x] /\ reqs[r].stage = "lnurl"
    BY <1>5 DEF PayLnurlWithdrawal
  <2>3. reqs[r].kind = "lnurl"
    BY <2>2 DEF RequestOK, Waiting
  <2> HIDE DEF x
  <2> QED
    BY <2>1, <2>2, <2>3 DEF Waiting
<1> QED
  BY <1>2, <1>3, <1>4, <1>5

\* A swap is between a user and the dealer.
LEMMA SwapResponseMoney ==
  ASSUME LedgerLaws, Inv, Inv', MoneyOK, NEW r \in RequestIds, NEW rate \in Rates, SwapResponse(r, rate)
  PROVE  MoneyOK'
<1> BooksOK /\ RequestsOK /\ reqs[r] \in RequestType /\ RequestOK(reqs[r])
  BY DEF Inv, RequestsOK
<1>1. PICK u \in Users, c \in Currency, d \in Currency, v \in Nat :
        u = reqs[r].uid /\ c = reqs[r].cur /\ d = reqs[r].to /\ v = reqs[r].amount
  BY DEF RequestOK, RequestType, Waiting, SwapResponse
<1>2. PICK bought \in Nat : bought = Exchange(v, rate)
  BY BankAssumption DEF LedgerLaws, ExchangeLaw
<1>3. /\ ledger' = Post(Post(ledger, UserAccount(u, c), DealerAccount(c), v),
                        DealerAccount(d), UserAccount(u, d), bought)
      /\ Close(r) /\ UNCHANGED <<invoices, node, dealerGap>>
  BY <1>1, <1>2, ZenonT(30) DEF SwapResponse, Counterparty, Commit, lnd
<1>4. ledger \in [Accounts -> Int] /\ v \in Int /\ bought \in Int
  BY SMT DEF BooksOK
<1>5. PICK p \in [Accounts -> Int] : p = Post(ledger, UserAccount(u, c), DealerAccount(c), v)
  BY <1>4, PostType, Internals
<1>6. Outside(p) = Outside(ledger)
  BY <1>4, <1>5, PostWithin, Internals
<1>7. Outside(ledger') = Outside(ledger)
  BY <1>3, <1>4, <1>5, <1>6, PostWithin, Internals, SMT
<1> QED
  BY <1>3, <1>7, CalmClose, CalmFrame, CalmStep

\* A payment for the dealer: what the books do not take is in dealerGap.
LEMMA DealerInvoiceMoney ==
  ASSUME LedgerLaws, Inv, Inv', MoneyOK, NEW amount \in Amounts, NEW fee \in DealerFees,
         NEW is_external \in BOOLEAN, process_dealer_invoice(amount, fee, is_external)
  PROVE  MoneyOK'
<1> BooksOK /\ UNCHANGED <<reqs, invoices>> /\ amount \in Nat /\ fee \in Nat
  BY BankAssumption, SatFacts DEF Inv, process_dealer_invoice
<1>1. node' = node - (amount + fee)
  BY DEF process_dealer_invoice
<1>2. PICK to \in {BankLiability, DealerExternal} :
        to = IF is_external THEN BankLiability ELSE DealerExternal
  OBVIOUS
<1>3. Outside(ledger) \in Int /\ node \in Int /\ dealerGap \in Int
  <2>1. \A x, y \in Int : x + y \in Int
    BY SMT
  <2> QED
    BY MoneyTypes, <2>1 DEF Outside
<1>4. CASE /\ Commit(Post(ledger, DealerAccount(BTC), to, amount), {DealerAccount(BTC), to})
           /\ dealerGap' = dealerGap + fee
  <2>1. ledger' = Post(ledger, DealerAccount(BTC), to, amount)
    BY <1>4 DEF Commit
  <2>2. ledger \in [Accounts -> Int] /\ amount \in Int
    BY SMT DEF BooksOK
  <2>3. Outside(ledger') = Outside(ledger) + amount
    BY <1>2, <2>1, <2>2, PostOut, Internals
  <2>4. node' + Outside(ledger') + dealerGap' = node + Outside(ledger) + dealerGap
    BY <1>1, <1>4, <1>3, <2>3, SMT
  <2> QED
    BY <2>4, CalmFrame, CalmStep
<1>5. CASE dealerGap' = dealerGap + amount + fee /\ UNCHANGED books
  <2>1. UNCHANGED ledger
    BY <1>5 DEF books
  <2>2. node' + Outside(ledger') + dealerGap' = node + Outside(ledger) + dealerGap
    BY <1>1, <1>5, <1>3, <2>1, SMTT(20)
  <2> QED
    BY <2>2, CalmFrame, CalmStep
<1> QED
  BY <1>2, <1>4, <1>5 DEF process_dealer_invoice

\* Issuing the dealer's invoice, its health, and a query of the balances.
LEMMA QueriesMoney ==
  ASSUME LedgerLaws, Inv, Inv', MoneyOK,
         \/ \E amount \in Amounts, ref \in {"KolliderSettlement", "ExternalDeposit"} :
              process_create_invoice_request(amount, ref)
         \/ \E cs \in SUBSET Currency : Health(cs)
         \/ \E u \in Users : GetBalances(u)
         \/ UNCHANGED vars
  PROVE  MoneyOK'
<1>0. InvoicesOK
  BY DEF Inv
<1>1. UNCHANGED <<ledger, reqs, node, dealerGap>>
  BY DEF process_create_invoice_request, Health, GetBalances, vars, books, lnd
<1>2. \A i \in InvoiceIds : CalmInvoice(i)
  <2>1. CASE UNCHANGED invoices
    BY <2>1, CalmFrame
  <2>2. ASSUME NEW amount \in Amounts, NEW ref \in {"KolliderSettlement", "ExternalDeposit"},
               process_create_invoice_request(amount, ref)
        PROVE  \A i \in InvoiceIds : CalmInvoice(i)
    BY <1>0, <2>2, CalmIssue DEF process_create_invoice_request
  <2> QED
    BY <2>1, <2>2 DEF Health, GetBalances, vars, books
<1> QED
  BY <1>1, <1>2, CalmFrame, Aside
=============================================================================
