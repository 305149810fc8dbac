----------------------------- MODULE BankProofs -----------------------------
(***************************************************************************)
(* The theorems about the bank engine, for every number of users, requests *)
(* and invoices, every set of rates and amounts, and every set of faults.  *)
(***************************************************************************)
EXTENDS BankStepProofs, LedgerProofs

\* The prover of a step that names none.
USE Zenon

\* The books are in order when the bank starts for the first time.
LEMMA InitBooks ==
  ASSUME Init
  PROVE  BooksOK /\ node \in Nat
<1> DEFINE F(c) == [u \in Users |-> InitFunds[u][c]]
<1>0. NumUsers \in Nat /\ InitFunds \in [Users -> [Currency -> Nat]] /\ InitDealer \in Nat
  BY LedgerAssumption, BankAssumption
<1>1. ASSUME NEW c \in Currency PROVE SumTo(F(c), NumUsers) \in Nat
  <2> DEFINE f == F(c)
  <2>1. f \in [1 .. NumUsers -> Int] /\ \A u \in 1 .. NumUsers : f[u] >= 0
    BY <1>0, SMTT(20) DEF Users
  <2> HIDE DEF f
  <2>2. SumTo(f, NumUsers) \in Nat
    BY <1>0, <2>1, SumNat
  <2> QED
    BY <2>2 DEF f
<1>2. /\ \A u \in Users, c \in Currency : InitLedger[UserAccount(u, c)] = InitFunds[u][c]
      /\ \A c \in Fiat : InitLedger[DealerAccount(c)] = -SumTo(F(c), NumUsers)
      /\ InitLedger[DealerAccount(BTC)] = InitDealer
      /\ InitLedger[BankLiability] = -(SumTo(F(BTC), NumUsers) + InitDealer)
      /\ InitLedger[DealerExternal] = 0
  <2>1. /\ \A u \in Users, c \in Currency : UserAccount(u, c)[1] = u /\ UserAccount(u, c)[2] = c
        /\ \A c \in Currency : DealerAccount(c)[1] \notin Users /\ DealerAccount(c)[2] = c
        /\ BankLiability[1] \notin Users /\ DealerExternal[1] \notin Users
    BY <1>0, SMTT(20) DEF UserAccount, DealerAccount, BankLiability, DealerExternal, Users, BANK_UID, DEALER_UID
  <2>2. \A c \in Fiat : c \in Currency /\ c # BTC
    BY LedgerAssumption DEF Currency
  <2>3. \A a \in Accounts :
          InitLedger[a] =
            IF a[1] \in Users THEN InitFunds[a[1]][a[2]]
            ELSE IF a = DealerAccount(BTC) THEN InitDealer
            ELSE IF a = BankLiability THEN -(SumTo(F(BTC), NumUsers) + InitDealer)
            ELSE IF a = DealerExternal THEN 0
            ELSE -SumTo(F(a[2]), NumUsers)
    BY DEF InitLedger
  <2> HIDE DEF F
  <2>4. ASSUME NEW u \in Users, NEW c \in Currency
        PROVE  InitLedger[UserAccount(u, c)] = InitFunds[u][c]
    <3>1. UserAccount(u, c) \in Accounts
      BY AccountFacts
    <3> QED
      BY <2>1, <2>3, <3>1, SMTT(20)
  <2>5. ASSUME NEW c \in Fiat
        PROVE  InitLedger[DealerAccount(c)] = -SumTo(F(c), NumUsers)
    <3>1. DealerAccount(c) \in Accounts
      BY <2>2, AccountFacts
    <3>2. /\ DealerAccount(c) # DealerAccount(BTC)
          /\ DealerAccount(c) # BankLiability /\ DealerAccount(c) # DealerExternal
      BY <2>2 DEF DealerAccount, BankLiability, DealerExternal, BANK_UID, DEALER_UID
    <3> QED
      BY <2>1, <2>2, <2>3, <3>1, <3>2
  <2>6. /\ InitLedger[DealerAccount(BTC)] = InitDealer
        /\ InitLedger[BankLiability] = -(SumTo(F(BTC), NumUsers) + InitDealer)
        /\ InitLedger[DealerExternal] = 0
    <3>1. /\ BTC \in Currency /\ DealerAccount(BTC) \in Accounts
          /\ BankLiability \in Accounts /\ DealerExternal \in Accounts
      BY AccountFacts DEF Currency
    <3>2. /\ DealerAccount(BTC) # BankLiability /\ DealerAccount(BTC) # DealerExternal
          /\ BankLiability # DealerExternal
      BY SMTT(20) DEF DealerAccount, BankLiability, DealerExternal, BANK_UID, DEALER_UID
    <3> QED
      BY <2>1, <2>3, <3>1, <3>2
  <2> QED
    BY <2>4, <2>5, <2>6
<1>3. InitLedger \in [Accounts -> Int]
  <2>1. ASSUME NEW a \in Accounts PROVE InitLedger[a] \in Int
    <3> HIDE DEF F
    <3>1. CASE \E u \in Users, c \in Currency : a = UserAccount(u, c)
      BY <1>0, <1>2, <3>1, SMTT(20)
    <3>2. CASE \E c \in Currency : a = DealerAccount(c)
      <4>1. PICK c \in Currency : a = DealerAccount(c)
        BY <3>2
      <4>2. SumTo(F(c), NumUsers) \in Nat
        BY <1>1
      <4>3. InitLedger[DealerAccount(c)] \in Int
        BY <1>0, <1>2, <4>2, SMTT(20) DEF Currency
      <4> QED
        BY <4>1, <4>3
    <3>3. CASE a = BankLiability \/ a = DealerExternal
      <4>1. SumTo(F(BTC), NumUsers) \in Nat
        BY <1>1, AccountFacts
      <4> QED
        BY <1>0, <1>2, <3>3, <4>1, SMTT(20)
    <3> QED
      BY <3>1, <3>2, <3>3, SMTT(20) DEF Accounts
  <2> QED
    BY <2>1 DEF InitLedger
<1>4. reconcile_ledger(InitLedger)
  <2>1. ASSUME NEW c \in Currency PROVE NetBalance(InitLedger, c) = 0
    <3>1. [u \in Users |-> InitLedger[UserAccount(u, c)]] = F(c)
      BY <1>2
    <3>2. SumTo(F(c), NumUsers) \in Nat
      BY <1>1
    <3> HIDE DEF F
    <3> QED
      BY <1>0, <1>2, <3>1, <3>2, SMTT(20) DEF NetBalance, Currency
  <2> QED
    BY <1>0, <1>2, <2>1, SMTT(20) DEF reconcile_ledger
<1>5. rows \subseteq Users
  BY DEF Init, Funded
<1>6. node \in Nat
  BY <1>0, <1>1, <1>2, AccountFacts, SMTT(20) DEF Init
<1> HIDE DEF F
<1> QED
  BY <1>3, <1>4, <1>5, <1>6 DEF Init, BooksOK, Reconciled, StoredIsLedger

\* The invariant holds when the bank starts for the first time.
LEMMA InitInv == Init => Inv
<1> SUFFICES ASSUME Init PROVE Inv
  OBVIOUS
<1>1. BooksOK /\ node \in Nat
  BY InitBooks
<1>2. RequestsOK /\ InvoicesOK
  BY EmptyOK DEF Init, RequestsOK, InvoicesOK
<1>3. ViewsOK
  BY <1>1, AccountFacts DEF Init, ViewsOK, Funded
<1>4. SentIsPaid /\ DepositIsSettled
  BY EmptyOK DEF Init, SentIsPaid, DepositIsSettled, Charged
<1> QED
  BY <1>1, <1>2, <1>3, <1>4, InvParts

\* Whatever requests, rates, faults and restarts the bank meets, its books
\* balance and no user is overdrawn after every handler, the accounts table is
\* the ledger unless a write was lost, and requests and invoices are as their
\* stages say.
THEOREM BankInvariant == Spec => []Inv
<1>1. Init => Inv
  BY InitInv
<1>2. Inv /\ [Next]_vars => Inv'
  BY NextInv, LedgerLawsHold
<1> QED
  BY <1>1, <1>2, PTL DEF Spec

\* Every variable of the bank keeps its type.
THEOREM BankTypes == Spec => []TypeOK
<1>1. Inv => TypeOK
  BY DEF Inv, BooksOK, RequestsOK, InvoicesOK, ViewsOK, TypeOK
<1> QED
  BY <1>1, BankInvariant, PTL

\* The audit of the main loop never finds a reason to shut the bank down: after
\* every handler no user is overdrawn and every currency nets to zero.
THEOREM BankReconciles == Spec => []Reconciled
<1>1. Inv => Reconciled
  BY DEF Inv, BooksOK
<1> QED
  BY <1>1, BankInvariant, PTL

\* No booking is lost by a restart, unless a write of an account failed.
THEOREM BankIsDurable == Spec => []StoredIsLedger
<1>1. Inv => StoredIsLedger
  BY DEF Inv, BooksOK
<1> QED
  BY <1>1, BankInvariant, PTL

-----------------------------------------------------------------------------
\* A restart loses requests and events, and no satoshi.
LEMMA RestartMoney ==
  ASSUME Inv, Inv', MoneyOK, Restart
  PROVE  MoneyOK'
<1>0. RequestsOK /\ InvoicesOK /\ BooksOK
  BY InvParts
<1>1. \A r \in RequestIds : CalmRequest(r)
  <2>1. ASSUME NEW r \in RequestIds PROVE CalmRequest(r)
    <3>1. reqs'[r] = Lost(reqs[r]) /\ reqs[r] \in RequestType /\ RequestOK(reqs[r])
      BY <1>0 DEF Restart, RequestsOK
    <3>2. /\ Lost(reqs[r]).btc - Lost(reqs[r]).sent = reqs[r].btc - reqs[r].sent
          /\ Lost(reqs[r]).kind = "deposit" => reqs[r].kind = "deposit" /\ Lost(reqs[r]).inv = reqs[r].inv
      BY <3>1, LostOK
    <3>3. Lost(reqs[r]).stage # "failed"
      <4>1. CASE reqs[r].stage \in {"inflight", "paid", "failed"}
        BY <3>1, <4>1 DEF Lost, RequestType
      <4>2. CASE reqs[r].stage \in {"lnurl", "loopback"}
        <5>1. 0 \in Int
          BY SMTT(20)
        <5> QED
          BY <4>2, <5>1, OverOK DEF Lost
      <4>3. CASE reqs[r].stage \notin {"inflight", "paid", "failed", "lnurl", "loopback"}
        BY <4>3 DEF Lost
      <4> QED
        BY <4>1, <4>2, <4>3
    <3> QED
      BY <3>1, <3>2, <3>3 DEF CalmRequest
  <2> QED
    BY <2>1
<1>2. \A i \in InvoiceIds : CalmInvoice(i)
  <2>1. ASSUME NEW i \in InvoiceIds PROVE CalmInvoice(i)
    <3> DEFINE x == [invoices[i] EXCEPT !.event = FALSE]
    <3>1. invoices[i] \in InvoiceType /\ invoices'[i] = x
      BY <1>0 DEF InvoicesOK, Restart
    <3>2. /\ x.state = invoices[i].state /\ x.value = invoices[i].value
          /\ x.received = invoices[i].received /\ x.credited = invoices[i].credited /\ ~x.event
      BY <3>1 DEF InvoiceType
    <3> HIDE DEF x
    <3> QED
      BY <3>1, <3>2 DEF CalmInvoice
  <2> QED
    BY <2>1
<1>3. "save" \notin Faults => node' + Outside(ledger') + dealerGap' = node + Outside(ledger) + dealerGap
  <2>1. UNCHANGED <<node, dealerGap>> /\ ledger' = stored
    BY DEF Restart, lnd
  <2>2. "save" \notin Faults => stored = ledger
    BY <1>0 DEF BooksOK, StoredIsLedger
  <2> QED
    BY <2>1, <2>2
<1> QED
  BY <1>1, <1>2, <1>3, CalmStep, LedgerLawsHold

-----------------------------------------------------------------------------
\* At the first start the node holds what the ledger says is owed.
LEMMA InitMoney == Init => MoneyOK
<1> SUFFICES ASSUME Init PROVE MoneyOK
  OBVIOUS
<1>0. Inv /\ RequestsOK /\ InvoicesOK /\ BooksOK
  BY InitInv, InvParts
<1>1. \A r \in RequestIds : reqs[r] = NoRequest /\ reqs[r].btc = 0 /\ reqs[r].sent = 0
                            /\ reqs[r].stage = "free" /\ reqs[r].kind = "none"
  BY DEF Init, NoRequest
<1>2. \A i \in InvoiceIds : /\ invoices[i].received = 0 /\ invoices[i].credited = 0
                            /\ invoices[i].state = "none" /\ invoices[i].event = FALSE
  BY DEF Init, NoInvoice
<1>3. SumTo(RequestGap, NumRequests) = 0 /\ SumTo(InvoiceGap, NumInvoices) = 0
  <2>1. NumRequests \in Nat /\ NumInvoices \in Nat
    BY BankAssumption
  <2>2. RequestGap \in [1 .. NumRequests -> Int] /\ InvoiceGap \in [1 .. NumInvoices -> Int]
    BY <1>0, GapTypes, LedgerLawsHold
  <2>3. /\ \A r \in 1 .. NumRequests : RequestGap[r] = 0
        /\ \A i \in 1 .. NumInvoices : InvoiceGap[i] = 0
    BY <1>1, <1>2, SMTT(20) DEF RequestGap, InvoiceGap, RequestIds, InvoiceIds
  <2>4. ASSUME NEW n \in Nat, NEW f \in [1 .. n -> Int], \A j \in 1 .. n : f[j] = 0
        PROVE  SumTo(f, n) = 0
    BY <2>4, SumNat, SMTT(20)
  <2> QED
    BY <2>1, <2>2, <2>3, <2>4
<1>4. ledger[DealerExternal] = 0
  <2>1. /\ DealerExternal \in Accounts /\ DealerExternal # DealerAccount(BTC)
        /\ DealerExternal # BankLiability
    BY AccountFacts DEF DealerAccount, BankLiability, DealerExternal, BANK_UID, DEALER_UID
  <2>2. DealerExternal[1] \notin Users
    BY LedgerAssumption, SMTT(20) DEF DealerExternal, Users, DEALER_UID
  <2> QED
    BY <2>1, <2>2 DEF Init, InitLedger
<1>5. BooksMatchNode
  <2>1. ledger[BankLiability] \in Int
    BY <1>0, AccountFacts DEF BooksOK
  <2> QED
    BY <1>3, <1>4, <2>1, SMTT(20) DEF Init, BooksMatchNode
<1>6. GapsBacked
  <2>1. 0 <= 0 + 2 * (Sat - 1)
    BY SatFacts, SMT
  <2> QED
    BY <1>1, <2>1 DEF GapsBacked
<1>7. CreditedOnce
  BY <1>1, <1>2 DEF CreditedOnce
<1> QED
  BY <1>5, <1>6, <1>7 DEF MoneyOK

\* Every step of the bank keeps the books matched with the node.
LEMMA NextMoney == Inv /\ Inv' /\ MoneyOK /\ [Next]_vars => MoneyOK'
<1> SUFFICES ASSUME Inv, Inv', MoneyOK, [Next]_vars PROVE MoneyOK'
  OBVIOUS
<1> LedgerLaws
  BY LedgerLawsHold
<1>0. Rates \subseteq RateType
  BY BankAssumption DEF RateType
<1>1. CASE ApiRequest
  <2>1. ASSUME NEW u \in Users, NEW c \in Currency, NEW amount \in Amounts,
               \/ \E into \in Currency : InvoiceRequest(u, c, amount, into)
               \/ \E v \in Users : PaymentByName(u, v, c, amount)
        PROVE  MoneyOK'
    BY <2>1, InvoiceRequestMoney, PaymentByNameMoney
  <2>2. ASSUME NEW u \in Users, NEW c \in Currency, NEW amount \in Amounts,
               \/ \E to \in Currency : SwapRequest(u, c, to, amount)
               \/ CreateLnurlWithdrawal(u, c, amount)
        PROVE  MoneyOK'
    <3>1. UNCHANGED <<ledger, invoices, node, dealerGap>>
      BY <2>2 DEF SwapRequest, CreateLnurlWithdrawal, books, lnd
    <3> QED
      BY <2>2, <3>1, WaitingMoney, ZenonT(60) DEF SwapRequest, CreateLnurlWithdrawal
  <2>3. ASSUME NEW u \in Users, NEW c \in Currency,
               \/ \E i \in InvoiceIds : PaymentRequest(u, c, TRUE, i)
               \/ \E e \in ExternalIds : PaymentRequest(u, c, FALSE, e)
        PROVE  MoneyOK'
    BY <2>3, PaymentRequestMoney, ZenonT(30)
  <2>4. ASSUME NEW u \in Users, GetBalances(u) PROVE MoneyOK'
    BY <2>4, QueriesMoney
  <2> QED
    BY <1>1, <2>1, <2>2, <2>3, <2>4, ZenonT(30) DEF ApiRequest
<1>2. CASE DealerMessage
  <2>1. ASSUME NEW r \in RequestIds, NEW rate \in Rates,
               \/ InvoiceResponse(r, rate) \/ FiatDepositResponse(r, rate)
               \/ SwapResponse(r, rate) \/ PaymentResumes(r, rate)
        PROVE  MoneyOK'
    BY <1>0, <2>1, InvoiceResponseMoney, FiatDepositMoney, SwapResponseMoney, PaymentResumesMoney
  <2>2. ASSUME NEW r \in RequestIds, NEW rate \in Rates, LnurlQuoted(r, rate) PROVE MoneyOK'
    <3>1. UNCHANGED <<ledger, invoices, node, dealerGap>>
      BY <2>2 DEF LnurlQuoted, books, lnd
    <3> QED
      BY <2>2, <3>1, WaitingMoney
  <2>3. ASSUME NEW r \in RequestIds, DealerRefuses(r) PROVE MoneyOK'
    BY <2>3, GiveUpMoney
  <2>4. ASSUME NEW amount \in Amounts, NEW fee \in DealerFees, NEW is_external \in BOOLEAN,
               process_dealer_invoice(amount, fee, is_external)
        PROVE  MoneyOK'
    BY <2>4, DealerInvoiceMoney
  <2>5. ASSUME NEW amount \in Amounts, NEW ref \in {"KolliderSettlement", "ExternalDeposit"},
               process_create_invoice_request(amount, ref)
        PROVE  MoneyOK'
    BY <2>5, QueriesMoney
  <2>6. ASSUME NEW cs \in SUBSET Currency, Health(cs) PROVE MoneyOK'
    BY <2>6, QueriesMoney
  <2> QED
    BY <1>2, <2>1, <2>2, <2>3, <2>4, <2>5, <2>6 DEF DealerMessage
<1>3. CASE LndStep
  BY <1>3, ExternalPaysMoney, LndPaysMoney, LndFailsMoney DEF LndStep
<1>4. CASE EngineStep
  <2>1. \A r \in RequestIds : reqs[r].rate \in RateType
    BY InvParts DEF RequestsOK, RequestType
  <2> QED
    BY <1>4, <2>1, GiveUpMoney, DepositMoney, PaymentResultMoney, PaymentResumesMoney, ZenonT(30)
    DEF EngineStep
<1>5. CASE WalletStep
  <2>1. ASSUME NEW r \in RequestIds, NEW own \in BOOLEAN, NEW inv \in Nat,
               PayLnurlWithdrawal(r, own, inv)
        PROVE  MoneyOK'
    <3>1. UNCHANGED <<ledger, invoices, node, dealerGap>>
      BY <2>1 DEF PayLnurlWithdrawal, books, lnd
    <3> QED
      BY <2>1, <3>1, WaitingMoney
  <2>2. InvoiceIds \subseteq Nat /\ ExternalIds \subseteq Nat
    BY BankAssumption, SMTT(20) DEF InvoiceIds, ExternalIds
  <2> QED
    BY <1>5, <2>1, <2>2 DEF WalletStep
<1>6. CASE Restart
  BY <1>6, RestartMoney
<1>7. CASE UNCHANGED vars
  BY <1>7, QueriesMoney
<1> QED
  BY <1>1, <1>2, <1>3, <1>4, <1>5, <1>6, <1>7 DEF Next

\* Whatever the bank meets, with every account saved the node's balance and
\* the books differ exactly by what is under way or was given up, and a
\* receipt is credited at most once.
THEOREM BankMoney == Spec => []MoneyOK
<1>1. Init => MoneyOK
  BY InitMoney
<1>2. Inv /\ Inv' /\ MoneyOK /\ [Next]_vars => MoneyOK'
  BY NextMoney
<1> QED
  BY <1>1, <1>2, BankInvariant, PTL DEF Spec

\* The books account for all that the node holds, to the millisatoshi, for every
\* number of users, invoices and requests (insert_into_ledger and the handlers
\* around LND): where they differ, an open or given up request, an invoice, a
\* message of the dealer or the cut of a payment to whole satoshi says by how much.
THEOREM BankBooksMatch == Spec => []BooksMatchNode
<1>1. MoneyOK => BooksMatchNode
  BY DEF MoneyOK
<1> QED
  BY <1>1, BankMoney, PTL

\* What the invariants say of one state: with no answer of LND lost the node
\* holds what the users and the dealer own, but for less than two satoshi of
\* each payment that cost more than was charged for it.
LEMMA MoneyBacks == Inv /\ MoneyOK => FullyBacked
<1> SUFFICES ASSUME Inv, MoneyOK, "save" \notin Faults, "reply" \notin Faults
             PROVE  node + dealerGap + SumTo(Dust, NumRequests)
                      >= SumTo([u \in Users |-> ledger[UserAccount(u, BTC)]], NumUsers)
                           + ledger[DealerAccount(BTC)]
  BY DEF FullyBacked
<1> DEFINE held == SumTo([u \in Users |-> ledger[UserAccount(u, BTC)]], NumUsers)
<1>0. RequestsOK /\ InvoicesOK /\ BooksOK /\ ViewsOK
  BY InvParts
<1>1. held + ledger[DealerAccount(BTC)] + (ledger[BankLiability] + ledger[DealerExternal]) = 0
  BY <1>0 DEF BooksOK, Reconciled, reconcile_ledger, NetBalance, Currency
<1>2. /\ SumTo(RequestGap, NumRequests) \in Int /\ SumTo(Dust, NumRequests) \in Int
      /\ SumTo(RequestGap, NumRequests) + SumTo(Dust, NumRequests) \in Nat
  <2> DEFINE both == [r \in 1 .. NumRequests |-> RequestGap[r] + Dust[r]]
  <2>1. RequestGap \in [1 .. NumRequests -> Int] /\ NumRequests \in Nat
    BY <1>0, GapTypes, LedgerLawsHold, BankAssumption
  <2>2. ASSUME NEW r \in 1 .. NumRequests
        PROVE  Dust[r] \in Int /\ RequestGap[r] + Dust[r] \in Nat
    <3>1. /\ reqs[r].sent <= reqs[r].btc + 2 * (Sat - 1)
          /\ reqs[r].sent \in Int /\ reqs[r].btc \in Int
      <4>1. r \in RequestIds
        BY DEF RequestIds
      <4>2. reqs[r] \in RequestType
        BY <1>0, <4>1 DEF RequestsOK
      <4>3. reqs[r].sent \in Int /\ reqs[r].btc \in Int
        BY <4>2, SMT DEF RequestType
      <4> QED
        BY <4>1, <4>3 DEF MoneyOK, GapsBacked
    <3>2. PICK gap \in Int : gap = RequestGap[r] /\ gap + 2 * (Sat - 1) >= 0
      BY <3>1, SatFacts, SMTT(20) DEF RequestGap, RequestIds
    <3>3. Dust[r] = IF gap < 0 THEN 2 * (Sat - 1) ELSE 0
      BY <3>2 DEF Dust, RequestIds
    <3> QED
      BY <3>2, <3>3, SatFacts, SMTT(20)
  <2>3. Dust \in [1 .. NumRequests -> Int]
    BY <2>2 DEF Dust, RequestIds
  <2>4. /\ \A r \in 1 .. NumRequests : both[r] = RequestGap[r] + Dust[r] /\ both[r] \in Nat
        /\ both \in [1 .. NumRequests -> Int]
    <3>1. \A x \in Nat : x \in Int
      BY SMT
    <3> QED
      BY <2>2, <3>1
  <2> HIDE DEF both
  <2>5. \A r \in 1 .. NumRequests : both[r] >= 0
    BY <2>4, SMT
  <2>6. SumTo(both, NumRequests) \in Nat
    BY <2>1, <2>4, <2>5, SumNat
  <2>7. SumTo(both, NumRequests) = SumTo(RequestGap, NumRequests) + SumTo(Dust, NumRequests)
    BY <2>1, <2>3, <2>4, SumAdd
  <2> QED
    BY <2>1, <2>3, <2>6, <2>7, SumType
<1>3. SumTo(InvoiceGap, NumInvoices) \in Nat
  <2>1. InvoiceGap \in [1 .. NumInvoices -> Int] /\ NumInvoices \in Nat
    BY <1>0, GapTypes, LedgerLawsHold, BankAssumption
  <2>2. ASSUME NEW i \in 1 .. NumInvoices PROVE InvoiceGap[i] >= 0
    <3>1. i \in InvoiceIds
      BY DEF InvoiceIds
    <3>2. invoices[i].received \in Nat /\ invoices[i].credited \in Nat /\ invoices[i].value \in Nat
      BY <1>0, <3>1, InvoiceNumbers
    <3>3. /\ invoices[i].state = "settled" => invoices[i].value <= invoices[i].received
          /\ invoices[i].credited = 0 \/ invoices[i].credited = invoices[i].value
          /\ invoices[i].state # "settled" => invoices[i].credited = 0
      BY <1>0, <3>1 DEF MoneyOK, CreditedOnce, InvoicesOK, InvoiceOK
    <3> QED
      BY <3>1, <3>2, <3>3, SMTT(20) DEF InvoiceGap
  <2> QED
    BY <2>1, <2>2, SumNat
<1>4. /\ held \in Int /\ ledger[DealerAccount(BTC)] \in Int /\ node \in Int /\ dealerGap \in Int
      /\ ledger[BankLiability] \in Int /\ ledger[DealerExternal] \in Int
  <2>1. ledger \in [Accounts -> Int] /\ NumUsers \in Nat
    BY <1>0, LedgerAssumption DEF BooksOK
  <2>2. /\ BTC \in Currency /\ DealerAccount(BTC) \in Accounts /\ BankLiability \in Accounts
        /\ DealerExternal \in Accounts /\ \A u \in Users : UserAccount(u, BTC) \in Accounts
    BY AccountFacts DEF Currency
  <2>3. [u \in Users |-> ledger[UserAccount(u, BTC)]] \in [1 .. NumUsers -> Int]
    BY <2>1, <2>2 DEF Users
  <2>4. held \in Int
    BY <2>1, <2>3, SumType
  <2> QED
    BY <1>0, <2>1, <2>2, <2>4, SMTT(20) DEF ViewsOK
<1>5. node + ledger[BankLiability] + ledger[DealerExternal] + dealerGap
        = SumTo(RequestGap, NumRequests) + SumTo(InvoiceGap, NumInvoices)
  BY DEF MoneyOK, BooksMatchNode
<1> HIDE DEF held
<1>6. node + dealerGap + SumTo(Dust, NumRequests) >= held + ledger[DealerAccount(BTC)]
  BY <1>1, <1>2, <1>3, <1>4, <1>5, SMTT(20)
<1> QED
  BY <1>6 DEF held

\* The bank is solvent: as long as every account is saved and every answer of
\* LND arrives, the node holds the Bitcoin of all users and of the dealer, but for
\* the fractions of a satoshi that its payments cut off.
THEOREM BankFullyBacked == Spec => []FullyBacked
<1>1. Inv /\ MoneyOK => FullyBacked
  BY MoneyBacks
<1> QED
  BY <1>1, BankInvariant, BankMoney, PTL

-----------------------------------------------------------------------------
\* Only the result of a payment, or a restart, touches a failed payment.
FailedKept == \A r \in RequestIds : reqs[r].stage = "failed" => reqs'[r] = reqs[r]

\* Replacing a request that has not failed keeps the failed ones.
LEMMA SetKeepsFailed ==
  ASSUME RequestsOK, NEW r \in RequestIds, NEW x, reqs[r].stage # "failed",
         reqs' = [reqs EXCEPT ![r] = x]
  PROVE  FailedKept
BY DEF FailedKept, RequestsOK

\* So does every handler but the one of the results.
LEMMA OthersKeepFailed ==
  ASSUME Inv, Next, ~Restart, ~(\E r \in RequestIds : PaymentResult(r))
  PROVE  FailedKept
<1>0. RequestsOK
  BY InvParts
<1>1. ASSUME NEW r \in RequestIds, Close(r), reqs[r].stage \in {"dealer", "loopback"}
      PROVE  FailedKept
  BY <1>0, <1>1, SetKeepsFailed DEF Close
<1>2. ASSUME NEW r \in RequestIds, NEW u, NEW c, NEW e, NEW rate, PayExternal(r, u, c, e, rate),
             reqs[r].stage \in {"free", "dealer", "loopback"}
      PROVE  FailedKept
  BY <1>0, <1>2, SetKeepsFailed DEF PayExternal
<1>3. ASSUME UNCHANGED reqs PROVE FailedKept
  BY <1>3 DEF FailedKept
<1>4. CASE ApiRequest
  <2>1. ASSUME NEW u \in Users, NEW c \in Currency, NEW amount \in Amounts,
               \/ \E into \in Currency : InvoiceRequest(u, c, amount, into)
               \/ \E v \in Users : PaymentByName(u, v, c, amount)
               \/ \E to \in Currency : SwapRequest(u, c, to, amount)
               \/ CreateLnurlWithdrawal(u, c, amount)
        PROVE  FailedKept
    BY <1>0, <1>3, <2>1, SetKeepsFailed
    DEF InvoiceRequest, PaymentByName, SwapRequest, CreateLnurlWithdrawal, FreshRequest
  <2>2. ASSUME NEW u \in Users, NEW c \in Currency, NEW own \in BOOLEAN, NEW inv,
               PaymentRequest(u, c, own, inv)
        PROVE  FailedKept
    BY <1>0, <1>2, <1>3, <2>2, SetKeepsFailed DEF PaymentRequest, PaymentNeedsRate, FreshRequest
  <2>3. ASSUME NEW u \in Users, GetBalances(u) PROVE FailedKept
    BY <1>3, <2>3 DEF GetBalances
  <2> QED
    BY <1>4, <2>1, <2>2, <2>3 DEF ApiRequest
<1>5. CASE DealerMessage
  <2>1. ASSUME NEW r \in RequestIds, NEW rate \in Rates,
               InvoiceResponse(r, rate) \/ FiatDepositResponse(r, rate) \/ SwapResponse(r, rate)
        PROVE  FailedKept
    BY <1>1, <2>1 DEF InvoiceResponse, FiatDepositResponse, SwapResponse
  <2>2. ASSUME NEW r \in RequestIds, NEW rate \in Rates, LnurlQuoted(r, rate) PROVE FailedKept
    BY <1>0, <2>2 DEF LnurlQuoted, FailedKept, RequestsOK
  <2>3. ASSUME NEW r \in RequestIds, NEW rate \in Rates,
               reqs[r].stage = "dealer" /\ PaymentResumes(r, rate)
        PROVE  FailedKept
    BY <1>1, <1>2, <2>3 DEF PaymentResumes
  <2>4. ASSUME NEW r \in RequestIds, DealerRefuses(r) PROVE FailedKept
    BY <1>1, <2>4 DEF DealerRefuses
  <2>5. ASSUME \/ \E amount \in Amounts :
                    \/ \E fee \in DealerFees, is_external \in BOOLEAN :
                         process_dealer_invoice(amount, fee, is_external)
                    \/ \E ref \in {"KolliderSettlement", "ExternalDeposit"} :
                         process_create_invoice_request(amount, ref)
               \/ \E cs \in SUBSET Currency : Health(cs)
        PROVE  FailedKept
    BY <1>3, <2>5 DEF process_dealer_invoice, process_create_invoice_request, Health
  <2> QED
    BY <1>5, <2>1, <2>2, <2>3, <2>4, <2>5, ZenonT(30) DEF DealerMessage
<1>6. CASE LndStep
  <2>1. ASSUME NEW i \in InvoiceIds, NEW amount \in Amounts, ExternalPays(i, amount)
        PROVE  FailedKept
    BY <1>3, <2>1 DEF ExternalPays
  <2>2. ASSUME NEW r \in RequestIds, LndPays(r) \/ LndFails(r) PROVE FailedKept
    BY <1>0, <2>2 DEF LndPays, LndFails, FailedKept, RequestsOK
  <2> QED
    BY <1>6, <2>1, <2>2 DEF LndStep
<1>7. CASE EngineStep
  <2>1. ASSUME NEW i \in InvoiceIds, Deposit(i) \/ DepositDropped(i) PROVE FailedKept
    <3>1. CASE UNCHANGED reqs
      BY <1>3, <3>1
    <3>2. CASE DepositFiat(i)
      BY <1>0, <3>2, SetKeepsFailed DEF DepositFiat, FreshRequest
    <3> QED
      BY <2>1, <3>1, <3>2 DEF Deposit, DepositDropped, DepositBtc, handle_dealer_deposit
  <2>2. ASSUME NEW r \in RequestIds,
               reqs[r].stage = "loopback" /\ PaymentResumes(r, reqs[r].rate)
        PROVE  FailedKept
    BY <1>1, <1>2, <2>2 DEF PaymentResumes
  <2>3. ASSUME NEW r \in RequestIds, PaymentRefused(r) PROVE FailedKept
    BY <1>1, <2>3 DEF PaymentRefused
  <2> QED
    BY <1>7, <2>1, <2>2, <2>3, ZenonT(30) DEF EngineStep
<1>8. CASE WalletStep
  <2>1. ASSUME NEW r \in RequestIds, NEW own, NEW inv, PayLnurlWithdrawal(r, own, inv)
        PROVE  FailedKept
    BY <1>0, <2>1 DEF PayLnurlWithdrawal, FailedKept, RequestsOK
  <2> QED
    BY <1>8, <2>1 DEF WalletStep
<1> QED
  BY <1>4, <1>5, <1>6, <1>7, <1>8 DEF Next

\* A failed payment that comes to an end is refunded by that step.
LEMMA EndedIsRefunded ==
  ASSUME Inv, [Next]_vars, NEW r \in RequestIds, reqs[r].stage = "failed", reqs'[r].stage = "done"
  PROVE  PaymentRefunded(r)
<1>0. RequestsOK
  BY InvParts
<1>1. ~FailedKept
  BY DEF FailedKept
<1>2. ~UNCHANGED vars
  BY <1>1 DEF FailedKept, vars
<1>3. ~Restart
  <2>1. ASSUME Restart PROVE FALSE
    <3>1. reqs'[r] = [reqs[r] EXCEPT !.stage = "stranded"] /\ reqs[r] \in RequestType
      BY <1>0, <2>1 DEF Restart, Lost, RequestsOK
    <3>2. reqs'[r].stage = "stranded"
      BY <3>1 DEF RequestType
    <3> QED
      BY <3>2
  <2> QED
    BY <2>1
<1>4. PICK s \in RequestIds : PaymentResult(s)
  BY <1>1, <1>2, <1>3, OthersKeepFailed
<1>5. s = r
  <2>1. \A t \in RequestIds : t # s => reqs'[t] = reqs[t]
    BY <1>0, <1>4 DEF PaymentResult, PaymentSucceeded, PaymentRefunded, RequestsOK
  <2> QED
    BY <2>1
<1>6. ~PaymentSucceeded(r)
  BY DEF PaymentSucceeded
<1>7. reqs' # [reqs EXCEPT ![r].stage = "stranded"]
  BY <1>0 DEF RequestsOK, RequestType
<1> QED
  BY <1>4, <1>5, <1>6, <1>7 DEF PaymentResult

\* A refund in Bitcoin or in fiat adds the charge to the payer's account.
LEMMA RefundAdds ==
  ASSUME Inv, NEW r \in RequestIds, PaymentRefunded(r)
  PROVE  ledger'[UserAccount(reqs[r].uid, reqs[r].cur)]
           = ledger[UserAccount(reqs[r].uid, reqs[r].cur)] + reqs[r].charge
<1>0. /\ BooksOK /\ RequestsOK /\ reqs[r] \in RequestType /\ RequestOK(reqs[r])
      /\ reqs[r].stage \in Charged
  BY InvParts DEF RequestsOK, PaymentRefunded, Charged
<1>1. PICK u \in Users, c \in Currency, btc \in Int, charge \in Int :
        /\ u = reqs[r].uid /\ c = reqs[r].cur /\ btc = reqs[r].btc /\ charge = reqs[r].charge
        /\ charge = Exchange(reqs[r].btc, reqs[r].rate) /\ (c = BTC => charge = btc)
  BY <1>0 DEF RequestOK, RequestType
<1>2. /\ UserAccount(u, c) \in Accounts /\ BankLiability \in Accounts
      /\ DealerAccount(c) \in Accounts /\ DealerAccount(BTC) \in Accounts
      /\ BankLiability # UserAccount(u, c) /\ DealerAccount(c) # UserAccount(u, c)
      /\ DealerAccount(BTC) # UserAccount(u, c) /\ BankLiability # DealerAccount(BTC)
  BY AccountFacts DEF Currency
<1>3. ASSUME NEW l \in [Accounts -> Int], NEW out \in Accounts, NEW in \in Accounts, out # in,
             NEW x \in Int
      PROVE  /\ Post(l, out, in, x) \in [Accounts -> Int]
             /\ Post(l, out, in, x)[in] = l[in] + x
             /\ \A a \in Accounts \ {out, in} : Post(l, out, in, x)[a] = l[a]
  BY <1>3, SMT DEF Post
<1>4. ledger \in [Accounts -> Int]
  BY <1>0 DEF BooksOK
<1>5. CASE c = BTC
  <2>1. ledger' = Post(ledger, BankLiability, UserAccount(u, c), charge)
    BY <1>1, <1>5 DEF PaymentRefunded, Refund, Commit
  <2> QED
    BY <1>1, <1>2, <1>3, <1>4, <2>1, SMTT(20)
<1>6. CASE c # BTC
  <2>1. PICK p : p = Post(ledger, BankLiability, DealerAccount(BTC), btc)
    OBVIOUS
  <2>2. p \in [Accounts -> Int] /\ p[UserAccount(u, c)] = ledger[UserAccount(u, c)]
    <3>1. UserAccount(u, c) \in Accounts \ {BankLiability, DealerAccount(BTC)}
      BY <1>2
    <3>2. /\ Post(ledger, BankLiability, DealerAccount(BTC), btc) \in [Accounts -> Int]
          /\ \A a \in Accounts \ {BankLiability, DealerAccount(BTC)} :
               Post(ledger, BankLiability, DealerAccount(BTC), btc)[a] = ledger[a]
      <4>1. PICK out \in Accounts, in \in Accounts : out = BankLiability /\ in = DealerAccount(BTC)
        BY <1>2
      <4>2. /\ Post(ledger, out, in, btc) \in [Accounts -> Int]
            /\ \A a \in Accounts \ {out, in} : Post(ledger, out, in, btc)[a] = ledger[a]
        BY <1>4, SMTT(20) DEF Post
      <4> QED
        BY <4>1, <4>2
    <3> QED
      BY <2>1, <3>1, <3>2
  <2>3. ledger' = Post(p, DealerAccount(c), UserAccount(u, c), charge)
    BY <1>1, <1>6, <2>1 DEF PaymentRefunded, Refund, RefundFiat, BuyFiat, Commit
  <2> QED
    BY <1>1, <1>2, <1>3, <2>2, <2>3, SMTT(20)
<1> QED
  BY <1>5, <1>6

\* A failed payment gives the payer back exactly what it took, for every rate
\* and amount: the refund rounds the same way as the debit did.
THEOREM BankRefundsExactly == Spec => RefundIsExact
<1>1. Inv /\ [Next]_vars =>
        [\A r \in RequestIds :
           LET q == reqs[r] IN
           q.stage = "failed" /\ reqs'[r].stage = "done" =>
             ledger'[UserAccount(q.uid, q.cur)] = ledger[UserAccount(q.uid, q.cur)] + q.charge]_vars
  BY EndedIsRefunded, RefundAdds
<1> QED
  BY <1>1, BankInvariant, PTL DEF Spec, RefundIsExact
=============================================================================
