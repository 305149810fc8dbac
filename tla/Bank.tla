-------------------------------- MODULE Bank --------------------------------
(***************************************************************************)
(* The bank engine (src/bank/src/bank_engine.rs): one thread that takes a  *)
(* message at a time and handles it to the end, so a handler is an action. *)
(* What happens between two handlers is concurrent with it: requests wait  *)
(* at the dealer for a rate, tokio tasks wait for LND, LND reports settled *)
(* invoices, and the process may be restarted.                             *)
(*                                                                         *)
(* External to the bank, and modelled by how it uses them: the dealer      *)
(* (answers with any rate of Rates, or none), the LND node (settles and    *)
(* pays invoices), PostgreSQL (the accounts and invoices tables).          *)
(*                                                                         *)
(* Faults names what may go wrong:                                         *)
(*   "row"      no connection, or the row of a make_tx is not inserted     *)
(*   "summary"  make_summary_tx fails (its id is the time in milliseconds) *)
(*   "save"     an update_account or Invoice::update write is lost         *)
(*   "reply"    LND pays, but the call to it returns an error              *)
(*   "event"    the settlement of an invoice is not reported               *)
(*   "restart"  the process stops between two handlers and starts again    *)
(* Services names the requests that the environment sends.                 *)
(***************************************************************************)
EXTENDS Ledger

CONSTANTS Amounts,        \* the amounts that requests carry
          Rates,          \* the rates that the dealer may quote
          Sat,            \* how many units of the ledger make a satoshi
          MaxFee,         \* bound on a fee, in satoshi
          NumInvoices,    \* how many invoices the node may issue
          NumRequests,    \* how many requests may leave the engine's thread
          NumExternal,    \* the invoices of other nodes are 1 .. NumExternal
          ExternalValue,  \* their amounts, parts of a satoshi included
          InitFunds,      \* BTC and fiat balances of the users at the start
          InitDealer,     \* BTC balance of the dealer at the start
          Faults, Services

InvoiceIds == 1 .. NumInvoices
RequestIds == 1 .. NumRequests
ExternalIds == 1 .. NumExternal

\* Amounts are not negative, a rate is a pair of positive numbers, and the
\* bank starts with funded accounts.
ASSUME BankAssumption ==
  /\ Amounts \subseteq Nat
  /\ Rates \subseteq (Nat \ {0}) \X (Nat \ {0})
  /\ Sat \in Nat \ {0} /\ MaxFee \in Nat
  /\ NumInvoices \in Nat /\ NumRequests \in Nat /\ NumExternal \in Nat
  /\ ExternalValue \in [ExternalIds -> Nat \ {0}]
  /\ InitFunds \in [Users -> [Currency -> Nat]]
  /\ InitDealer \in Nat

VARIABLES
  ledger,      \* BankEngine.ledger: the balance of every account
  stored,      \* the balances in the accounts table
  rows,        \* the users with a row in the accounts table
  known,       \* the keys of ledger.user_accounts
  available,   \* BankEngine.available_currencies
  invoices,    \* invoices table and LND's view of the node's own invoices
  reqs,        \* requests that left the engine's thread and are not over
  extSettled,  \* invoices of other nodes whose row is marked settled
  extPaid,     \* invoices of other nodes that LND has paid
  node,        \* BTC that the LND node holds
  dealerGap    \* BTC paid for the dealer and not booked

books == <<ledger, stored, rows>>
lnd == <<extPaid, node, dealerGap>>
vars == <<ledger, stored, rows, known, available, invoices, reqs,
          extSettled, extPaid, node, dealerGap>>

(***************************************************************************)
(* Records.  An invoice credits the currency `into`: its own currency if   *)
(* that is fiat, the target account's otherwise.  `received` is what LND   *)
(* received, `credited` what was booked for it, `event` a settlement that  *)
(* waits in the engine's queue.  A request keeps in `btc` the BTC booked   *)
(* out of the bank for it, in `sent` the BTC that left the node, and in    *)
(* `charge` what the user paid in their currency.                          *)
(***************************************************************************)
NoInvoice == [state |-> "none", owner |-> 0, value |-> 0, into |-> BTC,
              reference |-> "", settled |-> FALSE, event |-> FALSE,
              received |-> 0, credited |-> 0]

NoRequest == [kind |-> "none", stage |-> "free", uid |-> 0, cur |-> BTC,
              to |-> BTC, amount |-> 0, own |-> FALSE, inv |-> 0,
              rate |-> UnitRate, btc |-> 0, sent |-> 0, charge |-> 0]

Stages == {"free", "dealer", "lnurl", "loopback", "inflight", "paid",
           "failed", "orphan", "stranded", "done"}
Kinds == {"none", "invoice", "deposit", "payment", "lnurl", "swap"}

\* The ledger counts Bitcoin in units of 1e-12, LND in thousandths of a satoshi,
\* and what passes between them is cut to whole satoshi: the amount of an
\* invoice when it is debited, and the fee when LND reports it.
InSats(units) == units - (units % Sat)

\* An amount rounded up to whole satoshi.
SatsUp(units) == InSats(units + Sat - 1)

\* The fees that a payment may be estimated at: whole satoshi, at least one.
FeeLimits == { Sat * n : n \in 1 .. MaxFee }

\* The fees that LND may pay for the dealer.
DealerFees == 0 .. Sat * MaxFee

\* The outcomes of a call, or of several in a row, that meet one of the faults
\* or none.
Attempt(faults) == IF faults \cap Faults # {} THEN BOOLEAN ELSE {TRUE}

FreshRequest(r) ==
  reqs[r].stage = "free" /\ \A q \in RequestIds : q < r => reqs[q].stage # "free"
FreshInvoice(i) ==
  invoices[i].state = "none" /\ \A j \in InvoiceIds : j < i => invoices[j].state # "none"

\* A request that is over leaves only a difference between books and node.
Over(gap) == [NoRequest EXCEPT !.stage = "done", !.btc = gap]
Close(r) == reqs' = [reqs EXCEPT ![r] = Over(reqs[r].btc - reqs[r].sent)]

(***************************************************************************)
(* insert_into_ledger and update_account: the changed accounts go back     *)
(* into the ledger, then each is written to the accounts table on its own. *)
(* A write that fails is logged and forgotten.                             *)
(***************************************************************************)
Commit(l, changed) ==
  /\ ledger' = l
  /\ \E lost \in (IF "save" \in Faults THEN SUBSET changed ELSE {{}}) :
       /\ stored' = [a \in Accounts |-> IF a \in changed \ lost THEN l[a] ELSE stored[a]]
       /\ rows' = rows \cup { u \in Users : \E a \in changed \ lost : a[1] = u }

\* The start-up state: funded users, the dealer's accounts and the liability
\* that balances them, a node that holds the BTC the bank owes.
InitLedger ==
  [a \in Accounts |->
     IF a[1] \in Users THEN InitFunds[a[1]][a[2]]
     ELSE IF a = DealerAccount(BTC) THEN InitDealer
     ELSE IF a = BankLiability
       THEN -(SumTo([u \in Users |-> InitFunds[u][BTC]], NumUsers) + InitDealer)
     ELSE IF a = DealerExternal THEN 0
     ELSE -SumTo([u \in Users |-> InitFunds[u][a[2]]], NumUsers)]

Funded == { u \in Users : \E c \in Currency : InitFunds[u][c] > 0 }

Init ==
  /\ ledger = InitLedger /\ stored = InitLedger
  /\ rows = Funded /\ known = Funded /\ available = {BTC}
  /\ invoices = [i \in InvoiceIds |-> NoInvoice]
  /\ reqs = [r \in RequestIds |-> NoRequest]
  /\ extSettled = {} /\ extPaid = {}
  /\ node = -InitLedger[BankLiability] /\ dealerGap = 0

-----------------------------------------------------------------------------
(***************************************************************************)
(* Receiving: invoices and deposits.                                       *)
(***************************************************************************)

\* create_invoice: LND issues the invoice, its row is inserted.
NewInvoice(i, owner, value, into, reference) ==
  /\ FreshInvoice(i)
  /\ invoices' = [invoices EXCEPT ![i] =
       [NoInvoice EXCEPT !.state = "open", !.owner = owner, !.value = value,
                         !.into = into, !.reference = reference]]

\* The deposit limiter passed: the user is known from here on, whatever follows.
InvoiceRequest(u, cur, amount, into) ==
  /\ "invoice" \in Services
  /\ known' = known \cup {u}
  /\ UNCHANGED <<books, available, extSettled, lnd>>
  /\ \/ /\ cur = BTC
        /\ \E i \in InvoiceIds : NewInvoice(i, u, InSats(amount), into, "")
        /\ UNCHANGED reqs
     \/ /\ cur # BTC
        /\ \E r \in RequestIds :
             /\ FreshRequest(r)
             /\ reqs' = [reqs EXCEPT ![r] =
                  [NoRequest EXCEPT !.kind = "invoice", !.stage = "dealer",
                                    !.uid = u, !.cur = cur, !.amount = amount]]
        /\ UNCHANGED invoices
     \/ UNCHANGED <<invoices, reqs>>   \* withdrawal_only, no connection, no account

\* The dealer answered with a rate; the invoice is issued for the amount in
\* BTC, rounded up to whole satoshi, and credits the fiat currency, unless LND
\* issues none.
InvoiceResponse(r, rate) ==
  /\ reqs[r].kind = "invoice" /\ reqs[r].stage = "dealer"
  /\ known' = known \cup {reqs[r].uid}
  /\ \/ \E i \in InvoiceIds :
          NewInvoice(i, reqs[r].uid, SatsUp(Exchange(reqs[r].amount, rate)), reqs[r].cur, "")
     \/ UNCHANGED invoices
  /\ Close(r)
  /\ UNCHANGED <<books, available, extSettled, lnd>>

\* Someone pays one of the node's invoices (at least its amount).  LND
\* settles it and reports it, unless the subscription misses the event.
ExternalPays(i, amount) ==
  /\ invoices[i].state = "open"
  /\ amount > 0 /\ amount >= invoices[i].value
  /\ \E reported \in Attempt({"event"}) :
       invoices' = [invoices EXCEPT ![i].state = "settled", ![i].received = amount,
                                    ![i].event = reported]
  /\ node' = node + amount
  /\ UNCHANGED <<books, known, available, reqs, extSettled, extPaid, dealerGap>>

\* Mutant: the settlement stays in the queue.
EventTaken_Kept(i) == invoices

\* A settlement is read from the queue once.
EventTaken(i) == [invoices EXCEPT ![i].event = FALSE]

\* Booking a deposit of the invoice's amount: `marked` tells whether the row
\* is marked settled afterwards (the summary row and the update of the invoice
\* come after the booking).
Credited(i, marked) ==
  invoices' = [invoices EXCEPT ![i].event = FALSE, ![i].credited = @ + invoices[i].value,
                               ![i].settled = @ \/ marked]

\* Mutant: what was received is booked, not the amount of the invoice.
DepositAmount_Received(i) == invoices[i].received

\* The amount that a deposit books: the one of the invoice's row.
DepositAmount(i) == invoices[i].value

\* Mutant: an invoice that a user of the bank has paid is not credited again.
Creditable_Unsettled(i) == invoices[i].value > 0 /\ ~invoices[i].settled

\* make_tx books the deposit.
Creditable(i) == Postable(DepositAmount(i))

DepositBtc(i) ==
  LET u == invoices[i].owner
      v == DepositAmount(i)
      accts == {BankLiability, UserAccount(u, BTC)}
  IN /\ known' = known \cup {u}
     /\ UNCHANGED reqs
     /\ \E ok \in Attempt({"row"}) :
          IF ok /\ Creditable(i)
          THEN /\ Commit(Post(ledger, BankLiability, UserAccount(u, BTC), v), accts)
               /\ \E marked \in Attempt({"summary", "save"}) : Credited(i, marked)
          ELSE /\ invoices' = EventTaken(i)
               /\ UNCHANGED books

\* A deposit into a fiat account first needs a rate of the dealer.
DepositFiat(i) ==
  /\ \E r \in RequestIds :
       /\ FreshRequest(r)
       /\ reqs' = [reqs EXCEPT ![r] =
            [NoRequest EXCEPT !.kind = "deposit", !.stage = "dealer",
                              !.uid = invoices[i].owner, !.cur = invoices[i].into,
                              !.amount = invoices[i].value, !.inv = i]]
  /\ invoices' = EventTaken(i)
  /\ UNCHANGED <<books, known>>

\* The dealer's own invoices: a settlement comes from its account at the
\* exchange, another deposit from outside.  An error of make_tx is logged
\* and the accounts, changed or not, are stored; the row stays unsettled.
handle_dealer_deposit(i) ==
  LET from == IF invoices[i].reference = "KolliderSettlement"
              THEN DealerExternal ELSE BankLiability
      posted == Post(ledger, from, DealerAccount(BTC), invoices[i].value)
  IN /\ \E ok \in Attempt({"row"}) :
          IF ok /\ Postable(invoices[i].value)
          THEN /\ Commit(posted, {from, DealerAccount(BTC)})
               /\ Credited(i, FALSE)
          ELSE /\ Commit(ledger, {from, DealerAccount(BTC)})
               /\ invoices' = EventTaken(i)
     /\ UNCHANGED <<known, reqs>>

Deposit(i) ==
  /\ invoices[i].event
  /\ UNCHANGED <<available, extSettled, lnd>>
  /\ IF invoices[i].owner = DEALER_UID THEN handle_dealer_deposit(i)
     ELSE IF invoices[i].into # BTC THEN DepositFiat(i)
     ELSE DepositBtc(i)

\* No connection: the event is gone.
DepositDropped(i) ==
  /\ invoices[i].event /\ "row" \in Faults
  /\ invoices' = EventTaken(i)
  /\ UNCHANGED <<books, known, available, reqs, extSettled, lnd>>

\* Mutant: the clone of the dealer's fiat account is not put back.
BuyFiat_CloneLost(l, u, c, btc, fiat) ==
  [Post(l, BankLiability, DealerAccount(BTC), btc) EXCEPT ![UserAccount(u, c)] = @ + fiat]

\* BTC that came in goes to the dealer, fiat from the dealer to the user.
BuyFiat(l, u, c, btc, fiat) ==
  Post(Post(l, BankLiability, DealerAccount(BTC), btc),
       DealerAccount(c), UserAccount(u, c), fiat)

\* Mutant: the dealer's BTC account is not written to the accounts table.
FiatAccounts_DealerUnsaved(u, c) == {BankLiability, DealerAccount(c), UserAccount(u, c)}

\* The accounts that a fiat deposit, payment or refund changes and saves.
FiatAccounts(u, c) ==
  {BankLiability, DealerAccount(BTC), DealerAccount(c), UserAccount(u, c)}

\* The rate for a fiat deposit.
FiatDepositResponse(r, rate) ==
  LET u == reqs[r].uid
      c == reqs[r].cur
      v == reqs[r].amount
      fiat == Exchange(v, rate)
  IN /\ reqs[r].kind = "deposit" /\ reqs[r].stage = "dealer"
     /\ known' = known \cup {u}
     /\ \E ok \in Attempt({"row"}) :
          IF ok /\ Postable(v) /\ Postable(fiat)
          THEN /\ Commit(BuyFiat(ledger, u, c, v, fiat), FiatAccounts(u, c))
               /\ \E marked \in Attempt({"summary", "save"}) : Credited(reqs[r].inv, marked)
          ELSE UNCHANGED <<books, invoices>>
     /\ Close(r)
     /\ UNCHANGED <<available, extSettled, lnd>>

\* The dealer has no rate (a swap, an invoice or a deposit is answered with an
\* error and given up, a payment or withdrawal is not answered at all), or the
\* checks of the handler that takes the answer refuse the request.
DealerRefuses(r) ==
  /\ reqs[r].stage = "dealer"
  /\ Close(r)
  /\ UNCHANGED <<books, known, available, invoices, extSettled, lnd>>

-----------------------------------------------------------------------------
(***************************************************************************)
(* Sending: transfers by user name, invoices of the bank's own users, and  *)
(* invoices of other nodes.                                                *)
(***************************************************************************)

\* The conditions under which make_internal_tx books: a row or the summary row
\* that is not written undoes the transfer.
InternalTxBooks(u, v, c, amount, ok) ==
  /\ ok /\ u # v /\ u \in known
  /\ ledger[UserAccount(u, c)] >= amount
  /\ Postable(amount)

make_internal_tx(u, v, c, amount, ok) ==
  /\ known' = IF u # v /\ u \in known THEN known \cup {v} ELSE known
  /\ IF InternalTxBooks(u, v, c, amount, ok)
     THEN Commit(Post(ledger, UserAccount(u, c), UserAccount(v, c), amount),
                 {UserAccount(u, c), UserAccount(v, c)})
     ELSE UNCHANGED books

\* PaymentRequest with the name of a user of this bank.
PaymentByName(u, v, c, amount) ==
  /\ "transfer" \in Services
  /\ u \in known /\ amount > 0
  /\ \E ok \in Attempt({"row", "summary"}) : make_internal_tx(u, v, c, amount, ok)
  /\ UNCHANGED <<available, invoices, reqs, extSettled, lnd>>

\* A payment in fiat waits at the dealer for a rate before anything else.
PaymentNeedsRate(r, u, c, own, inv) ==
  /\ c # BTC
  /\ FreshRequest(r)
  /\ reqs' = [reqs EXCEPT ![r] =
       [NoRequest EXCEPT !.kind = "payment", !.stage = "dealer", !.uid = u,
                         !.cur = c, !.own = own, !.inv = inv]]
  /\ UNCHANGED <<books, known, invoices>>

\* Mutant: the fee is not part of what the payer must hold.
Affordable_NoFee(u, c, value, fee, rate) ==
  ledger[UserAccount(u, c)] >= Exchange(value, rate)

\* What the payer must hold: the amount and the estimated fee, in their
\* currency.  A zero-amount invoice and one that is settled are refused.
Affordable(u, c, value, fee, rate) ==
  ledger[UserAccount(u, c)] >= Exchange(value + fee, rate)

\* The invoice of another user of this bank: an internal transfer of its
\* amount (no fee) in the payer's currency.
PayOwn(u, c, i, rate) ==
  LET inv == invoices[i]
      amount == Exchange(inv.value, rate)
  IN /\ inv.state # "none" /\ inv.owner \in Users /\ inv.value > 0
     /\ inv.owner # u /\ ~inv.settled
     /\ \E fee \in FeeLimits : Affordable(u, c, inv.value, fee, rate)
     /\ \E ok \in Attempt({"row", "summary"}), written \in Attempt({"save"}) :
          /\ make_internal_tx(u, inv.owner, c, amount, ok)
          /\ invoices' = [invoices EXCEPT ![i].settled =
               @ \/ (written /\ InternalTxBooks(u, inv.owner, c, amount, ok))]

\* The debit of a payment that leaves the bank, before it is sent.
Debit(u, c, total, charge) ==
  IF c = BTC
  THEN Commit(Post(ledger, UserAccount(u, BTC), BankLiability, charge),
              {UserAccount(u, BTC), BankLiability})
  ELSE Commit(Post(Post(ledger, UserAccount(u, c), DealerAccount(c), charge),
                   DealerAccount(BTC), BankLiability, total),
              FiatAccounts(u, c))

\* The amount of another node's invoice as the bank books it: the thousandths
\* of a satoshi are cut off.
AmountInSats(e) == InSats(ExternalValue[e])

\* The invoice of another node: the amount in whole satoshi and the estimated
\* fee are debited, then a task is spawned that pays it.  When the summary row
\* cannot be written the handler returns in between.
PayExternal(r, u, c, e, rate) ==
  \E fee \in FeeLimits :
    LET total == AmountInSats(e) + fee
        charge == Exchange(total, rate)
    IN /\ e \notin extSettled
       /\ Affordable(u, c, AmountInSats(e), fee, rate)
       /\ Postable(charge)
       /\ Debit(u, c, total, charge)
       /\ \E summary \in Attempt({"summary"}) :
            reqs' = [reqs EXCEPT ![r] =
              [NoRequest EXCEPT !.kind = "payment",
                 !.stage = IF summary THEN "inflight" ELSE "stranded",
                 !.uid = u, !.cur = c, !.inv = e, !.rate = rate,
                 !.btc = total, !.charge = charge]]
       /\ UNCHANGED <<known, invoices>>

\* PaymentRequest with an invoice, from the API.  A refused one changes nothing.
PaymentRequest(u, c, own, inv) ==
  /\ "payment" \in Services
  /\ u \in known
  /\ \/ \E r \in RequestIds : PaymentNeedsRate(r, u, c, own, inv)
     \/ c = BTC /\ own /\ PayOwn(u, BTC, inv, UnitRate) /\ UNCHANGED reqs
     \/ c = BTC /\ ~own /\ \E r \in RequestIds :
          FreshRequest(r) /\ PayExternal(r, u, BTC, inv, UnitRate)
  /\ UNCHANGED <<available, extSettled, lnd>>

\* The same handler for a request that comes back: from the dealer with a
\* rate, or from the loopback channel with the invoice of a withdrawal.
PaymentResumes(r, rate) ==
  LET q == reqs[r]
  IN /\ \/ q.kind = "payment" /\ q.stage = "dealer"
        \/ q.stage = "loopback" /\ rate = q.rate
     /\ q.uid \in known
     /\ \/ q.own /\ PayOwn(q.uid, q.cur, q.inv, rate) /\ Close(r)
        \/ ~q.own /\ PayExternal(r, q.uid, q.cur, q.inv, rate)
     /\ UNCHANGED <<available, extSettled, lnd>>

\* It is refused on its way back: request limit, funds, settled meanwhile.
PaymentRefused(r) ==
  /\ reqs[r].stage = "loopback"
  /\ Close(r)
  /\ UNCHANGED <<books, known, available, invoices, extSettled, lnd>>

-----------------------------------------------------------------------------
(***************************************************************************)
(* The payment task, LND, and the result.                                  *)
(***************************************************************************)

\* LND pays the whole invoice, at most once and within the fee limit.  The task
\* reports it, or an error when the answer of LND is lost.  A payment whose
\* task died with the process is paid just the same.
LndPays(r) ==
  LET q == reqs[r]
      value == ExternalValue[q.inv]
  IN /\ q.stage \in {"inflight", "orphan"} /\ q.sent = 0
     /\ q.inv \notin extPaid
     /\ \E fee \in 0 .. (q.btc - AmountInSats(q.inv)), answered \in Attempt({"reply"}) :
          /\ node >= value + fee
          /\ node' = node - (value + fee)
          /\ reqs' = [reqs EXCEPT ![r].sent = value + fee,
               ![r].stage = IF q.stage = "orphan" THEN "orphan"
                            ELSE IF answered THEN "paid" ELSE "failed"]
     /\ extPaid' = extPaid \cup {q.inv}
     /\ UNCHANGED <<books, known, available, invoices, extSettled, dealerGap>>

\* Mutant: the task ends on an error of LND without sending a result.
LndFails_Silent(r) ==
  /\ reqs[r].stage = "inflight"
  /\ reqs' = [reqs EXCEPT ![r].stage = "stranded"]
  /\ UNCHANGED <<books, known, available, invoices, extSettled, lnd>>

\* No route, not enough channel balance, or already paid.
LndFails(r) ==
  /\ reqs[r].stage = "inflight"
  /\ reqs' = [reqs EXCEPT ![r].stage = "failed"]
  /\ UNCHANGED <<books, known, available, invoices, extSettled, lnd>>

\* Mutant: the part of the fee that was not needed is forgotten.
ExcessFees_Forgotten(q) == 0

\* What LND's answer says was paid: the amount and the fee, both cut to whole
\* satoshi.
PaidInSats(q) == AmountInSats(q.inv) + InSats(q.sent - ExternalValue[q.inv])

\* The fee that was debited and, by LND's answer, not needed.
ExcessFees(q) == q.btc - PaidInSats(q)

\* Success: the part of the fee that was not needed goes to the dealer, and
\* the invoice's row is marked settled.  The parts of a satoshi that LND paid
\* and did not report are booked nowhere.
PaymentSucceeded(r) ==
  LET q == reqs[r]
      excess == ExcessFees(q)
  IN /\ q.stage = "paid"
     /\ IF excess > 0
        THEN Commit(Post(ledger, BankLiability, DealerAccount(BTC), excess),
                    {BankLiability, DealerAccount(BTC)})
        ELSE UNCHANGED books
     /\ reqs' = [reqs EXCEPT ![r] = Over(PaidInSats(q) - q.sent)]
     /\ \E written \in Attempt({"save"}) :
          extSettled' = IF written THEN extSettled \cup {q.inv} ELSE extSettled

\* Mutant: the amount of the invoice is refunded, the fee is not.
Refund_FeeKept(q) == AmountInSats(q.inv)

\* The BTC that a failed payment gives back.
Refund(q) == q.btc

\* Mutant: the refund takes the amount in BTC for the amount in fiat.
RefundFiat_Unconverted(q) == Refund(q)

\* The same in the payer's currency, at the rate of the debit.
RefundFiat(q) == Exchange(Refund(q), q.rate)

\* Failure: the debit is reversed, at the rate it was made at.
PaymentRefunded(r) ==
  LET q == reqs[r]
  IN /\ q.stage = "failed"
     /\ IF q.cur = BTC
        THEN Commit(Post(ledger, BankLiability, UserAccount(q.uid, BTC), Refund(q)),
                    {BankLiability, UserAccount(q.uid, BTC)})
        ELSE Commit(BuyFiat(ledger, q.uid, q.cur, Refund(q), RefundFiat(q)),
                    FiatAccounts(q.uid, q.cur))
     /\ reqs' = [reqs EXCEPT ![r] = Over(-q.sent)]
     /\ UNCHANGED extSettled

\* Bank::PaymentResult.  Without a connection, or when a row is not inserted,
\* the result is dropped.
PaymentResult(r) ==
  /\ \/ PaymentSucceeded(r)
     \/ PaymentRefunded(r)
     \/ /\ "row" \in Faults /\ reqs[r].stage \in {"paid", "failed"}
        /\ reqs' = [reqs EXCEPT ![r].stage = "stranded"]
        /\ UNCHANGED <<books, extSettled>>
  /\ UNCHANGED <<known, available, invoices, lnd>>

-----------------------------------------------------------------------------
(***************************************************************************)
(* Swaps, LNURL withdrawals, the dealer's own invoices, and the rest.      *)
(***************************************************************************)
SwapRequest(u, from, to, amount) ==
  /\ "swap" \in Services
  /\ \E r \in RequestIds :
       /\ FreshRequest(r)
       /\ reqs' = [reqs EXCEPT ![r] =
            [NoRequest EXCEPT !.kind = "swap", !.stage = "dealer", !.uid = u,
                              !.cur = from, !.to = to, !.amount = amount]]
  /\ UNCHANGED <<books, known, available, invoices, extSettled, lnd>>

\* Mutant: the balance is not checked when the quote arrives.
Swappable_Unchecked(q) == q.to \in available /\ q.uid \in known /\ q.cur # q.to

\* The checks of a swap, on the balances of the time the quote arrives.
Swappable(q) ==
  /\ q.to \in available /\ q.uid \in known /\ q.cur # q.to
  /\ ledger[UserAccount(q.uid, q.cur)] >= q.amount

\* The other side of a trade is the dealer.
Counterparty(c) == DealerAccount(c)

\* The dealer quoted: the user sells to the dealer, then buys from it.
SwapResponse(r, rate) ==
  LET q == reqs[r]
      bought == Exchange(q.amount, rate)
      legs == Post(Post(ledger, UserAccount(q.uid, q.cur), Counterparty(q.cur), q.amount),
                   Counterparty(q.to), UserAccount(q.uid, q.to), bought)
  IN /\ q.kind = "swap" /\ q.stage = "dealer"
     /\ Swappable(q)
     /\ Postable(q.amount) /\ Postable(bought)
     /\ Commit(legs, {UserAccount(q.uid, q.cur), UserAccount(q.uid, q.to),
                      Counterparty(q.cur), Counterparty(q.to)})
     /\ Close(r)
     /\ UNCHANGED <<known, available, invoices, extSettled, lnd>>

\* A withdrawal is checked against the balance, and kept under its id; one in
\* fiat is kept with the rate of its creation.
CreateLnurlWithdrawal(u, c, amount) ==
  /\ "lnurl" \in Services
  /\ amount > 0 /\ u \in known
  /\ c = BTC => ledger[UserAccount(u, BTC)] >= amount
  /\ \E r \in RequestIds :
       /\ FreshRequest(r)
       /\ reqs' = [reqs EXCEPT ![r] =
            [NoRequest EXCEPT !.kind = "lnurl", !.uid = u, !.cur = c, !.amount = amount,
                              !.stage = IF c = BTC THEN "lnurl" ELSE "dealer"]]
  /\ UNCHANGED <<books, known, available, invoices, extSettled, lnd>>

LnurlQuoted(r, rate) ==
  /\ reqs[r].kind = "lnurl" /\ reqs[r].stage = "dealer"
  /\ reqs[r].uid \in known
  /\ ledger[UserAccount(reqs[r].uid, reqs[r].cur)] >= reqs[r].amount
  /\ reqs' = [reqs EXCEPT ![r].stage = "lnurl", ![r].rate = rate]
  /\ UNCHANGED <<books, known, available, invoices, extSettled, lnd>>

\* The withdrawal is taken out of the map and sent to the engine itself as a
\* payment of the invoice given.
PayLnurlWithdrawal(r, own, inv) ==
  /\ reqs[r].stage = "lnurl"
  /\ reqs' = [reqs EXCEPT ![r] = [@ EXCEPT !.stage = "loopback", !.own = own, !.inv = inv]]
  /\ UNCHANGED <<books, known, available, invoices, extSettled, lnd>>

\* process_dealer_invoice: LND pays for the dealer, inside the handler.  The
\* amount is booked, to the exchange or to the outside, the fee is not.
process_dealer_invoice(amount, fee, is_external) ==
  LET to == IF is_external THEN BankLiability ELSE DealerExternal
  IN /\ "dealer" \in Services
     /\ amount > 0 /\ node >= amount + fee
     /\ node' = node - (amount + fee)
     /\ \/ /\ Commit(Post(ledger, DealerAccount(BTC), to, amount), {DealerAccount(BTC), to})
           /\ dealerGap' = dealerGap + fee
        \/ /\ \/ "row" \in Faults      \* paid, and the booking fails
              \/ "reply" \in Faults    \* paid, and the answer is lost
           /\ dealerGap' = dealerGap + amount + fee
           /\ UNCHANGED books
     /\ UNCHANGED <<known, available, invoices, reqs, extSettled, extPaid>>

\* The dealer asks for an invoice to be paid from the exchange or outside.
process_create_invoice_request(amount, reference) ==
  /\ "dealer" \in Services
  /\ \E i \in InvoiceIds : NewInvoice(i, DEALER_UID, InSats(amount), BTC, reference)
  /\ UNCHANGED <<books, known, available, reqs, extSettled, lnd>>

\* Dealer::Health: the currencies on offer, none when it is down.
Health(currencies) ==
  /\ available' = currencies
  /\ UNCHANGED <<books, known, invoices, reqs, extSettled, lnd>>

\* GetBalances makes the user known.
GetBalances(u) ==
  /\ known' = known \cup {u}
  /\ UNCHANGED <<books, available, invoices, reqs, extSettled, lnd>>

\* Mutant: every payment without a result is taken for failed.
Lost_Refunded(q) == IF q.stage \in {"inflight", "paid"} THEN [q EXCEPT !.stage = "failed"]
                    ELSE IF q.stage \in {"lnurl", "loopback"} THEN Over(0)
                    ELSE q

\* What was only in memory is lost: tasks and their results, withdrawals.
Lost(q) == IF q.stage = "inflight" THEN [q EXCEPT !.stage = "orphan"]
           ELSE IF q.stage \in {"paid", "failed"} THEN [q EXCEPT !.stage = "stranded"]
           ELSE IF q.stage \in {"lnurl", "loopback"} THEN Over(0)
           ELSE q

\* The bank does not start when its accounts do not reconcile.
StartUpAudit == reconcile_ledger(stored)

\* The process stops and starts again: init_accounts loads the accounts table.
\* Settlements that waited in the queue are lost.
Restart ==
  /\ "restart" \in Faults
  /\ StartUpAudit
  /\ ledger' = stored /\ known' = rows /\ available' = {BTC}
  /\ reqs' = [r \in RequestIds |-> Lost(reqs[r])]
  /\ invoices' = [i \in InvoiceIds |-> [invoices[i] EXCEPT !.event = FALSE]]
  /\ UNCHANGED <<stored, rows, extSettled, lnd>>

-----------------------------------------------------------------------------
ApiRequest ==
  \/ \E u \in Users, c \in Currency, amount \in Amounts :
       \/ \E into \in Currency : InvoiceRequest(u, c, amount, into)
       \/ \E v \in Users : PaymentByName(u, v, c, amount)
       \/ \E to \in Currency : SwapRequest(u, c, to, amount)
       \/ CreateLnurlWithdrawal(u, c, amount)
  \/ \E u \in Users, c \in Currency :
       \/ \E i \in InvoiceIds : PaymentRequest(u, c, TRUE, i)
       \/ \E e \in ExternalIds : PaymentRequest(u, c, FALSE, e)
  \/ \E u \in Users : GetBalances(u)

DealerMessage ==
  \/ \E r \in RequestIds :
       \/ \E rate \in Rates :
            \/ InvoiceResponse(r, rate) \/ FiatDepositResponse(r, rate)
            \/ SwapResponse(r, rate) \/ LnurlQuoted(r, rate)
            \/ reqs[r].stage = "dealer" /\ PaymentResumes(r, rate)
       \/ DealerRefuses(r)
  \/ \E amount \in Amounts :
       \/ \E fee \in DealerFees, is_external \in BOOLEAN :
            process_dealer_invoice(amount, fee, is_external)
       \/ \E ref \in {"KolliderSettlement", "ExternalDeposit"} :
            process_create_invoice_request(amount, ref)
  \/ "health" \in Services /\ \E cs \in SUBSET Currency : Health(cs)

LndStep ==
  \/ \E i \in InvoiceIds, amount \in Amounts : ExternalPays(i, amount)
  \/ \E r \in RequestIds : LndPays(r) \/ LndFails(r)

EngineStep ==
  \/ \E i \in InvoiceIds : Deposit(i) \/ DepositDropped(i)
  \/ \E r \in RequestIds :
       \/ PaymentResult(r)
       \/ reqs[r].stage = "loopback" /\ PaymentResumes(r, reqs[r].rate)
       \/ PaymentRefused(r)

WalletStep ==
  \E r \in RequestIds :
    \/ \E i \in InvoiceIds : PayLnurlWithdrawal(r, TRUE, i)
    \/ \E e \in ExternalIds : PayLnurlWithdrawal(r, FALSE, e)

Next == ApiRequest \/ DealerMessage \/ LndStep \/ EngineStep \/ WalletStep \/ Restart

Spec == Init /\ [][Next]_vars

-----------------------------------------------------------------------------
(***************************************************************************)
(* Properties.                                                             *)
(***************************************************************************)
RateType == (Nat \ {0}) \X (Nat \ {0})

InvoiceType ==
  [state : {"none", "open", "settled"}, owner : Users \cup {0, DEALER_UID},
   value : Nat, into : Currency,
   reference : {"", "KolliderSettlement", "ExternalDeposit"},
   settled : BOOLEAN, event : BOOLEAN, received : Nat, credited : Nat]

RequestType ==
  [kind : Kinds, stage : Stages, uid : Users \cup {0}, cur : Currency,
   to : Currency, amount : Nat, own : BOOLEAN, inv : Nat, rate : RateType,
   btc : Int, sent : Nat, charge : Int]

\* Every variable keeps its type: balances are whole units, and each request
\* and invoice keeps the shape the handlers give it.
TypeOK ==
  /\ ledger \in [Accounts -> Int] /\ stored \in [Accounts -> Int]
  /\ rows \subseteq Users /\ known \subseteq Users /\ available \subseteq Currency
  /\ invoices \in [InvoiceIds -> InvoiceType]
  /\ reqs \in [RequestIds -> RequestType]
  /\ extSettled \subseteq ExternalIds /\ extPaid \subseteq ExternalIds
  /\ node \in Nat /\ dealerGap \in Nat

\* The audit of the main loop (reconcile_ledger, which shuts the bank down when
\* it fails) passes after every handler: no user is overdrawn, and the
\* postings of every handler cancel out in each currency.
Reconciled == reconcile_ledger(ledger)

\* A restart loses no booking: every handler writes each account it changed to
\* the accounts table, so with no failing write the table is the ledger.
StoredIsLedger == "save" \notin Faults => stored = ledger

RequestGap == [r \in RequestIds |-> reqs[r].btc - reqs[r].sent]
InvoiceGap == [i \in InvoiceIds |-> invoices[i].received - invoices[i].credited]

\* The books account for all Bitcoin of the node: what it holds differs from
\* what the ledger says is owed exactly by the payments under way or given up,
\* the parts of a satoshi that finished payments cost and nobody was charged,
\* the receipts not yet credited or given up, and what was paid for the dealer
\* and never booked.
BooksMatchNode ==
  "save" \notin Faults =>
    node + ledger[BankLiability] + ledger[DealerExternal] + dealerGap
      = SumTo(RequestGap, NumRequests) + SumTo(InvoiceGap, NumInvoices)

\* The most that a payment may cost the node beyond what is charged for it: less
\* than a satoshi of the amount, and less than one of the fee.
Dust == [r \in RequestIds |-> IF RequestGap[r] < 0 THEN 2 * (Sat - 1) ELSE 0]

\* As long as every answer of LND arrives and every account is saved, the node
\* holds the BTC of all users and of the dealer, whatever is dropped on the way,
\* up to fees paid for the dealer, which no handler books, and less than two
\* satoshi for each payment that was charged less than it cost.
FullyBacked ==
  "save" \notin Faults /\ "reply" \notin Faults =>
    node + dealerGap + SumTo(Dust, NumRequests)
      >= SumTo([u \in Users |-> ledger[UserAccount(u, BTC)]], NumUsers)
           + ledger[DealerAccount(BTC)]

\* A failed payment gives the payer back exactly what it took, in the payer's
\* currency: the refund is converted again at the rate of the debit.
RefundIsExact ==
  [][\A r \in RequestIds :
       LET q == reqs[r] IN
       q.stage = "failed" /\ reqs'[r].stage = "done" =>
         ledger'[UserAccount(q.uid, q.cur)] = ledger[UserAccount(q.uid, q.cur)] + q.charge]_vars

\* A payment is not accepted for an invoice that has already been paid.
PaidIsRefused ==
  [][\A r \in RequestIds :
       reqs[r].stage # "inflight" /\ reqs'[r].stage = "inflight"
         => reqs'[r].inv \notin extPaid]_vars

(***************************************************************************)
(* The inductive invariant behind Reconciled and BooksMatchNode: what the  *)
(* handlers rely on in the requests and invoices they find.                *)
(***************************************************************************)
Charged == {"inflight", "paid", "failed", "orphan", "stranded"}
Waiting == {"dealer", "lnurl", "loopback"}

RequestOK(q) ==
  /\ q.stage \in Charged =>
       /\ q.uid \in Users /\ q.inv \in ExternalIds
       /\ q.charge > 0 /\ q.charge = Exchange(q.btc, q.rate)
       /\ q.cur = BTC => q.charge = q.btc
       /\ q.btc > AmountInSats(q.inv) /\ q.sent < q.btc + Sat
       /\ q.sent > 0 => /\ q.sent >= ExternalValue[q.inv]
                        /\ q.sent - ExternalValue[q.inv] <= q.btc - AmountInSats(q.inv)
  /\ q.stage = "paid" => q.sent > 0
  /\ q.stage = "inflight" => q.sent = 0
  /\ q.stage \in Waiting =>
       /\ q.uid \in Users
       /\ q.kind \in {"payment", "swap", "invoice", "deposit", "lnurl"}
       /\ q.cur = BTC => q.rate = UnitRate
       /\ q.cur = BTC /\ q.stage = "dealer" => q.kind = "swap"
       /\ q.stage # "dealer" => q.kind = "lnurl"
       /\ q.kind = "payment" \/ q.stage = "loopback" =>
            q.inv \in IF q.own THEN InvoiceIds ELSE ExternalIds
  /\ q.stage \in Waiting \cup {"free"} => q.btc = 0 /\ q.sent = 0

InvoiceOK(v) ==
  /\ v.state = "none" => v = NoInvoice
  /\ v.state # "none" => v.owner \in Users \cup {DEALER_UID}
  /\ v.state # "settled" => v.received = 0 /\ v.credited = 0 /\ ~v.event

\* What was sent for a request was sent to pay its invoice.
SentIsPaid ==
  \A r \in RequestIds :
    reqs[r].stage \in Charged /\ reqs[r].sent > 0 => reqs[r].inv \in extPaid

\* A deposit that waits for a rate is the deposit of a settled invoice, with
\* its amount.
DepositIsSettled ==
  \A r \in RequestIds :
    LET q == reqs[r] IN
    q.kind = "deposit" =>
      /\ q.inv \in InvoiceIds
      /\ invoices[q.inv].state = "settled" /\ invoices[q.inv].value = q.amount

BooksOK ==
  /\ ledger \in [Accounts -> Int] /\ stored \in [Accounts -> Int]
  /\ rows \subseteq Users
  /\ Reconciled
  /\ StoredIsLedger

RequestsOK ==
  /\ reqs \in [RequestIds -> RequestType]
  /\ \A r \in RequestIds : RequestOK(reqs[r])

InvoicesOK ==
  /\ invoices \in [InvoiceIds -> InvoiceType]
  /\ \A i \in InvoiceIds : InvoiceOK(invoices[i])

ViewsOK ==
  /\ known \subseteq Users /\ available \subseteq Currency
  /\ extSettled \subseteq ExternalIds /\ extPaid \subseteq ExternalIds
  /\ node \in Nat /\ dealerGap \in Nat
  /\ extSettled \subseteq extPaid

\* The ledger balances and is what the accounts table has, and every request
\* and every invoice is as its stage says: the shape that the handlers pass on
\* to one another.
Inv == BooksOK /\ RequestsOK /\ InvoicesOK /\ ViewsOK /\ SentIsPaid /\ DepositIsSettled

-----------------------------------------------------------------------------
(***************************************************************************)
(* Liveness.  The main loop polls the channel of payment results and the   *)
(* channel of settled invoices in every iteration, and LND answers every   *)
(* payment, so these steps are taken when they stay possible.              *)
(***************************************************************************)
Fairness ==
  /\ \A r \in RequestIds : WF_vars(PaymentResult(r)) /\ WF_vars(LndPays(r) \/ LndFails(r))
  /\ \A i \in InvoiceIds : WF_vars(Deposit(i))

LiveSpec == Spec /\ Fairness

\* Every payment that was debited and sent comes to an end: it is settled, or
\* the payer is refunded.
PaymentsEnd ==
  \A r \in RequestIds : reqs[r].stage = "inflight" ~> reqs[r].stage = "done"

\* Every reported receipt of a BTC invoice of a user is credited.
DepositsCredited ==
  \A i \in InvoiceIds :
    invoices[i].event /\ invoices[i].owner \in Users /\ invoices[i].into = BTC
        /\ invoices[i].value > 0
      ~> invoices[i].credited = invoices[i].value
=============================================================================
