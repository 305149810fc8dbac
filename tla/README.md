# Verification of lndhubx

TLA+ models of lndhubx, the Lightning bank of Kollider: model-checked on small
instances with TLC and, for the bank, its main loop, the hedging dealer, the API's
messaging and the Nostr engine, proved with TLAPS for every instance.

## The system

Services that exchange messages over ZeroMQ and channels:

| part | source | role |
| --- | --- | --- |
| API | `api/`, `actix-ratelimit/` | HTTP routes; each sends one message to the bank and waits for the answer its filter accepts |
| bank | `bank/` | one thread, one message at a time; the ledger in memory, PostgreSQL behind it, payments in tokio tasks |
| LND connector | `lnd_connector/` | issues and pays invoices, reports settlements |
| dealer | `dealer/`, `kollider_hedging/`, `ws_client/` | quotes rates to the bank and hedges its fiat exposure at the Kollider exchange |
| Nostr engine | `nostr_engine/` | profile cache, zap receipts, private messages |
| cli | `cli/` | transactions of the operator |
| shared | `core_types/`, `msgs/`, `models/`, `utils/`, `xerror/` | types, messages, tables |

A request in a fiat currency leaves the bank's thread: the bank forwards it to
the dealer, which sends it back with a rate, and the bank runs the handler again
on the state of that moment.  A payment to another node leaves it twice: after
the debit, a task pays through LND and sends a `PaymentResult` back.  A deposit
arrives as an event of LND's invoice subscription, and takes the way over the
dealer when it is to be credited in fiat.  All of these, and restarts, interleave.

## Modules

| module | models | how |
| --- | --- | --- |
| `Sums` | totals | sum of a function on `1..n` by a recursive function |
| `Ledger` | `ledger.rs`, `accountant.rs`, `make_tx`, `Money`, `Rate` | accounts as owner, currency, type; a posting; an exchange that truncates; the audit |
| `Bank` | `bank_engine.rs`: the handlers of customers, the dealer and LND, with the start-up of `bank/src/lib.rs` | one action per handler |
| `Treasury` | `bank_engine.rs`: `process_make_tx`, `KarmaBalance`, `distribute_karma`, `init_accounts` | one operator per handler, on `Ledger`'s accounts, the insurance fund and the mirror of the karma |
| `BankLoop` | the loop and the channels of `bank/src/lib.rs`, `dca.rs` | one action per source of the loop; composes `Treasury` |
| `DealerQuotes` | the quoting half of `dealer_engine.rs`, `ConversionInfo` | order books and quotes as functions, the loops of `update_quotes` as recursive functions, one action per message |
| `Hedging` | `dealer/src/lib.rs`, the hedging half of `dealer_engine.rs`, `kollider_hedging` | one action per step of the two threads |
| `HedgingProofs` | | theorems |
| `MCHedging` + `Hedging*.cfg` | | instances for TLC |
| `ApiComms` | `api/src/comms.rs` and the routes that wait for an answer | one action per step of the route, the comms actor and the reader task |
| `ApiLimits` | `api/src/lib.rs::start` | a request passes `RateLimit` and then runs `create` of `CreationLimiter` or a payment of `RequestLimiter`, on one clock |
| `CreationLimiter` | `CreationLimiter`, `routes/auth.rs::create`, `routes/admin.rs` | one action per lock of the limiter |
| `RequestLimiter` | `bank_engine.rs::check_withdrawal_request_rate_limit` | the check at the head of `PaymentRequest`, on arrival and back from the dealer |
| `RateLimit` | `actix-ratelimit`: the middleware and the memory store | one action per message to the store |
| `ApiClock` | | the clock that `ApiComms` and `ApiLimits` share |
| `ApiProofs` | | theorems about both |
| `MCApiComms` + `Comms*.cfg`, `ApiLimits.cfg` | | instances for TLC |
| `NostrEngine` | `nostr_engine/`, `nostr_profiles.rs`, `nostr_profile_indexer_times.rs` | one action per event of the handler and step of the indexer |
| `LedgerLaws`, `LedgerProofs` | | the laws of sums, accounts, exchanges and postings; their proofs |
| `BankStepProofs`, `BankProofs` | | theorems: each handler, the invariant and the money; the results |
| `BankLoopProofs`, `NostrProofs`, `QuotesProofs` | | theorems |
| `MCBank` + `Bank*.cfg`, `MCBankLoop`, `MCDealerQuotes` + `Quotes.cfg`, `MCNostrEngine` + `Nostr.cfg` | | instances for TLC |

### State of `Bank`

| variable | code |
| --- | --- |
| `ledger` | `BankEngine.ledger`, balances by account |
| `stored`, `rows` | the `accounts` table: balances, and the users that have a row (only they are known after a restart) |
| `known` | the keys of `ledger.user_accounts` |
| `available` | `available_currencies` |
| `invoices` | the `invoices` table and LND's state of the node's own invoices; `event` is a settlement in the queue, `received` and `credited` follow the money |
| `reqs` | requests that are at the dealer, in `lnurl_withdrawal_requests`, in the loopback channel, or with LND |
| `extSettled`, `extPaid` | invoices of other nodes: marked in the table, paid by LND |
| `node` | the BTC that the node holds |
| `dealerGap` | BTC that left the node for the dealer and was not booked |

A request remembers the BTC booked for it (`btc`), the BTC sent for it (`sent`)
and the amount taken from the user in their currency (`charge`).  When it is over,
only the difference of books and node remains in its slot.  These fields, `received`,
`credited` and `dealerGap` exist in the model only, to state what the books owe.

A handler is one action, because the engine handles a message to the end.  A
request that is refused changes nothing and is not an action of its own, unless
the refusal changes state (`InvoiceRequest` makes the user known even then).
Handlers that the dealer's answer runs again (`PaymentRequest`,
`CreateLnurlWithdrawalRequest`) are split at the point where they forward the
request: `PaymentNeedsRate` and `PaymentResumes`, `CreateLnurlWithdrawal` and
`LnurlQuoted`.

External, and modelled from how the bank uses them: the dealer answers with any
rate of `Rates`, or none; LND pays an invoice at most once and within the fee
limit it is given; PostgreSQL keeps what was written.

`Faults` lists what may go wrong in a run:

| fault | code |
| --- | --- |
| `row` | no connection from the pool, or the row of a `make_tx` is refused |
| `summary` | `make_summary_tx` fails; its key is the time in milliseconds |
| `save` | a write of `update_account` or `Invoice::update` is lost (both only log) |
| `reply` | LND paid and the call returns an error |
| `event` | the subscription misses a settlement |
| `restart` | the process ends between two handlers and starts again |

### State of `Hedging`

The dealer process has two threads.  The websocket thread of `KolliderHedgingClient`
reads from and writes to the exchange and keeps a `State` under a mutex; the main loop
polls the bank's socket and the bounded channel from the websocket thread, and runs its
timers.

| variable | code |
| --- | --- |
| `state` | `State`: connected, authenticated, positions received and their values, symbols received |
| `ws` | websocket thread: running, or about to send `msg` on the channel, with or without the mutex; dead after a panic |
| `callback`, `sender` | the two channels between the threads, bounded and unbounded |
| `socket`, `wire`, `real` | the exchange: its side of the connection, what it has sent, the positions it holds |
| `pc`, `call`, `rest` | main loop: where it is, the client call it is in, the symbols of the risk check under way |
| `flags`, `bankState` | `has_received_positions` and its like; `last_bank_state` |
| `exposure`, `fromBank`, `health` | the bank's exposures, its messages to the dealer, the last `DealerHealth` |

A client call is a list of requests still to be made: `checked_send_request` puts the
requests of `initialise` in front when the session is not authenticated, and every level
passes an error up.  A step of a call that takes the mutex waits while the websocket
thread holds it, as `set_disconnected` and `set_reconnected` do while they send on the
bounded channel.  Exposures are in half contracts, so that rounding shows.  The exchange
is external: it answers requests of an authenticated connection, fills orders at once and
reports positions that it was asked to report.

### State of `ApiComms`

| variable | code |
| --- | --- |
| `route`, `since`, `mail` | a call of a route: where it is, when its `timeout` began, its response channel |
| `inbox`, `sending` | the actor's channel; the request between `waiting.push` and the send to the bank |
| `waiting` | the list of contact details, by the time they were created |
| `asked`, `ring`, `lagged` | requests at the bank; the broadcast channel, which overwrites when full |
| `reader`, `taken`, `tasks` | the reader task: next step, its `now`; the sends it spawned |
| `heard` | model only: requests whose answer the reader has taken |

The routes differ in what their filter compares and in how long they wait, so four kinds
stand for all: `balance`, `payment` (ten seconds), `withdrawal` (the id is the LNURL's, two
responses are accepted) and `plain`.  The bank answers in any order or never.

### State of `Treasury` and `BankLoop`

| variable | code |
| --- | --- |
| `ledger`, `stored` | the balances in memory and in the `accounts` table, with the insurance fund and the dealer's External karma account |
| `totals`, `listed` | what `get_user_totals` adds up from the summary rows, and the users that have rows |
| `paying` | payments from fiat accounts whose result the loop has not taken: each may still leave a refund's row |
| `status`, `at` | the loop: up, blocked in a send to itself, or down; the source it turns to next |
| `dca`, `loopback`, `journal` | the three channels that the process fills and drains itself |
| `lostSave`, `openKarma`, `skewed`, `mostKarma`, `owed`, `dropped` | model only, for the properties |

The loop visits its sources in the order of the code, one message each, and its listener sends
on the bounded channels that the same thread drains: a send to a full one blocks for ever.
Messages of customers, LND and the dealer appear here by what they leave in the channels and in
the summary rows; their bookings are `Bank`'s.  `Ledger::new` gives the insurance fund a new id at every
start, so the row it left is loaded as one more BTC account of the dealer (`init_accounts`).
The row of a payment from a fiat account holds what the fiat charged is worth in BTC, cut by `Money::exchange` and
again by `Rate::inverse` (`PaymentRowValue`); the row of its refund holds the whole value.  The total of a user
whose payments fail can thus be below zero, and so can their ratio in `distribute_karma`: such a user is not
credited, but their part still counts when the dealer's remainder is worked out.

### State of `DealerQuotes`

`book` is `level2_data`, a volume for every price up to `MaxPrice` (zero where the map has no entry), `quotes` are
`bid_quotes` and `ask_quotes` by size, `guaranteed` the quotes by the time they were given.  The currencies are the
ledger's.  `tradable` is the websocket thread's knowledge of the symbols and `lost` a `Disconnected` message on its way.
A snapshot comes as soon as the main loop has ever subscribed (`subscribed`): after a reconnect it can come before the
symbols of the new connection, and `update_quotes` then does nothing with it.  `walked`, which currencies' books the quotes
have followed since the last reset, exists for the properties.  `Hedging` has the connection in detail.  The exchange
is external: it sends any book of `Books`, whole or as the difference from the one it sent before.
`promised` and `answer`, a `SwapResponse` with the quote it redeems, exist for the properties.

### State of `NostrEngine`

| variable | code |
| --- | --- |
| `cache`, `db`, `pending` | `nostr_profile_cache`, the table, `nostr_profile_pending` |
| `phase`, `since`, `wake` | the indexer: asking for a range, sleeping, subscribed; from when; until when |
| `lastCheck` | `nostr_profile_indexer_times` |
| `waiting` | ranges of the indexer in the events channel, which the handler has not taken |
| `status` | up; deaf, after an `unwrap` on a private message ended the handler's task; down |
| `covered`, `missed`, `answers`, `told`, `dbFailed` | model only, for the properties |

The relays are external: any version of a profile, in any order, any number of times.  The events
channel loses what is in it when the process stops; for an update or a request that is as if it had not come, so only the
indexer's ranges are kept in it.  A stop inside `store_profile`, after the reply and before the upsert, is an action of its
own (`CrashInStore`).  `Faults` names
the accesses to the database that may fail, the sending of a message and a full channel.

### State of `ApiLimits`: `CreationLimiter`, `RateLimit` and `RequestLimiter`

`CreationLimiter` has the fields of the struct, the place of every call of `create`, and
two variables of its own: the calls `counted` in the current interval and the places given
back `late`.  `RateLimit` has the client's `entry`, the `timers` of `notify_later`, the next
message of every request and what `Get` answered it; `admitted` counts for the properties.
`RequestLimiter` has the counter and the start of the interval of the user's entry, the place of
every payment, and the checks passed in the interval (`passes`) for the properties.
One client is enough, because entries of two clients never meet.

### Abstractions

* Amounts are integers in the smallest unit of the ledger.  `Sat` of these units make a
  satoshi (10,000 in the code); LND can pay any number of them, where the code has
  thousandths of a satoshi.  The bank cuts the amount of another node's invoice, and
  the fee that LND reports, to whole satoshi (`AmountInSats`, `PaidInSats`), and rounds
  the amount of a fiat invoice up to them (`SatsUp`).  An exchange multiplies by a
  fraction and truncates.
* Users are the customers.  The names `bank` and `dealer` are rows of the users
  table too; a transfer to those names is not modelled.
* The estimated fee is any of `1..MaxFee` satoshi: `probe` adds one satoshi to the fee of
  the best route, and the margin is rounded away from zero.
* An invoice whose row could not be inserted is not modelled: its payment request
  is given to no one.
* Responses to the API and to the dealer (`BankState`), log lines and the Nostr
  notifications carry no state of the bank and are left out; of the journal `BankLoop` keeps
  the number of entries that wait.
* Karma is shared in whole units, where the code cuts to the decimals of the currency; in both the dealer
  keeps what the shares leave.  A `Rate` has `RateUnit` units of its last decimal.
* The memory store's `Get` looks an entry up twice and fails if a timer of another worker removes it in between;
  the outcome is that of an entry removed between `Get` and `Expire`, which `RateLimit` has, so `Get` is one step.
* Rates are exact fractions, prices whole numbers (a `price_dp` of zero), and the time of a quote,
  microseconds in the code, is the model's clock: two quotes of one instant overwrite each other.
* A Nostr profile is its time of creation, the outcome of its verification and its body, one of a few values.

## Runs

Two users (one with funds, one that the bank does not know yet), Bitcoin and one fiat
currency, the rates 1:2 and 2:1 (so an amount can truncate to nothing), amounts of up
to three units of which two make a satoshi, an invoice of another node for a satoshi and a half, a fee of at
most one satoshi.  Two requests in flight are enough for every race
of two; the second invoice of `deposits` lets settlements, of a user or of the dealer,
arrive out of order (one user, not known yet, is enough there: the invoices of two users
never meet).  Deadlock is checked for the bank: a wallet can always ask for its balances.

For the hedging runs: one contract, exposures of half a contract and of two, orders of at
most one contract, so that a hedge takes two orders and one exposure rounds to none.  One
lost connection meets every step of the session, of a call and of a risk check.  Deadlock is
not checked there: the process may end (a failed order panics), and the counters that bound
the environment stop it.

For the loop: two users, one of whom swaps daily and both weekly, a loopback of four messages and a
journal of one, three messages from outside: sources meet in twos and threes, the journal fills up, and
karma is reported rising, falling and after refunds.  The table of rows is empty at the start or holds what a cut and
refunded payment and a swap leave, so that totals of both signs are met within the bound.  For the quotes: two currencies, of which one
book moves between two shapes whose bids and asks share price levels, prices up to four, two sizes of which one is not
always filled, amounts that ask for either, two users, who are interchangeable (symmetry), two quotes with a life of one.  For Nostr: one profile of two
times and two bodies (bodies and requests are interchangeable), two requests, an hour of five units and a sleep of two, one
unit of past, eight of running and two starts, so that the indexer asks for a range, sleeps, is overtaken by the clock, stops
with a range in the channel and starts again.

For the API: three calls, channels of two messages and a list of filters that is always too
long, so that the reader is overtaken and the clean-up runs.  One unit of time is the five
seconds of a filter.  In `limits`, three requests of one client, registrations or payments,
meet a limit of two requests in one second, a quota of one account and a limit of one payment in two
seconds, over two seconds: every pair of requests can race, the third meets what they left, and all
intervals end.  These runs end when
their calls are used up, so deadlock is not checked.

| run | services, faults | properties |
| --- | --- | --- |
| `payments` | payments, invoices; summary, reply | `Inv`, `Reconciled`, `BooksMatchNode`, `RefundIsExact`, `PaymentsEnd`, `DepositsCredited` |
| `deposits` | invoices of a user and of the dealer, the dealer's payments; event, row, summary, restart | `StoredIsLedger`, `Inv`, `BooksMatchNode`, `FullyBacked` |
| `exchanges` | swaps, transfers, withdrawals, health; row, restart | `Inv`, `BooksMatchNode`, `FullyBacked` |
| `paid_twice` | payments; none | `PaidIsRefused` is violated |
| `hedging_safety` | one lost connection, late and refused authentication, failing writes, a channel of three | `FlagsFollowState`, `Inv` |
| `hedging_live` | one lost connection, one change of exposures, none | `BecomesReady`, `HedgeConverges` |
| `comms` | a payment, and two calls that pay one withdrawal | `OwnAnswer`, `AnswerNotMissed`, `Inv` |
| `comms_balances` | two balance requests | `ResponseTransferedBack` is violated |
| `limits` | interleaved and failing registrations, payments that pass twice, stale timers, the administrator's switch | `LimitIsEarned`, `NoPlaceLost`, `QuotaHolds`, `BankLimitHolds`, `RefusedAtLimit`, `QuotaComesBack` |
| `bank_loop` | operator, karma, recurring swaps, withdrawals; row, totals, dca, restart | `FundedBooks`, `KarmaBacked`, `StartsAgain`, `LoopbackFits`, `DcaExact`, `DcaAsked`, `AuditStops` |
| `quotes` | books, quotes, swaps; lost connections | `QuotesFollowBook`, `NoFreeRoundTrip`, `HonouredAsPromised` |
| `nostr` | updates, requests, the indexer; check, send, restart | `StoreFollowsCache`, `AnsweredOnce`, `IndexComplete`, `AnswersNeverGoBack` |

Lost saves (`save`) are in no run, neither of the bank nor of its loop: the state space of a table that drifts from its
ledger is too large.  They are in the models, and the proofs cover them for every instance: `BankInvariant` and
`BankReconciles` hold for any set of faults, `LoopFundedBooks` says what is left when a save was lost.  The money
(`BooksMatchNode`, `FullyBacked`, `StoredIsLedger`) is claimed only without them.

What they say of the code:

* `Reconciled`: the audit that stops the bank never has a reason to, after any
  handler.
* `StoredIsLedger`: a restart loses no booking unless a write was lost.
* `BooksMatchNode`: the BTC of the node and the BTC the ledger says it owes
  differ exactly by named gaps: payments under way, payments given up (a failed
  summary row, a result lost in a restart), receipts not credited, payments sent and
  refunded because LND's answer was lost, fees paid for the dealer, and the parts of a
  satoshi that a payment cost the node and nobody was charged.  That a settlement is taken
  from its channel once is a fact of the channel; a repeated one is what the mutant of
  `deposits` (`EventTaken_Kept`) shows to be caught.
* `FullyBacked`: with answers that arrive, every one of those gaps is in favour
  of the bank but the last, which is below two satoshi a payment: short of that the node
  holds the BTC of all users.
* `RefundIsExact`: a failed payment costs nothing, in the payer's currency.
* `PaymentsEnd`, `DepositsCredited`: nothing stays in flight.

* `FlagsFollowState`: the main loop's flags are the shared state's, but for the messages
  it has still to read: after any loss of connections it neither keeps data of a
  connection that is gone nor misses data it was sent.
* `BecomesReady`, `HedgeConverges`: the dealer recovers from a lost connection at any step,
  and capped orders bring the positions to the exposures that the bank last told of.
* `OwnAnswer`, `AnswerNotMissed`: a route gets the answer to its own request, and gets it if
  the reader took it in time: filters are listed before requests are sent, and the clean-up drops
  none that is in use.  In time means within the life of a filter, which for a payment is half
  of its wait.
* `NoPlaceLost`, `QuotaHolds`: failed registrations cost no place, and the quota is exceeded at
  most by the failures of calls counted in an earlier interval.
* `LimitIsEarned`, `QuotaComesBack`: however the store's messages interleave, a client reaches its
  limit only by its own requests, and the limit ends.  How many requests pass beyond the limit is not
  bounded by them: as many as run at once between `Get` and `Update`.
* `BankLimitHolds`, `RefusedAtLimit`: the bank runs at most one payment more than its limit in an interval,
  second runs included, and refuses only when passed checks used the limit up.
* `FundedBooks`, `KarmaBacked`, `StartsAgain`: what the operator and the exchange do outside the audited
  accounts neither makes nor loses money, and a bank that stopped can start again but for four named causes: an
  overdrawn user, a lost save, a report of karma that was mirrored and not shared, and karma shared over totals of both
  signs.  In the last case the users together can also get more karma than there is, so `KarmaBacked` excepts it.
* `LoopbackFits`, `DcaExact`, `DcaAsked`: with room for the swaps of all intervals and one withdrawal
  the loop never waits for itself on the loopback, and every recurring swap is asked for exactly once, unless the
  settings of its interval cannot be read when it falls due: then it is dropped.  Of the journal nothing is claimed: several
  sources can fill it in a turn that drains one entry, so it can block the loop at any size.
* `AuditStops`: a ledger that is off is put right by the next transactions or stops the bank.
* `QuotesFollowBook`, `NoFreeRoundTrip`: prices are the cost of filling each size from the book at
  hand, and, while the book can fill every quoted size (`AllCurrent`), no chain of conversions returns more than went in.
  Of a size that the book no longer fills the old price stays, and nothing is claimed.
* `HonouredAsPromised`: a quote is redeemed once, in time, by whom and for what it was given, at the promised rate or
  the current one; out of BTC at no lower rate than promised.  Into BTC `get_better_rate` takes the smaller of the two,
  which gives the user less than promised when the rate has fallen meanwhile; no document says which
  it should be, so this is recorded here and in the hazards and not as a violated property.
* `StoreFollowsCache`: cache and table hold the same update of every profile although they decide separately, or two of the
  same time neither of which is verified: no outcome and the outcome `FALSE` differ for the cache and not for the table.
* `AnsweredOnce`, `AnswersNeverGoBack`: no request is answered twice, and the answers about a profile never go back to an
  older version.  The second holds until a profile could not be stored or loaded, and until the process stops between a
  reply and its upsert: the reply is out, the table is behind, and after the restart the older version is served.
* `IndexComplete`: what the indexer never asks for is bounded by two of its sleeps at each start, unless the handler is
  gone, its channel was full, or the process stopped with a range in it that the stored time had passed.

Two runs document where the code and its comments disagree.  `paid_twice`: the
comment at `bank_engine.rs:2005` says that a paid invoice is rejected; the mark it
tests is set when the result is handled, so a second request is accepted in between
(LND refuses it and it is refunded).  `comms_balances`: the comment at `comms.rs:41` says
that the response is transferred back; the filter of `balance` compares the request's id with
itself, so a response goes to every balance request that waits.

Met while modelling and visible in the actions, without a run: excess fees go to the
dealer's BTC account (`ExcessFees`), where the comment at `bank_engine.rs:2834` names the
bank's fee account; requests that find no entry at the same time are each let through as the
first of their window (`Set` of `RateLimit`); a registration that fails after its interval ended
is taken from the count of the next one (`Decrease` of `CreationLimiter`, allowed for by `late`
in `QuotaHolds`); a reader task that falls a full channel behind ends for good (`ReaderEnds` of
`ApiComms`).

Further: an operator transaction asks for no balance, so it can overdraw a user (`MakeTx`), and one with the
insurance fund makes the next audit stop the bank (`AuditStops`); a report of karma that fell, or one that
meets totals of zero (a division panics), leaves the mirror without its counterpart, and the audit then
stops the bank (`openKarma`); swaps that are due when the process ends are not made up for (`Start`).
Buying BTC, `get_better_rate` takes the smaller of the quoted and the current rate; sizes that the book no longer fills keep their price (`AllCurrent`); a swap that names a quote uses it up even
when it is refused (`Removed`); a quote of BTC in BTC panics (`Panics`).  The clean-up of pending profile requests keeps
the old ones and drops the young (`Retained`), so a request can lose its answer to an update of another
profile; the time of the last check moves on although a range was not taken (`missed`); the comment at
`nostr_engine/src/lib.rs:150` speaks of 24 hours where the subscription moves every hour.

### Fairness

`LiveSpec` assumes weak fairness of `PaymentResult` and `Deposit` per request and
invoice: the loop polls both channels in every iteration.  And of LND's answer to a
payment: `pay_invoice` returns.  Nothing is assumed of users, of the dealer or of
whoever pays invoices.  `payments` has neither restarts nor failing rows: with a restart or
a dropped result a payment may never end, which `BooksMatchNode` accounts for.  (Restarts meet payments in
`exchanges`, by way of withdrawals, and in the proofs.)

`Hedging`'s fairness: the websocket thread and the call that the main loop is in go on (weak
fairness); every poll of the main loop comes round in each iteration, so a poll that finds
something again and again is taken (strong fairness); the exchange is reachable again and
reports positions.  `hedging_live` takes two things from the environment: an authentication is
answered within the wait (without the fault `timeout`), and a fill is reported before
the next risk check ten seconds later (`Prompt`).  With a late authentication the dealer
stays unready until the next reconnect, and with a channel of three messages the threads can
wait for each other, one for room in the channel with the mutex in hand, the other for
the mutex: both are listed as hazards.

`BankLoop`: the loop goes on (weak fairness; it polls and never waits), and its audit, which a clock makes
due, is run again and again (strong fairness).  Nothing is assumed of the operator, the exchange or users.

`ApiLimits`: time passes and timers that are due fire.  Nothing is assumed of the requests.

## Proofs

`BankProofs` proves, for any number of users, currencies, requests and invoices, any
rates, amounts and set of faults:

* `BankInvariant`: `Spec => []Inv`
* `BankReconciles`: `Spec => []Reconciled`
* `BankIsDurable`: `Spec => []StoredIsLedger`
* `BankTypes`: `Spec => []TypeOK`
* `BankBooksMatch`: `Spec => []BooksMatchNode`
* `BankFullyBacked`: `Spec => []FullyBacked`
* `BankRefundsExactly`: `Spec => RefundIsExact`

from `LedgerAssumption` (Bitcoin is not a fiat currency) and `BankAssumption` (amounts are
natural numbers, rates pairs of positive ones, a satoshi some number of units, start-up balances are not negative).

`Reconciled` alone is not inductive.  That a refund leaves no user overdrawn needs that the
amount refunded is positive and is the one debited; that a success posts a positive excess
needs that the satoshi paid are no more than was debited, although LND may send a part of one more; that a deposit that comes back from the
dealer credits an existing invoice needs that the invoice was settled when it left; that
a restart reconciles needs that the table does.  `Inv` adds these: `RequestOK`
for every request by stage, `InvoiceOK` for every invoice, `SentIsPaid`, `DepositIsSettled` and
`extSettled \subseteq extPaid`.

The argument: `Sums` changes by the difference when one summand changes (`SumUpdate`); so
a posting between two accounts of one currency leaves every net balance as it
was (`PostBalanced`, `PostReconciles`); `Commit` of a reconciled ledger keeps the books in order
(`CommitBooks`, `OneLeg`, `TwoLegs`); and each handler posts only what it checked.  `NextInv` has
one lemma per action.  The lemmas about handlers name what they use of the ledger as an assumption, `LedgerLaws`;
`LedgerLawsHold` proves it, and the theorems of `BankProofs` discharge it.

The money: `MoneyOK` adds to `BooksMatchNode` that the gap of every request and invoice is on the
bank's side when answers arrive, up to `Dust` (`GapsBacked`), and that a receipt is credited once: an invoice with a
deposit at the dealer has no settlement left to take and no second such deposit (`CreditedOnce`).  A step is
calm for a request or an invoice whose gap it leaves alone; then one summand changes (`RequestStep`, `InvoiceStep`)
by as much as the posting moved across the border of the users' and dealer's accounts (`PostOutside`).
`FullyBacked` follows because every user's balance and every gap has a sign (`MoneyBacks`), and a refund is exact
because `Inv` keeps rate and charge of the debit (`RequestOK`).

`BankLoopProofs` proves `LoopFundedBooks`, `LoopKarmaBacked` and `LoopStartsAgain` for any users, currencies, amounts,
reports, settings, channel sizes and faults, from `TreasuryAssumption`, `LoopAssumption` and `LedgerAssumption`.
Its invariant `TreasuryOK` says that each currency adds up to zero with the fund and the mirror counted, karma only while
no report is open and none was shared over totals of both signs, and that the table is the ledger while no save was lost.
That shares over totals of one sign do not add up to more than the amount is `SumShare`, in `LedgerProofs`.

It also proves `LoopbackNeverBlocks` and `LoopDcaExact`, for any intervals, settings and sizes of the channels.
`ChannelInv` bounds what waits: the swaps in the loopback and those that the reports of `dca_task` still stand for are no
more than the swaps of all intervals, plus one withdrawal from the poll of the API to that of the loopback
(`FewWait`, `Room`).  It needs that a choice of intervals has no more swaps than all of them (`SumPick`), and that a
user's swaps in two sequences put together are the sum of both (`SumConcat`, `CountConcat`).

`NostrProofs` proves `NostrAnswersOnce`, `NostrStoreFollows` and `NostrNeverGoesBack` for any profiles, requests,
timeouts, faults and restarts.  The strengthenings: a request that waits is unanswered and waits for one profile
(`WaitsUnanswered`), which needs that the clean-up drops what was just answered; and the newest version told is
no newer than the table's (`ToldIsStored`), which a restart preserves because the table follows the cache: what the one
takes and the other does not has the same time (`Coalesced`, `TakesAgree`).

It also proves `NostrIndexComplete`, for any sleep that fits twice into an hour.  `IndexInv` bounds what lies before
the stored time and was not asked for, by phase: a range asked for reaches back to what was stored (`RangeOK`), so only a
range cut off by the present leaves a gap, of one sleep but for the second at which it was cut; at most two such ranges
follow a start, the last one of the catching up and the one before the subscription.

`HedgingProofs` proves, for every set of contracts, every tolerance, cap and capacity, any
faults and any number of lost connections:

* `HedgingInvariant`: `Spec => []Inv`
* `LoopFollowsThread`: `Spec => []FlagsFollowState`

from `HedgingAssumption`.  `FlagsFollowState` is stated with `WillBe`, what a flag becomes when
the pending messages are read; `WillBeAppend` and `WillBeTail` say how a message sent and a
message read change it.  It is not inductive: a reconnect clears the authentication
without a message of its own, which is right because a connection marked as lost is not
authenticated (`LostIsQuiet`); and an order has an integer quantity because the
check still has the state it began with (`CheckHasState`).

`ApiProofs` proves, for any number of calls, any capacities, limits and waits:

* `CommsInvariant`: `Spec => []Inv`
* `NoAnswerMissed`: `Spec => []AnswerNotMissed`
* `RoutesGetOwnAnswer`: `Spec => []OwnAnswer`

from `CommsAssumption`, whose substance is that ids are fresh except for those of
withdrawals.  `AnswerNotMissed` speaks of answers that were taken; the invariant adds what holds
before: a request that left the actor has its route listed or reached (`Expected`), no filter
is older than its route's wait, so an expired one belongs to a route that is late (`Ordered`), and
what is on its way passed the filter of its route (`Filtered`).

It also proves, of `ApiLimits`, for any requests, limits, intervals and any length of the run, from `LimitsAssumption`:

* `ClientLimitIsEarned`: `LimitsSpec => []LimitIsEarned`
* `CreationLosesNoPlace`: `LimitsSpec => []NoPlaceLost`
* `CreationQuotaHolds`: `LimitsSpec => []QuotaHolds`
* `BankHoldsLimit`: `LimitsSpec => []BankLimitHolds`
* `BankRefusesAtLimit`: `LimitsSpec => RefusedAtLimit`

The invariant `LimitsInv` has one part for each limiter, and an action of one leaves the parts of the others alone
(`RateFrame`, `CreationFrame`, `BankFrame`).  What a client's entry has lost was taken by requests that were let
through (`RateInv`); the calls counted in an interval are those on the counter and the places given back late, at
most (`CreationInv`); the bank's counter is at most one behind the checks that passed, and ahead of them only at the
limit (`BankInv`).  That `passes` grows with every check that passes needs that a request passes each of its two
checks once, which `BankInv` says by the request's place.

`QuotesProofs` proves, for any users, currencies, amounts, order sizes, spreads, lives of a quote and all books whose
bids are below their asks, from `QuotesAssumption` and `LedgerAssumption`:

* `QuotesFollow`: `Spec => []QuotesFollowBook`
* `NoRoundTripGains`: `Spec => []NoFreeRoundTrip`
* `QuotesHonoured`: `Spec => HonouredAsPromised`

The two loops of `update_quotes` are recursive functions, which are shown to be defined.  Their invariant is `Sound`: what
was taken and what is left at the level reached add up to the book's volume down to there, and so do the costs.  A round
keeps it and ends the loop or goes one level down, so `MaxPrice + 1` rounds are enough (`RoundSound`, `MatchSound`); the
next size starts from a sound walk (`WalkSound`).  Hence a size is matched exactly when the book can fill it (`WalkFills`), at
the cost that the reference definition `Cost` gives it level by level (`WalkCost`).  Some price divides bids from asks
(`BookDivides`), the average of a side stays on its side of it, rounded or not (`CostBounds`, `Rounded`), so bids quoted are
below asks quoted (`PricesApart`), and the products of a round trip compare factor by factor (`DirectTrip`, `LongTrip`).  The
invariant `QuotesInv` adds to `QuotesFollowBook` that the quotes follow a book only while there are symbols, unless a loss is still to be
noticed (`WalkedTradable`): otherwise a delta could change such a book and not the quotes.  `Kept`, that a guaranteed quote is a promise not
redeemed, under its own time, gives `HonouredAsPromised`: one swap cannot take out another one's quote.

The sums are recursive functions; that they are defined, and change with one summand, is proved in
`LedgerProofs` from the well-foundedness of the naturals, without an induction over data.

Only model-checked: the liveness properties (`PaymentsEnd`, `DepositsCredited`, `BecomesReady`, `HedgeConverges`,
`QuotaComesBack`, `DcaAsked`, `AuditStops`), which are out of TLAPS's reach, and the two violations.

## Not modelled

* Margin, funding and sweeps of the dealer: they only send the dealer's own invoices and payments, which
  `Bank` takes as requests of the dealer at any time.  The thresholds that decide when are not modelled.
* The re-subscription of LND's invoices: `Bank` has its outcome, a settlement that is reported or missed.
* The clean-up of finished payment tasks and the statistics for InfluxDB in the bank's loop: they hold no money and
  no message.  The optional normalisation of balances at start-up truncates
  decimals below the smallest unit, which the model's integers do not have.
* Zap notes, private messages and relay management of the Nostr engine: text passed on to relays.
* Routes of the API that read or write single rows, hashing and tokens: single statements or library calls.
* The Redis and Memcached stores of the request limiter: clients of services that nothing here starts.
* Serialisation, sockets, logging, HTTP: pure I/O.
