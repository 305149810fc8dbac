---------------------------- MODULE DealerQuotes ----------------------------
(***************************************************************************)
(* The dealer's prices: the order books of the exchange, the quotes worked *)
(* out from them for a few order sizes, the rates that the bank asks for,  *)
(* and the quotes that are guaranteed to a user for a while.  The          *)
(* currencies are those of the ledger.                                     *)
(*                                                                         *)
(* A side of a book gives the volume at each price; a price without a      *)
(* level, one that BTreeMap::remove took out included, has the volume 0.   *)
(* price_dp is 0 and a contract is one unit of the fiat currency.  A rate  *)
(* is a fraction <<n, d>>: n units bought for d sold.  Fees, which follow  *)
(* from the rate, are left out.                                            *)
(*                                                                         *)
(* The websocket thread clears the tradable symbols when it loses the      *)
(* connection, the engine learns of it later, from a message: in between   *)
(* (lost) it works on books that no longer change the quotes.  A           *)
(* subscription that waited in the client's channel meanwhile is written   *)
(* to the next connection and may be answered before the symbols are.      *)
(***************************************************************************)
EXTENDS Ledger, Sequences, FiniteSetsExt

CONSTANTS
  Uids,              \* the users who ask for quotes and swaps
  Conversions,       \* the pairs <<from, to>> that users ask for
  Amounts,           \* Amounts[c]: the amounts that requests carry in c
  MaxPrice,          \* bound on the prices
  Books,             \* Books[f]: the books that the exchange may show for f
  Quantities,        \* QUANTITIES: the order sizes that are quoted, increasing
  HalfSpread,        \* get_half_spread, a fraction
  QUOTE_TTL,         \* how long a quote is guaranteed
  MaxTime,           \* bound on the clock
  MaxQuotes          \* bound on the quotes given

Prices == 1 .. MaxPrice
Sides == [Prices -> Nat]

\* No book shows a bid at or above an ask; the contract of a fiat currency is its
\* symbol.
ASSUME QuotesAssumption ==
  /\ Conversions \subseteq Currency \X Currency
  /\ MaxPrice \in Nat /\ Books \in [Fiat -> SUBSET [bids : Sides, asks : Sides]]
  /\ \A f \in Fiat : \A b \in Books[f] : \A bid, ask \in Prices :
       b.bids[bid] > 0 /\ b.asks[ask] > 0 => bid < ask
  /\ Quantities \in Seq(Nat \ {0})
  /\ \A i \in DOMAIN Quantities : i > 1 => Quantities[i - 1] < Quantities[i]
  /\ HalfSpread \in Nat \X Nat /\ HalfSpread[1] < HalfSpread[2]
  /\ QUOTE_TTL \in Nat /\ MaxTime \in Nat

Sizes == DOMAIN Quantities

VARIABLES
  book,          \* level2_data: [bids, asks] of the currencies that have a book
  quotes,        \* bid_quotes and ask_quotes: a price for each size, or 0
  guaranteed,    \* guaranteed_quotes, by the time they were given
  tradable,      \* whether the websocket thread knows the tradable symbols
  lost,          \* whether a Disconnected message waits for the engine
  subscribed,    \* whether the engine ever had symbols to subscribe to
  now,           \* the clock
  walked,        \* history: the currencies whose book the quotes have followed
  promised,      \* history: quotes given to users and not redeemed
  answer         \* the quote that the last step redeemed, if any, for which swap, at what rate

feedVars == <<tradable, lost, subscribed>>
bookVars == <<book, quotes, walked>>
vars == <<bookVars, feedVars, guaranteed, now, promised, answer>>

NoQuotes == [bid |-> [i \in Sizes |-> 0], ask |-> [i \in Sizes |-> 0]]
NoRate == <<0, 1>>
NoPromise == [id |-> -1]
Promise(id, u, amount, from, to, rate) ==
  [id |-> id, uid |-> u, amount |-> amount, from |-> from, to |-> to, rate |-> rate]
Answer(request, rate, redeemed) == [request |-> request, rate |-> rate, redeemed |-> redeemed]
NoAnswer == Answer(<< >>, NoRate, NoPromise)

-----------------------------------------------------------------------------
(***************************************************************************)
(* update_quotes.  The levels are walked once, best price first; every     *)
(* size goes on where the smaller one stopped.  The walk has reached a     *)
(* level, `left` is what is left there, `num` the cost of the `sofar`      *)
(* units taken, and `toMatch` what the size still lacks.                   *)
(***************************************************************************)
\* The k-th price: bids.iter().rev() and asks.iter().
bid_levels == [k \in Prices |-> MaxPrice + 1 - k]
ask_levels == [k \in Prices |-> k]

\* The volumes of a side in the order of its levels.
Volumes(side, price) == [k \in Prices |-> side[price[k]]]

Start == [level |-> 0, price |-> 0, left |-> 0, sofar |-> 0, num |-> 0, toMatch |-> 0]

\* n units are taken, and the walk is at a level with a price and what is left.
Taken(w, n, level, price, left) ==
  [level |-> level, price |-> price, left |-> left,
   sofar |-> w.sofar + n, num |-> w.num + w.price * n, toMatch |-> w.toMatch - n]

\* One round of the inner loop.  A price without volume is passed by.
Round(w, price, volume) ==
  IF w.toMatch <= w.left THEN Taken(w, w.toMatch, w.level, w.price, w.left - w.toMatch)
  ELSE IF w.level = MaxPrice THEN Taken(w, w.left, w.level, 0, 0)
  ELSE Taken(w, w.left, w.level + 1, price[w.level + 1], volume[w.level + 1])

\* The inner loop, which ends when nothing is left to match or no level is left;
\* further rounds change nothing.
Rounds(w, price, volume) ==
  LET R[n \in 0 .. MaxPrice + 1] == IF n = 0 THEN w ELSE Round(R[n - 1], price, volume)
  IN R

Match(w, price, volume) == Rounds(w, price, volume)[MaxPrice + 1]

\* The next size goes on where the last one stopped.
Resumed(w, i) == [w EXCEPT !.toMatch = Quantities[i] - w.sofar]

\* Where the walk stands after each size.
Walk(price, volume) ==
  LET W[i \in 0 .. Len(Quantities)] ==
        IF i = 0 THEN Start ELSE Match(Resumed(W[i - 1], i), price, volume)
  IN W

Ceil(n, d) == (n + d - 1) \div d
Floor(n, d) == n \div d

\* The sizes that the book can fill get a new price, the others keep theirs.
update_quotes(b, q) ==
  LET bids == Walk(bid_levels, Volumes(b.bids, bid_levels))
      asks == Walk(ask_levels, Volumes(b.asks, ask_levels))
  IN [bid |-> [i \in Sizes |-> IF bids[i].toMatch = 0 THEN Ceil(bids[i].num, bids[i].sofar)
                               ELSE q.bid[i]],
      ask |-> [i \in Sizes |-> IF asks[i].toMatch = 0 THEN Floor(asks[i].num, asks[i].sofar)
                               ELSE q.ask[i]]]

-----------------------------------------------------------------------------
(***************************************************************************)
(* Rates.                                                                  *)
(***************************************************************************)
\* ConversionInfo: selling BTC hits the bids, buying it the asks.
Symbol(from, to) == IF from = BTC THEN to ELSE from
is_linear(from) == from = BTC

\* get_linear_rate and get_inverse_rate.
WithSpread(price, linear, charge) ==
  LET n == IF charge THEN HalfSpread[1] ELSE 0
      d == HalfSpread[2]
  IN IF linear THEN <<price * (d - n), d>> ELSE <<d, price * (d + n)>>

\* Mutant: the sides of the book are swapped.
Side_Swapped(from, to) == IF is_linear(from) THEN quotes[Symbol(from, to)].ask
                          ELSE quotes[Symbol(from, to)].bid

\* The prices a conversion looks at, by size (0: not quoted).
Side(from, to) == IF is_linear(from) THEN quotes[Symbol(from, to)].bid
                  ELSE quotes[Symbol(from, to)].ask

\* The smallest size quoted that is not below a quantity, or 0.
SizeFor(side, quantity) ==
  LET fit == {i \in Sizes : side[i] # 0 /\ Quantities[i] >= quantity}
  IN IF fit = {} THEN 0 ELSE Min(fit)

RateAt(side, i, from, charge) ==
  IF i = 0 THEN NoRate ELSE WithSpread(side[i], is_linear(from), charge)

\* get_btc_cross_rate, of an amount that is a fraction: one in BTC is valued at
\* the price of the smallest size quoted.
get_btc_cross_rate(amount, from, to, charge) ==
  LET side == Side(from, to)
      first == SizeFor(side, 0)
      value == (amount[1] * (IF is_linear(from) THEN side[first] ELSE 1)) \div amount[2]
  IN IF first = 0 /\ is_linear(from) THEN NoRate
     ELSE RateAt(side, SizeFor(side, value), from, charge)

\* get_rate: between two fiat currencies by way of BTC, the spread charged once.
get_rate(amount, from, to) ==
  IF BTC \in {from, to} THEN get_btc_cross_rate(<<amount, 1>>, from, to, TRUE)
  ELSE LET first == get_btc_cross_rate(<<amount, 1>>, from, BTC, FALSE)
           second == get_btc_cross_rate(<<amount * first[1], first[2]>>, BTC, to, TRUE)
       IN IF first = NoRate \/ second = NoRate THEN NoRate
          ELSE <<first[1] * second[1], first[2] * second[2]>>

\* get_rate_inv, the rate of invoices, payments, withdrawals and deposits in fiat,
\* which are answered without a change of state: the amount is taken for a value
\* in fiat, whatever its currency.
get_rate_inv(amount, from, to) ==
  LET side == Side(from, to) IN RateAt(side, SizeFor(side, amount), from, TRUE)

Below(r, s) == r[1] * s[2] < s[1] * r[2]

\* get_better_rate: the larger one, but the smaller one when buying BTC.
get_better_rate(r, s, linear) ==
  IF s = NoRate THEN r
  ELSE IF linear THEN (IF Below(s, r) THEN r ELSE s)
  ELSE (IF Below(r, s) THEN r ELSE s)

-----------------------------------------------------------------------------
(***************************************************************************)
(* The handlers.                                                           *)
(***************************************************************************)
\* DealerEngine::new.
Init ==
  /\ book = << >> /\ quotes = [f \in Fiat |-> NoQuotes] /\ walked = {}
  /\ guaranteed = << >>
  /\ tradable = FALSE /\ lost = FALSE /\ subscribed = FALSE /\ now = 0
  /\ promised = {} /\ answer = NoAnswer

\* process_orderbook_update: once the book has changed the quotes follow it, if
\* the symbol is known to be tradable.
Level2State(f, b) ==
  /\ book' = [g \in DOMAIN book \cup {f} |-> IF g = f THEN b ELSE book[g]]
  /\ quotes' = IF tradable THEN [quotes EXCEPT ![f] = update_quotes(b, @)] ELSE quotes
  /\ walked' = IF tradable THEN walked \cup {f} ELSE walked
  /\ answer' = NoAnswer
  /\ UNCHANGED <<feedVars, guaranteed, now, promised>>

\* A snapshot replaces the book.  The books are subscribed to once the symbols
\* are known; what was under way when the connection was lost still comes, and
\* a subscription that was not written yet is answered on the next one.
Snapshot(f) ==
  /\ subscribed
  /\ \E b \in Books[f] : Level2State(f, b)

\* A delta: a volume of zero takes a level out, another one sets it.
Applied(side, delta) ==
  [p \in Prices |-> IF p \in DOMAIN delta THEN delta[p] ELSE side[p]]

\* What the exchange tells of a side that became another.
Difference(old, new) == [p \in {q \in Prices : old[q] # new[q]} |-> new[p]]

\* Without a book a delta is dropped.
Delta(f) ==
  /\ f \in DOMAIN book
  /\ \E b \in Books[f] :
       Level2State(f, [bids |-> Applied(book[f].bids, Difference(book[f].bids, b.bids)),
                       asks |-> Applied(book[f].asks, Difference(book[f].asks, b.asks))])

\* The connection is lost and comes back: the websocket thread first.
Disconnects ==
  /\ tradable
  /\ tradable' = FALSE /\ lost' = TRUE /\ answer' = NoAnswer
  /\ UNCHANGED <<bookVars, subscribed, guaranteed, now, promised>>

TradableSymbols ==
  /\ ~tradable /\ tradable' = TRUE /\ subscribed' = TRUE /\ answer' = NoAnswer
  /\ UNCHANGED <<bookVars, lost, guaranteed, now, promised>>

\* Mutant: the quotes outlive the connection.
reset_state_KeepsQuotes ==
  /\ book' = << >> /\ walked' = {}
  /\ UNCHANGED quotes
  /\ guaranteed' = << >>

\* reset_state: the books, the quotes and what was guaranteed are forgotten.
reset_state ==
  /\ book' = << >> /\ walked' = {}
  /\ quotes' = [f \in Fiat |-> NoQuotes]
  /\ guaranteed' = << >>

Disconnected ==
  /\ lost /\ lost' = FALSE /\ answer' = NoAnswer
  /\ reset_state
  /\ UNCHANGED <<tradable, subscribed, now, promised>>

\* A quote is kept under the time it was given at; a second one given at the
\* same time replaces it.
GiveQuote(u, amount, from, to) ==
  LET rate == get_rate(amount, from, to)
      q == Promise(now, u, amount, from, to, rate)
  IN /\ IF rate # NoRate
        THEN /\ guaranteed' = [id \in DOMAIN guaranteed \cup {now} |->
                                 IF id = now THEN q ELSE guaranteed[id]]
             /\ promised' = promised \cup {q}
        ELSE UNCHANGED <<guaranteed, promised>>
     /\ answer' = NoAnswer
     /\ UNCHANGED <<bookVars, feedVars, now>>

\* ConversionInfo::new panics; the dealer starts again.
Panics ==
  /\ reset_state
  /\ tradable' = FALSE /\ lost' = FALSE /\ subscribed' = FALSE /\ answer' = NoAnswer
  /\ UNCHANGED <<now, promised>>

\* QuoteRequest, which does not refuse to quote BTC in BTC.
QuoteRequest(u, amount, from, to) ==
  /\ Cardinality(promised) < MaxQuotes
  /\ IF from = BTC /\ to = BTC THEN Panics ELSE GiveQuote(u, amount, from, to)

\* split_off: the quotes that are still guaranteed.
Valid == {id \in DOMAIN guaranteed : id >= now - QUOTE_TTL}

validate_quote(q, u, amount, from, to) ==
  q.from = from /\ q.to = to /\ q.amount = amount /\ q.uid = u

\* Mutant: a quote stays guaranteed after it was redeemed.
Removed_Kept(id) == Valid

\* A quote is taken out before it is looked at.
Removed(id) == Valid \ {id}

\* A swap at the current rate, get_rate(amount, from, to).
SwapUnquoted ==
  /\ guaranteed' = [i \in Valid |-> guaranteed[i]]
  /\ answer' = NoAnswer
  /\ UNCHANGED <<bookVars, feedVars, now, promised>>

\* A swap with a quote: refused when the quote is gone or was given for
\* something else.
SwapQuoted(u, amount, from, to, id) ==
  LET q == guaranteed[id]
      current == get_rate(amount, from, to)
      linear == from = BTC \/ to # BTC
      redeemed == id \in Valid /\ validate_quote(q, u, amount, from, to)
  IN /\ guaranteed' = [i \in Removed(id) |-> guaranteed[i]]
     /\ answer' = IF redeemed
                  THEN Answer(<<u, amount, from, to>>, get_better_rate(q.rate, current, linear), q)
                  ELSE NoAnswer
     /\ promised' = IF redeemed THEN promised \ {q} ELSE promised
     /\ UNCHANGED <<bookVars, feedVars, now>>

SwapRequest(u, amount, from, to) ==
  /\ from # to
  /\ \/ SwapUnquoted
     \/ \E id \in {q.id : q \in promised} : SwapQuoted(u, amount, from, to, id)

\* Time is told from the first quote on.
Tick ==
  /\ promised # {} /\ now < MaxTime /\ now' = now + 1 /\ answer' = NoAnswer
  /\ UNCHANGED <<bookVars, feedVars, guaranteed, promised>>

Next ==
  \/ \E f \in Fiat : Delta(f) \/ Snapshot(f)
  \/ Disconnects \/ TradableSymbols \/ Disconnected
  \/ \E u \in Uids, c \in Conversions : \E amount \in Amounts[c[1]] :
       QuoteRequest(u, amount, c[1], c[2]) \/ SwapRequest(u, amount, c[1], c[2])
  \/ Tick

Spec == Init /\ [][Next]_vars

-----------------------------------------------------------------------------
(***************************************************************************)
(* Properties.                                                             *)
(***************************************************************************)
\* What an order for q units costs in a side of a book, level by level: each
\* level gives what the better ones leave to fill.
Given(volume, q, k) ==
  LET rest == q - PartialSum(volume, MaxPrice)[k - 1]
  IN IF rest <= 0 THEN 0 ELSE IF rest <= volume[k] THEN rest ELSE volume[k]
Cost(price, volume, q) == SumTo([k \in Prices |-> price[k] * Given(volume, q, k)], MaxPrice)
Fills(side, price, q) == SumTo(Volumes(side, price), MaxPrice) >= q

QuotedAsBook(f) ==
  \A i \in Sizes :
    LET q == Quantities[i] IN
    /\ Fills(book[f].bids, bid_levels, q) =>
         quotes[f].bid[i] = Ceil(Cost(bid_levels, Volumes(book[f].bids, bid_levels), q), q)
    /\ Fills(book[f].asks, ask_levels, q) =>
         quotes[f].ask[i] = Floor(Cost(ask_levels, Volumes(book[f].asks, ask_levels), q), q)

\* Unless the loss of the connection is still to be noticed, the engine quotes
\* every size that the book it holds can fill at the average price of filling it
\* (rounded to the tick), and quotes nothing without a book, nor from one that
\* came before the symbols of the connection and has not changed since: the walk
\* of update_quotes, which carries its place from a size to the next, misses
\* nothing and counts nothing twice, and no quote outlives its connection.
QuotesFollowBook ==
  ~lost => \A f \in Fiat : IF f \in walked THEN f \in DOMAIN book /\ QuotedAsBook(f)
                           ELSE quotes[f] = NoQuotes

\* The rates that a request of some amount may be given.
Rates(from, to) ==
  {get_rate(x, from, to) : x \in Amounts[from]}
    \cup (IF BTC \in {from, to} THEN {get_rate_inv(x, from, to) : x \in Amounts[from]}
          ELSE {})

\* Every size quoted is one that the book can fill now.
AllCurrent ==
  \A f \in DOMAIN book, i \in Sizes :
    /\ quotes[f].bid[i] # 0 => Fills(book[f].bids, bid_levels, Quantities[i])
    /\ quotes[f].ask[i] # 0 => Fills(book[f].asks, ask_levels, Quantities[i])

\* While no quoted size is one that an earlier book filled and this one does not
\* (those keep their old price), no round of conversions out of BTC and back,
\* direct or through two fiat currencies, of any amounts, whether by swaps or by
\* the rates of deposits and payments, returns what went in.
NoFreeRoundTrip ==
  (~lost /\ AllCurrent) =>
    \A f \in Fiat, g \in Fiat :
      \A out \in Rates(BTC, f), back \in Rates(g, BTC) :
        \A across \in IF f = g THEN {<<1, 1>>} ELSE Rates(f, g) :
          out[1] * across[1] * back[1] < out[2] * across[2] * back[2]

Honoured ==
  LET q == answer'.redeemed IN
  q # NoPromise =>
    /\ q \in promised /\ now - q.id <= QUOTE_TTL
    /\ answer'.request = <<q.uid, q.amount, q.from, q.to>>
    /\ answer'.rate \in {q.rate, get_rate(q.amount, q.from, q.to)}
    /\ q.to # BTC => ~Below(answer'.rate, q.rate)

\* A swap that is done on a quote is done on one that was given to the same user
\* for the same amount and currencies, not longer than QUOTE_TTL ago and not
\* redeemed before, at the rate quoted or the current one, and when it ends with
\* fiat at no less than was quoted.  Of a swap that ends with BTC the last is not
\* said: there get_better_rate takes the smaller rate, which gives the user less.
HonouredAsPromised == [][Honoured]_vars
=============================================================================
