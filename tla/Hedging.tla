------------------------------- MODULE Hedging -------------------------------
(***************************************************************************)
(* The hedging side of the dealer: two threads of the dealer process and   *)
(* the exchange they talk to.                                              *)
(*                                                                         *)
(* The websocket thread of KolliderHedgingClient (kollider_hedging) keeps  *)
(* the shared State, guarded by a mutex, and passes every message on to    *)
(* the main loop through the bounded channel "callback".  The main loop    *)
(* (dealer) keeps its own flags, asks the bank for its exposures and       *)
(* places orders.  Requests go back to the websocket thread through the    *)
(* unbounded channel "sender", which outlives the socket.                  *)
(*                                                                         *)
(* Exposures are counted in half contracts, so that rounding to whole      *)
(* contracts shows; positions and orders are in contracts, negative when   *)
(* short.  Prices, balances, margin and order books are left out.          *)
(***************************************************************************)
EXTENDS Integers, Sequences, FiniteSets

CONSTANTS
  Symbols,           \* the contracts, one per fiat currency
  Exposures,         \* exposures of the bank, in half contracts
  RiskTolerance,     \* risk_tolerances: contracts that may stay unhedged
  OrderCap,          \* max_single_order_quantities
  Capacity,          \* bounded(2024) of the callback channel
  Prompt,            \* whether fills are reported before the next risk check
  Faults,            \* "timeout": an answer may come too late;
                     \* "refuse": authentication may fail;
                     \* "write": writing to a lost socket may panic
  Margin,            \* whether positions may leave their range of leverage
  MaxDrops,          \* bound: connections lost
  MaxChanges,        \* bound: changes of the exposures
  MaxOrders          \* bound: orders after which no timer starts a check

ASSUME HedgingAssumption ==
  /\ IsFiniteSet(Symbols) /\ Exposures \subseteq Int
  /\ RiskTolerance \in [Symbols -> Nat \ {0}] /\ OrderCap \in [Symbols -> Nat \ {0}]
  /\ Capacity \in Nat \ {0} /\ Prompt \in BOOLEAN /\ Margin \in BOOLEAN
  /\ Faults \subseteq {"timeout", "refuse", "write"}
  /\ MaxDrops \in Nat /\ MaxChanges \in Nat /\ MaxOrders \in Nat

VARIABLES
  state,             \* the State shared by the two threads
  ws,                \* websocket thread: what it is sending, whether it holds the mutex
  callback,          \* messages for the main loop, oldest first
  sender,            \* requests for the websocket thread, oldest first
  socket,            \* the exchange's side of the connection
  wire,              \* what the exchange has sent and the thread not read
  real,              \* the positions the exchange holds
  pc,                \* main loop: "loop", "await", "check" or "dead"
  call,              \* the client call the main loop is in
  flags,             \* what the main loop believes it has received
  bankState,         \* last_bank_state, or NoState
  rest,              \* the symbols the risk check has still to look at
  exposure,          \* the bank's exposures
  fromBank,          \* messages from the bank, oldest first
  health,            \* the last DealerHealth the bank was sent
  drops, changes, orders

thread == <<state, ws, socket, wire>>
exchange == <<socket, wire, real>>
dealer == <<pc, flags, bankState, rest>>
bank == <<exposure, fromBank, health, changes>>
vars == <<state, ws, callback, sender, socket, wire, real, pc, call, flags, bankState, rest,
          exposure, fromBank, health, drops, changes, orders>>

NoState == [s \in {} |-> 0]
NoPositions == [s \in Symbols |-> 0]

\* State::new; connect marks the first socket as connected.
Cleared == [connected |-> FALSE, authenticated |-> FALSE, positions |-> FALSE,
            pos |-> NoPositions, symbols |-> FALSE]

Running == [pc |-> "run", msg |-> "none", locked |-> FALSE]

\* The thread is about to send a message to the main loop.
Sending(msg, locked) == [pc |-> "send", msg |-> msg, locked |-> locked]

NewSocket == [up |-> TRUE, authenticated |-> FALSE, subscribed |-> FALSE]

NoHealth == [status |-> "Down", currencies |-> {}]

NoFlags == [authenticated |-> FALSE, symbols |-> FALSE, positions |-> FALSE, init |-> FALSE]

-----------------------------------------------------------------------------
\* Messages of the exchange: a kind, and positions where it carries some.

Message(kind) == [kind |-> kind]
PositionOf(s, qty) == [kind |-> "PositionStates", symbol |-> s, qty |-> qty]
PositionsAre(pos) == [kind |-> "Positions", pos |-> pos]

Order(s, qty) == [req |-> "Order", symbol |-> s, qty |-> qty]
Request(name) == [req |-> name]

\* Mutant: the positions are not fetched.
InitialiseNoPositions == <<Request("Authenticate"), Request("Wait"),
                           Request("FetchTradableSymbols"), Request("FetchBalances")>>

\* initialise: authenticate, wait for the answer, fetch everything.
Initialise == <<Request("Authenticate"), Request("Wait"), Request("FetchTradableSymbols"),
                Request("FetchPositions"), Request("FetchBalances")>>

\* A call of the client that the main loop makes, and what it does on an error.
Call(todo, onError) == [todo |-> todo, onError |-> onError]
NoCall == Call(<<>>, "log")

Init ==
  /\ state = [Cleared EXCEPT !.connected = TRUE]
  /\ ws = Running
  /\ callback = <<>> /\ sender = <<>>
  /\ socket = NewSocket /\ wire = <<>>
  /\ real = NoPositions
  /\ pc = "loop" /\ call = Call(Initialise, "exit")
  /\ flags = NoFlags /\ bankState = NoState /\ rest = {}
  /\ exposure \in [Symbols -> Exposures] /\ fromBank = <<>>
  /\ health = NoHealth
  /\ drops = 0 /\ changes = 0 /\ orders = 0

-----------------------------------------------------------------------------
\* The websocket thread.

\* The connection breaks: the thread still reads some of what had arrived.
SocketDrops ==
  /\ socket.up /\ drops < MaxDrops
  /\ \E n \in 0 .. Len(wire) : wire' = SubSeq(wire, 1, n)
  /\ socket' = [socket EXCEPT !.up = FALSE]
  /\ drops' = drops + 1
  /\ UNCHANGED <<state, ws, callback, sender, real, call, dealer, bank, orders>>

\* set_disconnected: the mutex is held while the message is sent.
SetDisconnected ==
  /\ ws.pc = "run" /\ ~socket.up /\ wire = <<>> /\ state.connected
  /\ state' = Cleared
  /\ ws' = Sending(Message("Disconnected"), TRUE)
  /\ UNCHANGED <<callback, sender, exchange, call, dealer, bank, drops, orders>>

\* open_socket succeeds; set_reconnected: the mutex is held here too.
SetReconnected ==
  /\ ws.pc = "run" /\ ~socket.up /\ ~state.connected
  /\ socket' = NewSocket
  /\ state' = [state EXCEPT !.authenticated = FALSE, !.connected = TRUE]
  /\ ws' = Sending(Message("Reconnected"), TRUE)
  /\ UNCHANGED <<callback, sender, wire, real, call, dealer, bank, drops, orders>>

\* What a message changes in the shared state (process_incoming_message).
Received(st, m) ==
  CASE m.kind = "Authenticate" -> [st EXCEPT !.authenticated = TRUE]
    [] m.kind = "PositionStates" -> [st EXCEPT !.pos[m.symbol] = m.qty]
    [] m.kind = "Positions" -> [st EXCEPT !.pos = m.pos, !.positions = TRUE]
    [] m.kind = "TradableSymbols" -> [st EXCEPT !.symbols = TRUE]
    [] OTHER -> st

\* read_message and process_incoming_message: the state is updated under the
\* mutex, the message passed on after its release.
WsReads ==
  /\ ws.pc = "run" /\ wire # <<>>
  /\ state' = Received(state, Head(wire))
  /\ ws' = Sending(Head(wire), FALSE)
  /\ wire' = Tail(wire)
  /\ UNCHANGED <<callback, sender, socket, real, call, dealer, bank, drops, orders>>

\* Mutant: the channel takes more messages than it has room for.
SendToCallbackUnbounded ==
  /\ ws.pc = "send"
  /\ callback' = Append(callback, ws.msg)
  /\ ws' = Running
  /\ UNCHANGED <<state, sender, exchange, call, dealer, bank, drops, orders>>

\* send_to_callback: blocks while the channel is full.
SendToCallback ==
  /\ ws.pc = "send" /\ Len(callback) < Capacity
  /\ callback' = Append(callback, ws.msg)
  /\ ws' = Running
  /\ UNCHANGED <<state, sender, exchange, call, dealer, bank, drops, orders>>

\* The exchange's answer to a request, on an authenticated connection only.
Answer(r) ==
  \/ /\ r.req = "Authenticate"
     /\ socket' = [socket EXCEPT !.authenticated = TRUE]
     /\ wire' = Append(wire, Message("Authenticate"))
     /\ UNCHANGED real
  \/ /\ r.req = "Authenticate" /\ "refuse" \in Faults
     /\ wire' = Append(wire, Message("Refused"))
     /\ UNCHANGED <<socket, real>>
  \/ /\ r.req = "FetchTradableSymbols" /\ socket.authenticated
     /\ wire' = Append(wire, Message("TradableSymbols"))
     /\ UNCHANGED <<socket, real>>
  \/ /\ r.req = "FetchPositions" /\ socket.authenticated
     /\ wire' = Append(wire, PositionsAre(real))
     /\ UNCHANGED <<socket, real>>
  \/ /\ r.req = "Subscribe" /\ socket.authenticated
     /\ socket' = [socket EXCEPT !.subscribed = TRUE]
     /\ UNCHANGED <<wire, real>>
  \/ /\ r.req = "Order" /\ socket.authenticated
     /\ real' = [real EXCEPT ![r.symbol] = @ + r.qty]
     /\ wire' = IF socket.subscribed
                THEN Append(wire, PositionOf(r.symbol, real'[r.symbol])) ELSE wire
     /\ UNCHANGED socket
  \/ /\ \/ r.req \in {"FetchBalances", "SubscribeBooks", "ChangeMargin", "Withdrawal"}
        \/ r.req # "Authenticate" /\ ~socket.authenticated
     /\ UNCHANGED exchange

\* The position of a symbol once the thread has read what is on the wire.
Reported(s) ==
  LET hits == {i \in 1 .. Len(wire) : \/ wire[i].kind = "Positions"
                                      \/ wire[i].kind = "PositionStates" /\ wire[i].symbol = s}
      last == CHOOSE i \in hits : \A j \in hits : j <= i
  IN IF hits = {} THEN state.pos[s]
     ELSE IF wire[last].kind = "Positions" THEN wire[last].pos[s] ELSE wire[last].qty

\* The exchange reports a subscribed position whenever its value moves; reports
\* that repeat the last one are left out.
PositionReport(s) ==
  /\ socket.up /\ socket.subscribed /\ Reported(s) # real[s]
  /\ wire' = Append(wire, PositionOf(s, real[s]))
  /\ UNCHANGED <<state, ws, callback, sender, socket, real, call, dealer, bank, drops, orders>>

\* The thread writes the oldest request, whatever connection it was meant for.
WsWrites ==
  /\ ws.pc = "run" /\ socket.up /\ sender # <<>>
  /\ Answer(Head(sender))
  /\ sender' = Tail(sender)
  /\ UNCHANGED <<state, ws, callback, call, dealer, bank, drops, orders>>

\* write_message fails on a socket that is already gone: the thread ends, the
\* shared state stays as it is.
WsPanics ==
  /\ "write" \in Faults
  /\ ws.pc = "run" /\ ~socket.up /\ state.connected /\ sender # <<>>
  /\ ws' = [Running EXCEPT !.pc = "dead"]
  /\ sender' = Tail(sender)
  /\ UNCHANGED <<state, callback, exchange, call, dealer, bank, drops, orders>>

-----------------------------------------------------------------------------
\* Calls of the client.  They run in the main loop and take the mutex.

Free == ~ws.locked

InCall == call.todo # <<>>

\* Every level of a call passes an error up; the main loop logs it, or ends.
Fails ==
  /\ call' = NoCall
  /\ pc' = IF call.onError = "log" THEN pc ELSE "dead"
  /\ UNCHANGED sender

Returns == call' = [call EXCEPT !.todo = Tail(@)] /\ UNCHANGED pc

\* send_request: the request is queued if the connection is up and the thread
\* that takes it alive.
Sends(r) ==
  IF state.connected /\ ws.pc # "dead"
  THEN sender' = Append(sender, r) /\ Returns
  ELSE Fails

\* checked_send_request: initialise first when not authenticated.
CheckedSend(r) ==
  IF state.connected /\ ~state.authenticated
  THEN call' = [call EXCEPT !.todo = Initialise \o @] /\ UNCHANGED <<sender, pc>>
  ELSE Sends(r)

\* The next step of the call the main loop is in.
CallStep ==
  /\ InCall /\ pc # "dead" /\ Free
  /\ LET r == Head(call.todo) IN
     \/ r.req = "Wait" /\ state.authenticated /\ Returns /\ UNCHANGED sender
     \/ r.req = "Authenticate" /\ Sends(r)
     \/ r.req \notin {"Wait", "Authenticate"} /\ CheckedSend(r)
  /\ UNCHANGED <<thread, callback, real, flags, bankState, rest, bank, drops, orders>>

\* Whether an answer to an authentication may still reach the client.
AnswerComing ==
  /\ ws.pc # "dead"
  /\ \/ \E i \in 1 .. Len(sender) : sender[i].req = "Authenticate"
     \/ \E i \in 1 .. Len(wire) : wire[i].kind = "Authenticate"

\* wait_timeout_while runs out.
WaitTimesOut ==
  /\ InCall /\ pc # "dead" /\ Free
  /\ Head(call.todo).req = "Wait" /\ ~state.authenticated
  /\ "timeout" \in Faults \/ ~AnswerComing
  /\ Fails
  /\ UNCHANGED <<thread, callback, real, flags, bankState, rest, bank, drops, orders>>

-----------------------------------------------------------------------------
\* The main loop.  One iteration polls, in this order, the bank's socket, the
\* callback channel and the timer of the risk check; a poll that finds nothing
\* changes nothing, so each poll is an action of its own.

Idle == pc = "loop" /\ ~InCall

\* Before it polls, a loop that is ready but has no state of the bank asks for one.
NeedsBankState == flags.init /\ bankState = NoState

\* check_has_received_initial_data.
Checked(f) == [f EXCEPT !.init = f.positions /\ f.symbols /\ f.authenticated]

Subscribe == Call(<<Request("Subscribe")>>, "log")
SubscribeBooks == Call(<<Request("SubscribeBooks")>>, "log")
ChangeMargin == Call(<<Request("ChangeMargin")>>, "log")
Withdrawal == Call(<<Request("Withdrawal")>>, "panic")

\* Mutant: the flag of the positions survives a lost connection.
ResetStateKeepsPositions ==
  flags' = [NoFlags EXCEPT !.positions = flags.positions] /\ bankState' = NoState

\* reset_state.
ResetState == flags' = NoFlags /\ bankState' = NoState

\* A message of the callback channel (process_msg).
Process(m) ==
  \/ m.kind = "Disconnected" /\ ResetState /\ UNCHANGED call
  \/ /\ m.kind = "Authenticate"
     /\ flags' = Checked([flags EXCEPT !.authenticated = TRUE])
     /\ call' = Subscribe /\ UNCHANGED bankState
  \/ /\ m.kind \in {"Reconnected", "Refused"}
     /\ call' = Subscribe /\ UNCHANGED <<flags, bankState>>
  \/ /\ m.kind = "Positions"
     /\ flags' = Checked([flags EXCEPT !.positions = TRUE])
     /\ UNCHANGED <<call, bankState>>
  \/ /\ m.kind = "TradableSymbols"
     /\ flags' = Checked([flags EXCEPT !.symbols = TRUE])
     /\ call' = SubscribeBooks /\ UNCHANGED bankState
  \/ /\ m.kind = "PositionStates"
     /\ \/ UNCHANGED call
        \/ Margin /\ call' = ChangeMargin
     /\ UNCHANGED <<flags, bankState>>

KolliderMessage ==
  /\ Idle /\ ~NeedsBankState /\ callback # <<>>
  /\ Process(Head(callback))
  /\ callback' = Tail(callback)
  /\ UNCHANGED <<state, ws, sender, exchange, pc, rest, bank, drops, orders>>

\* check_risk_from_bank_state begins; without initial data it does nothing.
RiskCheck(exposures) ==
  /\ rest' = IF flags.init THEN DOMAIN exposures ELSE {}
  /\ pc' = IF flags.init THEN "check" ELSE "loop"

\* A state of the bank starts a risk check.
TakeBankState(m) ==
  /\ m.kind = "BankState"
  /\ bankState' = m.exposures /\ RiskCheck(m.exposures) /\ UNCHANGED call

\* A message of the bank (process_msg).
ProcessBankMessage(m) ==
  \/ TakeBankState(m)
  \/ /\ m.kind = "CreateInvoiceResponse"
     /\ call' = Withdrawal /\ UNCHANGED <<bankState, rest, pc>>

BankMessage ==
  /\ Idle /\ ~NeedsBankState /\ fromBank # <<>>
  /\ ProcessBankMessage(Head(fromBank))
  /\ fromBank' = Tail(fromBank)
  /\ UNCHANGED <<state, ws, callback, sender, exchange, flags, exposure, health, drops, changes,
                 orders>>

\* The state is requested, and everything else that comes first thrown away.
AwaitBankState ==
  /\ Idle /\ NeedsBankState
  /\ pc' = "await"
  /\ fromBank' = Append(fromBank, [kind |-> "BankState", exposures |-> exposure])
  /\ UNCHANGED <<state, ws, callback, sender, exchange, call, flags, bankState, rest,
                 exposure, health, drops, changes, orders>>

AwaitedMessage ==
  /\ pc = "await" /\ fromBank # <<>>
  /\ LET m == Head(fromBank) IN
     \/ TakeBankState(m)
     \/ m.kind # "BankState" /\ UNCHANGED <<bankState, rest, pc, call>>
  /\ fromBank' = Tail(fromBank)
  /\ UNCHANGED <<state, ws, callback, sender, exchange, flags, exposure, health, drops, changes,
                 orders>>

\* Every order has been filled, and the position it left reported.
AllReported ==
  /\ \A i \in 1 .. Len(sender) : sender[i].req # "Order"
  /\ state.positions => state.pos = real

\* The timer of the risk check.
RiskTimer ==
  /\ Idle /\ ~NeedsBankState /\ bankState # NoState /\ orders < MaxOrders
  /\ Prompt => AllReported
  /\ RiskCheck(bankState)
  /\ UNCHANGED <<state, ws, callback, sender, exchange, call, flags, bankState, bank, drops, orders>>

\* The timer of the health check (check_health).
HealthTimer ==
  /\ Idle /\ ~NeedsBankState /\ Free
  /\ health' = [status |-> IF state.authenticated THEN "Running" ELSE "Down",
                currencies |-> IF state.symbols THEN Symbols ELSE {}]
  /\ UNCHANGED <<state, ws, callback, sender, exchange, call, dealer, exposure, fromBank, drops,
                 changes, orders>>

\* Mutant: contracts are rounded down, whatever the sign.
ContractsTruncated(halves) == halves \div 2

\* calc_num_contracts_for_value: "We always round up".
Contracts(halves) == -((-halves) \div 2)

Abs(n) == IF n < 0 THEN -n ELSE n

\* The order that brings a position to what the exposure needs, no larger than
\* the cap; 0 within the tolerance.
OrderFor(s, halves, hedged) ==
  LET delta == Contracts(halves) - hedged
      qty == IF Abs(delta) > OrderCap[s] THEN OrderCap[s] ELSE Abs(delta)
  IN IF Abs(delta) < RiskTolerance[s] THEN 0 ELSE IF delta < 0 THEN -qty ELSE qty

\* One turn of the loop over the exposures.  The position is read under the
\* mutex; the order is placed after its release.
CheckSymbol(s) ==
  /\ pc = "check" /\ ~InCall /\ Free /\ s \in rest
  /\ rest' = rest \ {s}
  /\ LET qty == OrderFor(s, bankState[s], state.pos[s]) IN
     \/ /\ state.positions /\ qty # 0
        /\ orders' = orders + 1
        /\ call' = Call(<<Order(s, qty)>>, "panic")
     \/ /\ ~(state.positions /\ qty # 0)
        /\ UNCHANGED <<call, orders>>
  /\ UNCHANGED <<thread, callback, sender, real, pc, flags, bankState, bank, drops>>

CheckEnds ==
  /\ pc = "check" /\ ~InCall /\ rest = {}
  /\ pc' = "loop"
  /\ UNCHANGED <<state, ws, callback, sender, exchange, call, flags, bankState, rest, bank,
                 drops, orders>>

-----------------------------------------------------------------------------
\* The bank.

\* The exposures change.  A swap, a fiat deposit and the result of a payment tell
\* the dealer; a payment in fiat that is under way, or whose result is lost, does
\* not.
ExposureChanges ==
  /\ changes < MaxChanges
  /\ exposure' \in [Symbols -> Exposures]
  /\ \/ fromBank' = Append(fromBank, [kind |-> "BankState", exposures |-> exposure'])
     \/ UNCHANGED fromBank
  /\ changes' = changes + 1
  /\ UNCHANGED <<state, ws, callback, sender, exchange, call, dealer, health, drops, orders>>

\* The bank hands over an invoice for a withdrawal from the exchange.
InvoiceIssued ==
  /\ changes < MaxChanges
  /\ fromBank' = Append(fromBank, [kind |-> "CreateInvoiceResponse"])
  /\ changes' = changes + 1
  /\ UNCHANGED <<state, ws, callback, sender, exchange, call, dealer, exposure, health, drops, orders>>

Ws == SetDisconnected \/ SetReconnected \/ WsReads \/ SendToCallback \/ WsWrites

Next ==
  \/ SocketDrops \/ SetDisconnected \/ SetReconnected \/ WsReads \/ SendToCallback
  \/ WsWrites \/ WsPanics
  \/ \E s \in Symbols : PositionReport(s)
  \/ CallStep \/ WaitTimesOut
  \/ KolliderMessage \/ BankMessage \/ AwaitBankState \/ AwaitedMessage \/ RiskTimer
  \/ HealthTimer
  \/ \E s \in Symbols : CheckSymbol(s)
  \/ CheckEnds
  \/ ExposureChanges \/ InvoiceIssued

Spec == Init /\ [][Next]_vars

-----------------------------------------------------------------------------
\* Properties.

Kinds == {"Disconnected", "Reconnected", "Authenticate", "Refused", "TradableSymbols"}

Messages == [kind : Kinds] \cup [kind : {"Positions"}, pos : [Symbols -> Int]]
              \cup [kind : {"PositionStates"}, symbol : Symbols, qty : Int]

Requests ==
  [req : {"Authenticate", "Wait", "FetchTradableSymbols", "FetchPositions", "FetchBalances",
          "Subscribe", "SubscribeBooks", "ChangeMargin", "Withdrawal"}]
    \cup [req : {"Order"}, symbol : Symbols, qty : Int]

\* What the websocket thread works on, and the two channels.
ThreadTypeOK ==
  /\ state \in [connected : BOOLEAN, authenticated : BOOLEAN, positions : BOOLEAN,
                pos : [Symbols -> Int], symbols : BOOLEAN]
  /\ ws \in [pc : {"run", "dead"}, msg : {"none"}, locked : {FALSE}]
              \cup [pc : {"send"}, msg : Messages, locked : BOOLEAN]
  /\ callback \in Seq(Messages) /\ Len(callback) <= Capacity
  /\ wire \in Seq({m \in Messages : m.kind \notin {"Disconnected", "Reconnected"}})
  /\ socket \in [up : BOOLEAN, authenticated : BOOLEAN, subscribed : BOOLEAN]
  /\ real \in [Symbols -> Int]

\* What the main loop works on.
LoopTypeOK ==
  /\ sender \in Seq(Requests)
  /\ pc \in {"loop", "await", "check", "dead"}
  /\ call \in [todo : Seq(Requests), onError : {"log", "panic", "exit"}]
  /\ flags \in [authenticated : BOOLEAN, symbols : BOOLEAN, positions : BOOLEAN, init : BOOLEAN]
  /\ bankState \in [Symbols -> Exposures] \cup {NoState} /\ rest \subseteq Symbols
  /\ exposure \in [Symbols -> Exposures]
  /\ fromBank \in Seq([kind : {"BankState"}, exposures : [Symbols -> Exposures]]
                        \cup [kind : {"CreateInvoiceResponse"}])

\* Every variable keeps its type, and the channel its capacity (bounded(2024)).
TypeOK == ThreadTypeOK /\ LoopTypeOK

\* The messages the main loop has still to read.
Pending == IF ws.pc = "send" THEN Append(callback, ws.msg) ELSE callback

\* What a flag will be once the messages msgs have been read.
WillBe(flag, kind, msgs) ==
  LET D == 1 .. Len(msgs)
  IN \/ flag /\ \A i \in D : msgs[i].kind # "Disconnected"
     \/ \E i \in D : /\ msgs[i].kind = kind
                     /\ \A j \in D : j > i => msgs[j].kind # "Disconnected"

\* The main loop's flags trail the shared state by exactly the messages still
\* in the channel: whatever was lost, repeated or delayed, the loop does not
\* end up believing in data of a connection that is gone, nor missing data it
\* was sent (reset_state, process_incoming_message, set_disconnected).
FlagsFollowState ==
  /\ state.authenticated <=> WillBe(flags.authenticated, "Authenticate", Pending)
  /\ state.symbols <=> WillBe(flags.symbols, "TradableSymbols", Pending)
  /\ state.positions <=> WillBe(flags.positions, "Positions", Pending)

\* A thread that has marked the connection as lost has nothing left to read.
LostIsQuiet == ~state.connected => ~socket.up /\ wire = <<>> /\ ~state.authenticated

\* What the two threads keep between them.
ThreadInv == TypeOK /\ LostIsQuiet /\ FlagsFollowState

\* A risk check that has symbols left works on a state of the bank that is
\* still there: nothing resets it before the check ends (reset_state).
CheckHasState ==
  /\ rest # {} => bankState # NoState
  /\ pc \in {"loop", "await"} => rest = {}

\* The inductive invariant.
Inv == ThreadInv /\ CheckHasState

Dead == pc = "dead"

\* Every position covers the exposure the bank last told of: short of it by less
\* than the tolerance, beyond it by no more than that and the contract the
\* rounding adds.
Hedged ==
  \A s \in DOMAIN bankState :
    LET gap == bankState[s] - 2 * real[s]
    IN gap \in (1 - 2 * RiskTolerance[s]) .. (2 * RiskTolerance[s] - 2)

\* Connections may be lost at any step: unless the process ends, the dealer
\* has its initial data and the bank's state again in the end, and the bank has
\* been told that it runs (initialise, reset_state, check_health).
BecomesReady ==
  <>[](Dead \/ /\ flags.init /\ bankState # NoState
               /\ health = [status |-> "Running", currencies |-> Symbols])

\* Unless the process ends, the positions at the exchange come within tolerance
\* of the exposures that the bank last told of, through capped orders, lost
\* connections and exposures that change meanwhile (check_risk_from_bank_state).
HedgeConverges == <>[](Dead \/ (bankState # NoState /\ Hedged))

\* The scheduling: both threads keep running, the exchange becomes reachable
\* again and reports positions, and every poll of the main loop comes round.
Fairness ==
  /\ WF_vars(Ws) /\ WF_vars(CallStep) /\ WF_vars(WaitTimesOut)
  /\ WF_vars(AwaitBankState) /\ WF_vars(AwaitedMessage) /\ WF_vars(CheckEnds)
  /\ SF_vars(KolliderMessage) /\ SF_vars(BankMessage) /\ SF_vars(RiskTimer)
  /\ SF_vars(HealthTimer)
  /\ \A s \in Symbols : WF_vars(CheckSymbol(s)) /\ WF_vars(PositionReport(s))

LiveSpec == Spec /\ Fairness
=============================================================================
