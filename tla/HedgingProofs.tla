---------------------------- MODULE HedgingProofs ----------------------------
(***************************************************************************)
(* Proofs about the two threads of the dealer, for every set of symbols,   *)
(* every capacity of the channel and every number of lost connections.     *)
(***************************************************************************)
EXTENDS Hedging, TLAPS

\* The time that the SMT solver may take for a step.
USE SMTT(20)

\* One more message decides a flag, or leaves it as it was.
LEMMA WillBeAppend ==
  ASSUME NEW msgs \in Seq(Messages), NEW m \in Messages, NEW flag \in BOOLEAN,
         NEW kind, kind # "Disconnected"
  PROVE  WillBe(flag, kind, Append(msgs, m)) <=>
           /\ m.kind # "Disconnected"
           /\ m.kind = kind \/ WillBe(flag, kind, msgs)
<1> DEFINE all == Append(msgs, m)
<1>1. /\ Len(all) = Len(msgs) + 1 /\ all[Len(msgs) + 1] = m
      /\ \A i \in 1 .. Len(msgs) : all[i] = msgs[i]
      /\ Len(msgs) \in Nat
  OBVIOUS
<1> HIDE DEF all
<1>2. CASE m.kind = "Disconnected"
  BY <1>1, <1>2 DEF WillBe
<1>3. CASE m.kind # "Disconnected" /\ m.kind = kind
  BY <1>1, <1>3 DEF WillBe
<1>4. CASE m.kind # "Disconnected" /\ m.kind # kind
  BY <1>1, <1>4 DEF WillBe
<1> QED
  BY <1>2, <1>3, <1>4 DEF all

\* Reading the oldest message moves its effect from the channel to the flag.
LEMMA WillBeTail ==
  ASSUME NEW msgs \in Seq(Messages), msgs # <<>>, NEW flag \in BOOLEAN, NEW after \in BOOLEAN,
         NEW kind, kind # "Disconnected",
         after <=> (Head(msgs).kind # "Disconnected" /\ (flag \/ Head(msgs).kind = kind))
  PROVE  WillBe(flag, kind, msgs) <=> WillBe(after, kind, Tail(msgs))
<1> DEFINE t == Tail(msgs)
<1>1. /\ Len(msgs) = Len(t) + 1 /\ Len(t) \in Nat /\ Head(msgs) = msgs[1]
      /\ \A i \in 1 .. Len(t) : t[i] = msgs[i + 1]
  OBVIOUS
<1> HIDE DEF t
<1>2. ASSUME WillBe(flag, kind, msgs) PROVE WillBe(after, kind, t)
  <2>1. CASE flag /\ \A i \in 1 .. Len(msgs) : msgs[i].kind # "Disconnected"
    BY <1>1, <2>1 DEF WillBe
  <2>2. CASE \E i \in 1 .. Len(msgs) :
               /\ msgs[i].kind = kind
               /\ \A j \in 1 .. Len(msgs) : j > i => msgs[j].kind # "Disconnected"
    <3>1. PICK i \in 1 .. Len(msgs) :
                 /\ msgs[i].kind = kind
                 /\ \A j \in 1 .. Len(msgs) : j > i => msgs[j].kind # "Disconnected"
      BY <2>2
    <3>2. CASE i = 1
      BY <1>1, <3>1, <3>2 DEF WillBe
    <3>3. CASE i # 1
      <4>1. i - 1 \in 1 .. Len(t) /\ t[i - 1].kind = kind
        BY <1>1, <3>1, <3>3
      <4>2. \A j \in 1 .. Len(t) : j > i - 1 => t[j].kind # "Disconnected"
        BY <1>1, <3>1, <3>3
      <4> QED
        BY <4>1, <4>2 DEF WillBe
    <3> QED
      BY <3>2, <3>3
  <2> QED
    BY <1>2, <2>1, <2>2 DEF WillBe
<1>3. ASSUME WillBe(after, kind, t) PROVE WillBe(flag, kind, msgs)
  <2>0. \A j \in 1 .. Len(msgs) : j # 1 => j - 1 \in 1 .. Len(t) /\ msgs[j] = t[j - 1]
    BY <1>1
  <2>1. CASE after /\ \A i \in 1 .. Len(t) : t[i].kind # "Disconnected"
    <3>1. \A j \in 1 .. Len(msgs) : j > 1 => msgs[j].kind # "Disconnected"
      BY <2>0, <2>1
    <3>2. 1 \in 1 .. Len(msgs) /\ msgs[1].kind # "Disconnected" /\ (flag \/ msgs[1].kind = kind)
      BY <1>1, <2>1
    <3>3. \A j \in 1 .. Len(msgs) : j = 1 \/ j > 1
      BY <1>1
    <3> QED
      BY <3>1, <3>2, <3>3 DEF WillBe
  <2>2. CASE \E i \in 1 .. Len(t) :
               /\ t[i].kind = kind
               /\ \A j \in 1 .. Len(t) : j > i => t[j].kind # "Disconnected"
    <3>1. PICK i \in 1 .. Len(t) :
                 /\ t[i].kind = kind
                 /\ \A j \in 1 .. Len(t) : j > i => t[j].kind # "Disconnected"
      BY <2>2
    <3>2. i + 1 \in 1 .. Len(msgs) /\ msgs[i + 1].kind = kind
      BY <1>1, <3>1
    <3>3. \A j \in 1 .. Len(msgs) : j > i + 1 => msgs[j].kind # "Disconnected"
      BY <1>1, <2>0, <3>1
    <3> QED
      BY <3>2, <3>3 DEF WillBe
  <2> QED
    BY <1>3, <2>1, <2>2 DEF WillBe
<1> QED
  BY <1>2, <1>3 DEF t

\* A step that leaves the shared state, the channel and the flags alone.
LEMMA FlagsFrame ==
  ASSUME FlagsFollowState, UNCHANGED <<state, ws, callback, flags>>
  PROVE  FlagsFollowState'
BY DEF FlagsFollowState, Pending

\* A message that the thread takes up while nothing else is on its way.
LEMMA FlagsTakeUp ==
  ASSUME TypeOK, FlagsFollowState, ws.pc = "run", NEW m \in Messages, NEW l \in BOOLEAN,
         ws' = Sending(m, l), UNCHANGED <<callback, flags>>,
         state'.authenticated <=>
           m.kind # "Disconnected" /\ (m.kind = "Authenticate" \/ state.authenticated),
         state'.symbols <=>
           m.kind # "Disconnected" /\ (m.kind = "TradableSymbols" \/ state.symbols),
         state'.positions <=>
           m.kind # "Disconnected" /\ (m.kind = "Positions" \/ state.positions)
  PROVE  FlagsFollowState'
<1>1. Pending = callback /\ Pending' = Append(callback, m)
  BY DEF Pending, Sending
<1>2. /\ callback \in Seq(Messages) /\ flags.authenticated \in BOOLEAN
      /\ flags.symbols \in BOOLEAN /\ flags.positions \in BOOLEAN
  BY DEF TypeOK, ThreadTypeOK, LoopTypeOK
<1>3. state'.authenticated <=> WillBe(flags.authenticated, "Authenticate", Append(callback, m))
  BY <1>1, <1>2, WillBeAppend DEF FlagsFollowState
<1>4. state'.symbols <=> WillBe(flags.symbols, "TradableSymbols", Append(callback, m))
  BY <1>1, <1>2, WillBeAppend DEF FlagsFollowState
<1>5. state'.positions <=> WillBe(flags.positions, "Positions", Append(callback, m))
  BY <1>1, <1>2, WillBeAppend DEF FlagsFollowState
<1> QED
  BY <1>1, <1>3, <1>4, <1>5 DEF FlagsFollowState

\* A flag that takes in the oldest message keeps its final value.
LEMMA FlagReads ==
  ASSUME TypeOK, callback # <<>>, callback' = Tail(callback), ws' = ws,
         NEW flag \in BOOLEAN, NEW after \in BOOLEAN, NEW kind, kind # "Disconnected",
         after <=> (Head(callback).kind # "Disconnected" /\ (flag \/ Head(callback).kind = kind))
  PROVE  WillBe(flag, kind, Pending) <=> WillBe(after, kind, Pending')
<1>1. callback \in Seq(Messages) /\ Tail(callback) \in Seq(Messages)
  BY DEF TypeOK, ThreadTypeOK, LoopTypeOK
<1>2. WillBe(flag, kind, callback) <=> WillBe(after, kind, Tail(callback))
  BY <1>1, WillBeTail
<1>3. CASE ws.pc = "send"
  <2>1. Pending = Append(callback, ws.msg) /\ Pending' = Append(Tail(callback), ws.msg)
    BY <1>3 DEF Pending
  <2>2. ws.msg \in Messages
    BY <1>3, Zenon DEF TypeOK, ThreadTypeOK
  <2>3. WillBe(flag, kind, Append(callback, ws.msg)) <=>
          ws.msg.kind # "Disconnected" /\ (ws.msg.kind = kind \/ WillBe(flag, kind, callback))
    BY <1>1, <2>2, WillBeAppend
  <2>4. WillBe(after, kind, Append(Tail(callback), ws.msg)) <=>
          /\ ws.msg.kind # "Disconnected"
          /\ ws.msg.kind = kind \/ WillBe(after, kind, Tail(callback))
    BY <1>1, <2>2, WillBeAppend, Zenon
  <2> QED
    BY <1>2, <2>1, <2>3, <2>4
<1>4. CASE ws.pc # "send"
  BY <1>2, <1>4 DEF Pending
<1> QED
  BY <1>3, <1>4

\* The thread works on nothing of the main loop but the channels.
LEMMA LoopFrame ==
  ASSUME LoopTypeOK, UNCHANGED <<sender, call, dealer, bank>>
  PROVE  LoopTypeOK'
BY DEF LoopTypeOK, dealer, bank

\* The main loop works on nothing of the thread but the channels.
LEMMA ThreadFrame ==
  ASSUME ThreadInv, UNCHANGED <<state, ws, callback, socket, wire, real>>
  PROVE  ThreadTypeOK' /\ LostIsQuiet'
BY Zenon DEF ThreadInv, TypeOK, ThreadTypeOK, LostIsQuiet

-----------------------------------------------------------------------------
\* The websocket thread.

\* The messages of the exchange itself.
Sent == {m \in Messages : m.kind \notin {"Disconnected", "Reconnected"}}

\* Losing the connection keeps the invariant (SocketDrops).
LEMMA SocketDropsInv == ThreadInv /\ SocketDrops => ThreadInv'
<1> SUFFICES ASSUME ThreadInv, SocketDrops PROVE ThreadInv'
  OBVIOUS
<1>1. wire' \in Seq(Sent) /\ (wire = <<>> => wire' = <<>>)
  BY DEF ThreadInv, TypeOK, ThreadTypeOK, SocketDrops, Sent
<1>2. TypeOK'
  <2>1. LoopTypeOK'
    BY LoopFrame DEF ThreadInv, TypeOK, SocketDrops
  <2>2. ThreadTypeOK'
    BY <1>1, Zenon DEF ThreadInv, TypeOK, ThreadTypeOK, SocketDrops, Sent
  <2> QED
    BY <2>1, <2>2 DEF TypeOK
<1>3. LostIsQuiet'
  BY <1>1 DEF ThreadInv, TypeOK, ThreadTypeOK, LostIsQuiet, SocketDrops
<1>4. FlagsFollowState'
  BY FlagsFrame DEF ThreadInv, SocketDrops, dealer
<1> QED
  BY <1>2, <1>3, <1>4 DEF ThreadInv

\* Marking the connection as lost keeps the invariant (set_disconnected).
LEMMA SetDisconnectedInv == ThreadInv /\ SetDisconnected => ThreadInv'
<1> SUFFICES ASSUME ThreadInv, SetDisconnected PROVE ThreadInv'
  OBVIOUS
<1>1. Message("Disconnected") \in Messages /\ Message("Disconnected").kind = "Disconnected"
  BY DEF Message, Messages, Kinds
<1>2. ws' \in [pc : {"send"}, msg : Messages, locked : BOOLEAN]
  BY <1>1 DEF SetDisconnected, Sending
<1>3. TypeOK'
  <2>1. LoopTypeOK'
    BY LoopFrame DEF ThreadInv, TypeOK, SetDisconnected
  <2>3. state' \in [connected : BOOLEAN, authenticated : BOOLEAN, positions : BOOLEAN,
                    pos : [Symbols -> Int], symbols : BOOLEAN]
    BY DEF SetDisconnected, Cleared, NoPositions
  <2>2. ThreadTypeOK'
    BY <1>2, <2>3, Zenon DEF ThreadInv, TypeOK, ThreadTypeOK, SetDisconnected, exchange
  <2> QED
    BY <2>1, <2>2 DEF TypeOK
<1>4. LostIsQuiet'
  BY DEF ThreadInv, LostIsQuiet, SetDisconnected, Cleared, exchange
<1>5. FlagsFollowState'
  BY <1>1, FlagsTakeUp, Zenon DEF ThreadInv, SetDisconnected, Cleared, dealer
<1> QED
  BY <1>3, <1>4, <1>5 DEF ThreadInv

\* A new socket keeps the invariant (set_reconnected).
LEMMA SetReconnectedInv == ThreadInv /\ SetReconnected => ThreadInv'
<1> SUFFICES ASSUME ThreadInv, SetReconnected PROVE ThreadInv'
  OBVIOUS
<1>1. Message("Reconnected") \in Messages /\ Message("Reconnected").kind = "Reconnected"
  BY DEF Message, Messages, Kinds
<1>2. ws' \in [pc : {"send"}, msg : Messages, locked : BOOLEAN]
  BY <1>1 DEF SetReconnected, Sending
<1>3. /\ state'.connected /\ state'.authenticated = FALSE /\ ~state.authenticated
      /\ state'.symbols = state.symbols /\ state'.positions = state.positions
  BY DEF ThreadInv, TypeOK, ThreadTypeOK, LostIsQuiet, SetReconnected
<1>4. TypeOK'
  <2>1. LoopTypeOK'
    BY LoopFrame DEF ThreadInv, TypeOK, SetReconnected
  <2>2. ThreadTypeOK'
    BY <1>2, Zenon DEF ThreadInv, TypeOK, ThreadTypeOK, SetReconnected, NewSocket
  <2> QED
    BY <2>1, <2>2 DEF TypeOK
<1>5. LostIsQuiet'
  BY <1>3 DEF LostIsQuiet
<1>6. FlagsFollowState'
  BY <1>1, <1>3, FlagsTakeUp, Zenon DEF ThreadInv, SetReconnected, dealer
<1> QED
  BY <1>4, <1>5, <1>6 DEF ThreadInv

\* Reading a message keeps the invariant (process_incoming_message).
LEMMA WsReadsInv == ThreadInv /\ WsReads => ThreadInv'
<1> SUFFICES ASSUME ThreadInv, WsReads PROVE ThreadInv'
  OBVIOUS
<1>1. PICK m \in Sent : m = Head(wire)
  BY DEF ThreadInv, TypeOK, ThreadTypeOK, WsReads, Sent
<1>2. wire' \in Seq(Sent)
  BY DEF ThreadInv, TypeOK, ThreadTypeOK, WsReads, Sent
<1>3. m \in Messages /\ m.kind # "Disconnected" /\ ws' = Sending(m, FALSE)
  BY <1>1 DEF Sent, WsReads
<1>4. state' = Received(state, m)
  BY <1>1 DEF WsReads
<1>5. /\ state' \in [connected : BOOLEAN, authenticated : BOOLEAN, positions : BOOLEAN,
                     pos : [Symbols -> Int], symbols : BOOLEAN]
      /\ state'.connected = state.connected
      /\ state'.authenticated <=> m.kind = "Authenticate" \/ state.authenticated
      /\ state'.symbols <=> m.kind = "TradableSymbols" \/ state.symbols
      /\ state'.positions <=> m.kind = "Positions" \/ state.positions
  <2>1. CASE m.kind = "Authenticate"
    BY <1>4, <2>1, Zenon DEF Received, ThreadInv, TypeOK, ThreadTypeOK
  <2>2. CASE m.kind = "PositionStates"
    BY <1>3, <1>4, <2>2, Zenon DEF Received, ThreadInv, TypeOK, ThreadTypeOK, Messages, Kinds
  <2>3. CASE m.kind = "Positions"
    BY <1>3, <1>4, <2>3, Zenon DEF Received, ThreadInv, TypeOK, ThreadTypeOK, Messages, Kinds
  <2>4. CASE m.kind = "TradableSymbols"
    BY <1>4, <2>4, Zenon DEF Received, ThreadInv, TypeOK, ThreadTypeOK
  <2>5. CASE m.kind \notin {"Authenticate", "PositionStates", "Positions", "TradableSymbols"}
    BY <1>4, <2>5 DEF Received, ThreadInv, TypeOK, ThreadTypeOK
  <2> QED
    BY <2>1, <2>2, <2>3, <2>4, <2>5
<1>6. ws' \in [pc : {"send"}, msg : Messages, locked : BOOLEAN]
  BY <1>3 DEF Sending
<1>7. TypeOK'
  <2>1. LoopTypeOK'
    BY LoopFrame DEF ThreadInv, TypeOK, WsReads
  <2>2. ThreadTypeOK'
    BY <1>2, <1>5, <1>6, Zenon DEF ThreadInv, TypeOK, ThreadTypeOK, WsReads, Sent
  <2> QED
    BY <2>1, <2>2 DEF TypeOK
<1>8. LostIsQuiet'
  BY <1>5 DEF ThreadInv, LostIsQuiet, WsReads
<1>9. FlagsFollowState'
  BY <1>3, <1>5, FlagsTakeUp, Zenon DEF ThreadInv, WsReads, dealer
<1> QED
  BY <1>7, <1>8, <1>9 DEF ThreadInv

\* Passing a message on keeps the invariant (send_to_callback).
LEMMA SendToCallbackInv == ThreadInv /\ SendToCallback => ThreadInv'
<1> SUFFICES ASSUME ThreadInv, SendToCallback PROVE ThreadInv'
  OBVIOUS
<1>1. ws.msg \in Messages
  BY Zenon DEF ThreadInv, TypeOK, ThreadTypeOK, SendToCallback
<1>2. callback' \in Seq(Messages) /\ Len(callback') <= Capacity
  BY <1>1, HedgingAssumption DEF ThreadInv, TypeOK, ThreadTypeOK, SendToCallback
<1>3. TypeOK'
  <2>1. LoopTypeOK'
    BY LoopFrame DEF ThreadInv, TypeOK, SendToCallback
  <2>2. ThreadTypeOK'
    BY <1>2 DEF ThreadInv, TypeOK, ThreadTypeOK, SendToCallback, Running, exchange
  <2> QED
    BY <2>1, <2>2 DEF TypeOK
<1>4. LostIsQuiet'
  BY DEF ThreadInv, LostIsQuiet, SendToCallback, exchange
<1>5. Pending' = Pending
  BY DEF SendToCallback, Running, Pending
<1>6. FlagsFollowState'
  BY <1>5 DEF ThreadInv, FlagsFollowState, SendToCallback, dealer
<1> QED
  BY <1>3, <1>4, <1>6 DEF ThreadInv

\* Writing a request keeps the invariant (write_message).
LEMMA WsWritesInv == ThreadInv /\ WsWrites => ThreadInv'
<1> SUFFICES ASSUME ThreadInv, WsWrites PROVE ThreadInv'
  OBVIOUS
<1>1. PICK r \in Requests : r = Head(sender) /\ Answer(r)
  BY DEF ThreadInv, TypeOK, LoopTypeOK, WsWrites
<1>2. sender' \in Seq(Requests)
  BY DEF ThreadInv, TypeOK, LoopTypeOK, WsWrites
<1>3. wire \in Seq(Sent) /\ real \in [Symbols -> Int]
  BY DEF ThreadInv, TypeOK, ThreadTypeOK, Sent
<1>4. socket \in [up : BOOLEAN, authenticated : BOOLEAN, subscribed : BOOLEAN]
  BY DEF ThreadInv, TypeOK, ThreadTypeOK
<1>5. /\ Message("Authenticate") \in Sent /\ Message("Refused") \in Sent
      /\ Message("TradableSymbols") \in Sent /\ PositionsAre(real) \in Sent
      /\ \A s \in Symbols, n \in Int : PositionOf(s, n) \in Sent
  BY <1>3 DEF Message, PositionsAre, PositionOf, Sent, Messages, Kinds
<1>6. /\ wire' \in Seq(Sent) /\ real' \in [Symbols -> Int]
      /\ socket' \in [up : BOOLEAN, authenticated : BOOLEAN, subscribed : BOOLEAN]
  <2>1. CASE /\ r.req = "Authenticate"
             /\ socket' = [socket EXCEPT !.authenticated = TRUE]
             /\ wire' = Append(wire, Message("Authenticate"))
             /\ UNCHANGED real
    <3>1. wire' \in Seq(Sent)
      BY <1>3, <1>5, <2>1
    <3>2. socket' \in [up : BOOLEAN, authenticated : BOOLEAN, subscribed : BOOLEAN]
      BY <1>4, <2>1, Zenon
    <3> QED
      BY <1>3, <2>1, <3>1, <3>2
  <2>2. CASE wire' = Append(wire, Message("Refused")) /\ UNCHANGED <<socket, real>>
    BY <1>3, <1>4, <1>5, <2>2
  <2>3. CASE wire' = Append(wire, Message("TradableSymbols")) /\ UNCHANGED <<socket, real>>
    BY <1>3, <1>4, <1>5, <2>3
  <2>4. CASE wire' = Append(wire, PositionsAre(real)) /\ UNCHANGED <<socket, real>>
    <3>1. PICK m \in Sent : m = PositionsAre(real)
      BY <1>5
    <3>2. wire' = Append(wire, m)
      BY <2>4, <3>1
    <3>3. wire' \in Seq(Sent)
      BY <1>3, <3>2
    <3> QED
      BY <1>3, <1>4, <2>4, <3>3
  <2>5. CASE socket' = [socket EXCEPT !.subscribed = TRUE] /\ UNCHANGED <<wire, real>>
    BY <1>3, <1>4, <2>5, Zenon
  <2>6. CASE /\ r.req = "Order"
             /\ real' = [real EXCEPT ![r.symbol] = @ + r.qty]
             /\ wire' = IF socket.subscribed
                        THEN Append(wire, PositionOf(r.symbol, real'[r.symbol])) ELSE wire
             /\ UNCHANGED socket
    <3>1. r.symbol \in Symbols /\ r.qty \in Int
      BY <1>1, <2>6 DEF Requests
    <3>2. real' \in [Symbols -> Int] /\ real'[r.symbol] \in Int
      BY <1>3, <2>6, <3>1
    <3>3. PICK n \in Int : n = real'[r.symbol]
      BY <3>2
    <3>4. wire' = wire \/ wire' = Append(wire, PositionOf(r.symbol, n))
      BY <2>6, <3>3
    <3>5. PositionOf(r.symbol, n) \in Sent
      BY <1>5, <3>1
    <3>6. wire' \in Seq(Sent)
      BY <1>3, <3>4, <3>5
    <3> QED
      BY <1>4, <2>6, <3>2, <3>6
  <2>7. CASE UNCHANGED exchange
    BY <1>3, <1>4, <2>7 DEF exchange
  <2> QED
    BY <1>1, <2>1, <2>2, <2>3, <2>4, <2>5, <2>6, <2>7, Zenon DEF Answer
<1>7. TypeOK'
  <2>1. LoopTypeOK'
    BY <1>2 DEF ThreadInv, TypeOK, LoopTypeOK, WsWrites, dealer, bank
  <2>2. ThreadTypeOK'
    BY <1>6, Zenon DEF ThreadInv, TypeOK, ThreadTypeOK, WsWrites, Sent
  <2> QED
    BY <2>1, <2>2 DEF TypeOK
<1>8. LostIsQuiet'
  BY DEF ThreadInv, LostIsQuiet, WsWrites
<1>9. FlagsFollowState'
  BY FlagsFrame DEF ThreadInv, WsWrites, dealer
<1> QED
  BY <1>7, <1>8, <1>9 DEF ThreadInv

\* The end of the thread keeps the invariant.
LEMMA WsPanicsInv == ThreadInv /\ WsPanics => ThreadInv'
<1> SUFFICES ASSUME ThreadInv, WsPanics PROVE ThreadInv'
  OBVIOUS
<1>1. sender' \in Seq(Requests)
  BY DEF ThreadInv, TypeOK, LoopTypeOK, WsPanics
<1>2. ws' \in [pc : {"run", "dead"}, msg : {"none"}, locked : {FALSE}] /\ ws'.pc = "dead"
  BY Zenon DEF WsPanics, Running
<1>3. LoopTypeOK'
  BY <1>1 DEF ThreadInv, TypeOK, LoopTypeOK, WsPanics, dealer, bank
<1>4. ThreadTypeOK' /\ LostIsQuiet'
  BY <1>2, Zenon DEF ThreadInv, TypeOK, ThreadTypeOK, LostIsQuiet, WsPanics, exchange
<1>5. Pending' = Pending
  BY <1>2 DEF WsPanics, Pending
<1>6. FlagsFollowState'
  BY <1>5 DEF ThreadInv, FlagsFollowState, WsPanics, dealer
<1> QED
  BY <1>3, <1>4, <1>6 DEF ThreadInv, TypeOK

\* A report of the exchange keeps the invariant.
LEMMA PositionReportInv == \A s \in Symbols : ThreadInv /\ PositionReport(s) => ThreadInv'
<1> SUFFICES ASSUME NEW s \in Symbols, ThreadInv, PositionReport(s) PROVE ThreadInv'
  OBVIOUS
<1>1. wire \in Seq(Sent) /\ real[s] \in Int
  BY DEF ThreadInv, TypeOK, ThreadTypeOK, Sent
<1>2. PositionOf(s, real[s]) \in Sent
  BY <1>1 DEF PositionOf, Sent, Messages, Kinds
<1>3. wire' \in Seq(Sent)
  BY <1>1, <1>2 DEF PositionReport
<1>4. LoopTypeOK'
  BY LoopFrame DEF ThreadInv, TypeOK, PositionReport
<1>5. ThreadTypeOK'
  BY <1>3, Zenon DEF ThreadInv, TypeOK, ThreadTypeOK, PositionReport, Sent
<1>6. LostIsQuiet'
  BY DEF ThreadInv, LostIsQuiet, PositionReport
<1>7. FlagsFollowState'
  BY FlagsFrame DEF ThreadInv, PositionReport, dealer
<1> QED
  BY <1>4, <1>5, <1>6, <1>7 DEF ThreadInv, TypeOK

-----------------------------------------------------------------------------
\* The main loop.

\* What a call of the client may do to the main loop.
CallKeeps ==
  /\ sender' \in Seq(Requests) /\ pc' \in {"loop", "await", "check", "dead"}
  /\ call' \in [todo : Seq(Requests), onError : {"log", "panic", "exit"}]

\* Only the first three conjuncts of LoopTypeOK speak of what a call touches.
LEMMA CallFrame ==
  ASSUME ThreadInv, CallKeeps,
         UNCHANGED <<thread, callback, real, flags, bankState, rest, bank, drops, orders>>
  PROVE  ThreadInv'
<1>1. LoopTypeOK'
  BY DEF ThreadInv, TypeOK, LoopTypeOK, CallKeeps, bank
<1>2. ThreadTypeOK' /\ LostIsQuiet'
  BY ThreadFrame DEF thread
<1>3. FlagsFollowState'
  BY FlagsFrame DEF ThreadInv, thread
<1> QED
  BY <1>1, <1>2, <1>3 DEF ThreadInv, TypeOK

\* An error ends the call.
LEMMA FailsKeeps == ThreadInv /\ Fails => CallKeeps
<1> SUFFICES ASSUME ThreadInv, Fails PROVE CallKeeps
  OBVIOUS
<1>1. sender \in Seq(Requests) /\ pc \in {"loop", "await", "check", "dead"}
  BY DEF ThreadInv, TypeOK, LoopTypeOK
<1>2. call' \in [todo : Seq(Requests), onError : {"log", "panic", "exit"}]
  BY DEF Fails, NoCall, Call
<1> QED
  BY <1>1, <1>2 DEF Fails, CallKeeps

\* A call returns to the level that made it.
LEMMA ReturnsKeeps ==
  ASSUME ThreadInv, InCall, Returns, sender' \in Seq(Requests)
  PROVE  CallKeeps
<1>1. call \in [todo : Seq(Requests), onError : {"log", "panic", "exit"}]
  BY DEF ThreadInv, TypeOK, LoopTypeOK
<1>2. Tail(call.todo) \in Seq(Requests)
  BY <1>1 DEF InCall
<1>3. call' \in [todo : Seq(Requests), onError : {"log", "panic", "exit"}]
  BY <1>1, <1>2, Zenon DEF Returns
<1> QED
  BY <1>3 DEF ThreadInv, TypeOK, LoopTypeOK, Returns, CallKeeps

\* Queueing a request (send_request).
LEMMA SendsKeeps ==
  ASSUME ThreadInv, InCall, NEW r \in Requests, Sends(r)
  PROVE  CallKeeps
<1>1. CASE state.connected /\ ws.pc # "dead"
  <2>1. sender' = Append(sender, r) /\ Returns
    BY <1>1 DEF Sends
  <2>2. sender' \in Seq(Requests)
    BY <2>1 DEF ThreadInv, TypeOK, LoopTypeOK
  <2> QED
    BY <2>1, <2>2, ReturnsKeeps
<1>2. CASE ~(state.connected /\ ws.pc # "dead")
  BY <1>2, FailsKeeps DEF Sends
<1> QED
  BY <1>1, <1>2

\* A step of a call keeps the invariant (initialise, checked_send_request).
LEMMA CallStepInv == ThreadInv /\ CallStep => ThreadInv'
<1> SUFFICES ASSUME ThreadInv, CallStep PROVE ThreadInv'
  OBVIOUS
<1>1. call \in [todo : Seq(Requests), onError : {"log", "panic", "exit"}]
  BY DEF ThreadInv, TypeOK, LoopTypeOK
<1>2. InCall
  BY DEF CallStep
<1>3. PICK r \in Requests :
        \/ Returns /\ UNCHANGED sender
        \/ Sends(r)
        \/ CheckedSend(r)
  <2>1. Head(call.todo) \in Requests
    BY <1>1, <1>2 DEF InCall
  <2> QED
    BY <2>1, Zenon DEF CallStep
<1>4. CallKeeps
  <2>1. CASE Returns /\ UNCHANGED sender
    BY <1>2, <2>1, ReturnsKeeps DEF ThreadInv, TypeOK, LoopTypeOK
  <2>2. CASE Sends(r)
    BY <1>2, <2>2, SendsKeeps
  <2>3. CASE call' = [call EXCEPT !.todo = Initialise \o @] /\ UNCHANGED <<sender, pc>>
    <3>1. Initialise \in Seq(Requests)
      BY DEF Initialise, Request, Requests
    <3>2. PICK i \in Seq(Requests) : i = Initialise
      BY <3>1
    <3>3. i \o call.todo \in Seq(Requests)
      BY <1>1
    <3>4. call' \in [todo : Seq(Requests), onError : {"log", "panic", "exit"}]
      BY <1>1, <2>3, <3>2, <3>3, Zenon
    <3> QED
      BY <2>3, <3>4 DEF ThreadInv, TypeOK, LoopTypeOK, CallKeeps
  <2> QED
    BY <1>3, <2>1, <2>2, <2>3 DEF CheckedSend
<1> QED
  BY <1>4, CallFrame DEF CallStep

\* A wait that runs out keeps the invariant (authenticate).
LEMMA WaitTimesOutInv == ThreadInv /\ WaitTimesOut => ThreadInv'
BY FailsKeeps, CallFrame DEF WaitTimesOut

\* Reading a message of the exchange keeps the invariant: each flag takes in
\* what it reads (process_msg, reset_state).
LEMMA KolliderMessageInv == ThreadInv /\ KolliderMessage => ThreadInv'
<1> SUFFICES ASSUME ThreadInv, KolliderMessage PROVE ThreadInv'
  OBVIOUS
<1>1. /\ callback \in Seq(Messages) /\ callback # <<>>
      /\ callback' = Tail(callback) /\ ws' = ws /\ state' = state
  BY DEF ThreadInv, TypeOK, ThreadTypeOK, KolliderMessage
<1>2. PICK m \in Messages : m = Head(callback)
  BY <1>1
<1>3. Process(m)
  BY <1>2 DEF KolliderMessage
<1>4. flags \in [authenticated : BOOLEAN, symbols : BOOLEAN, positions : BOOLEAN, init : BOOLEAN]
  BY DEF ThreadInv, TypeOK, LoopTypeOK
<1>5. /\ flags' \in [authenticated : BOOLEAN, symbols : BOOLEAN, positions : BOOLEAN,
                     init : BOOLEAN]
      /\ flags'.authenticated <=>
           m.kind # "Disconnected" /\ (flags.authenticated \/ m.kind = "Authenticate")
      /\ flags'.symbols <=>
           m.kind # "Disconnected" /\ (flags.symbols \/ m.kind = "TradableSymbols")
      /\ flags'.positions <=>
           m.kind # "Disconnected" /\ (flags.positions \/ m.kind = "Positions")
  <2>1. CASE m.kind = "Disconnected"
    <3>1. flags' = NoFlags
      BY <1>3, <2>1 DEF Process, ResetState
    <3> QED
      BY <2>1, <3>1 DEF NoFlags
  <2>2. CASE m.kind = "Authenticate"
    <3>1. flags' = Checked([flags EXCEPT !.authenticated = TRUE])
      BY <1>3, <2>2 DEF Process
    <3> QED
      BY <1>4, <2>2, <3>1, Zenon DEF Checked
  <2>3. CASE m.kind = "Positions"
    <3>1. flags' = Checked([flags EXCEPT !.positions = TRUE])
      BY <1>3, <2>3 DEF Process
    <3> QED
      BY <1>4, <2>3, <3>1, Zenon DEF Checked
  <2>4. CASE m.kind = "TradableSymbols"
    <3>1. flags' = Checked([flags EXCEPT !.symbols = TRUE])
      BY <1>3, <2>4 DEF Process
    <3> QED
      BY <1>4, <2>4, <3>1, ZenonT(30) DEF Checked
  <2>5. CASE m.kind \in {"Reconnected", "Refused", "PositionStates"}
    <3>1. flags' = flags
      BY <1>3, <2>5 DEF Process
    <3> QED
      BY <1>4, <2>5, <3>1
  <2> QED
    BY <2>1, <2>2, <2>3, <2>4, <2>5 DEF Messages, Kinds
<1>6. FlagsFollowState'
  <2>1. WillBe(flags.authenticated, "Authenticate", Pending) <=>
          WillBe(flags'.authenticated, "Authenticate", Pending')
    BY <1>1, <1>2, <1>4, <1>5, FlagReads DEF ThreadInv
  <2>2. WillBe(flags.symbols, "TradableSymbols", Pending) <=>
          WillBe(flags'.symbols, "TradableSymbols", Pending')
    BY <1>1, <1>2, <1>4, <1>5, FlagReads DEF ThreadInv
  <2>3. WillBe(flags.positions, "Positions", Pending) <=>
          WillBe(flags'.positions, "Positions", Pending')
    BY <1>1, <1>2, <1>4, <1>5, FlagReads DEF ThreadInv
  <2> QED
    BY <1>1, <2>1, <2>2, <2>3 DEF ThreadInv, FlagsFollowState
<1>7. LoopTypeOK'
  <2>1. call' \in [todo : Seq(Requests), onError : {"log", "panic", "exit"}]
    <3>1. /\ Subscribe \in [todo : Seq(Requests), onError : {"log", "panic", "exit"}]
          /\ SubscribeBooks \in [todo : Seq(Requests), onError : {"log", "panic", "exit"}]
          /\ ChangeMargin \in [todo : Seq(Requests), onError : {"log", "panic", "exit"}]
      BY DEF Subscribe, SubscribeBooks, ChangeMargin, Call, Request, Requests
    <3>2. call' \in {call, Subscribe, SubscribeBooks, ChangeMargin}
      BY <1>3 DEF Process
    <3> QED
      BY <3>1, <3>2 DEF ThreadInv, TypeOK, LoopTypeOK
  <2>2. bankState' \in [Symbols -> Exposures] \cup {NoState}
    BY <1>3 DEF Process, ResetState, ThreadInv, TypeOK, LoopTypeOK
  <2> QED
    BY <1>5, <2>1, <2>2 DEF ThreadInv, TypeOK, LoopTypeOK, KolliderMessage, bank
<1>8. ThreadTypeOK' /\ LostIsQuiet'
  <2>1. callback' \in Seq(Messages) /\ Len(callback') <= Capacity
    BY <1>1, HedgingAssumption DEF ThreadInv, TypeOK, ThreadTypeOK
  <2> QED
    BY <2>1, ZenonT(30) DEF ThreadInv, TypeOK, ThreadTypeOK, LostIsQuiet, KolliderMessage, exchange
<1> QED
  BY <1>6, <1>7, <1>8 DEF ThreadInv, TypeOK

\* The messages of the bank.
FromBank == [kind : {"BankState"}, exposures : [Symbols -> Exposures]]
              \cup [kind : {"CreateInvoiceResponse"}]

\* The main loop works on its own variables and the messages of the bank.
LEMMA BankFrame ==
  ASSUME ThreadInv, UNCHANGED <<state, ws, callback, exchange, flags>>, LoopTypeOK'
  PROVE  ThreadInv'
<1>1. ThreadTypeOK' /\ LostIsQuiet'
  BY ThreadFrame DEF exchange
<1>2. FlagsFollowState'
  BY FlagsFrame DEF ThreadInv
<1> QED
  BY <1>1, <1>2 DEF ThreadInv, TypeOK

\* A risk check begins with the symbols of the exposures.
LEMMA RiskCheckKeeps ==
  ASSUME NEW e \in [Symbols -> Exposures], RiskCheck(e)
  PROVE  rest' \subseteq Symbols /\ pc' \in {"loop", "await", "check", "dead"}
BY DEF RiskCheck

\* A message of the bank leaves every variable its type.
LEMMA ProcessBankKeeps ==
  ASSUME ThreadInv, NEW m \in FromBank, ProcessBankMessage(m)
  PROVE  /\ bankState' \in [Symbols -> Exposures] \cup {NoState} /\ rest' \subseteq Symbols
         /\ pc' \in {"loop", "await", "check", "dead"}
         /\ call' \in [todo : Seq(Requests), onError : {"log", "panic", "exit"}]
<1>1. CASE m.kind = "BankState"
  <2>1. m.exposures \in [Symbols -> Exposures]
    BY <1>1 DEF FromBank
  <2>2. bankState' = m.exposures /\ RiskCheck(m.exposures) /\ UNCHANGED call
    BY <1>1 DEF ProcessBankMessage, TakeBankState
  <2>3. rest' \subseteq Symbols /\ pc' \in {"loop", "await", "check", "dead"}
    BY <2>1, <2>2, RiskCheckKeeps
  <2> QED
    BY <2>1, <2>2, <2>3 DEF ThreadInv, TypeOK, LoopTypeOK
<1>2. CASE m.kind = "CreateInvoiceResponse"
  <2>1. call' = Withdrawal /\ UNCHANGED <<bankState, rest, pc>>
    BY <1>2 DEF ProcessBankMessage, TakeBankState
  <2>2. Withdrawal \in [todo : Seq(Requests), onError : {"log", "panic", "exit"}]
    BY DEF Withdrawal, Call, Request, Requests
  <2> QED
    BY <2>1, <2>2 DEF ThreadInv, TypeOK, LoopTypeOK
<1> QED
  BY <1>1, <1>2 DEF FromBank

\* Reading a message of the bank keeps the invariant (process_msg).
LEMMA BankMessageInv == ThreadInv /\ BankMessage => ThreadInv'
<1> SUFFICES ASSUME ThreadInv, BankMessage PROVE ThreadInv'
  OBVIOUS
<1>1. fromBank \in Seq(FromBank) /\ fromBank # <<>>
  BY DEF ThreadInv, TypeOK, LoopTypeOK, FromBank, BankMessage
<1>2. Head(fromBank) \in FromBank /\ Tail(fromBank) \in Seq(FromBank)
  BY <1>1
<1>3. /\ bankState' \in [Symbols -> Exposures] \cup {NoState} /\ rest' \subseteq Symbols
      /\ pc' \in {"loop", "await", "check", "dead"}
      /\ call' \in [todo : Seq(Requests), onError : {"log", "panic", "exit"}]
  BY <1>2, ProcessBankKeeps DEF BankMessage
<1>4. LoopTypeOK'
  BY <1>2, <1>3 DEF ThreadInv, TypeOK, LoopTypeOK, BankMessage, FromBank
<1> QED
  BY <1>4, BankFrame DEF BankMessage

\* Asking for the state of the bank keeps the invariant.
LEMMA AwaitBankStateInv == ThreadInv /\ AwaitBankState => ThreadInv'
<1> SUFFICES ASSUME ThreadInv, AwaitBankState PROVE ThreadInv'
  OBVIOUS
<1>1. fromBank \in Seq(FromBank) /\ exposure \in [Symbols -> Exposures]
  BY DEF ThreadInv, TypeOK, LoopTypeOK, FromBank
<1>2. [kind |-> "BankState", exposures |-> exposure] \in FromBank
  BY <1>1 DEF FromBank
<1>3. fromBank' \in Seq(FromBank)
  BY <1>1, <1>2 DEF AwaitBankState
<1>4. LoopTypeOK'
  BY <1>3 DEF ThreadInv, TypeOK, LoopTypeOK, AwaitBankState, FromBank
<1> QED
  BY <1>4, BankFrame DEF AwaitBankState

\* Reading what comes before the awaited state, and that state, keeps the
\* invariant.
LEMMA AwaitedMessageInv == ThreadInv /\ AwaitedMessage => ThreadInv'
<1> SUFFICES ASSUME ThreadInv, AwaitedMessage PROVE ThreadInv'
  OBVIOUS
<1>1. fromBank \in Seq(FromBank) /\ fromBank # <<>>
  BY DEF ThreadInv, TypeOK, LoopTypeOK, FromBank, AwaitedMessage
<1>2. Head(fromBank) \in FromBank /\ Tail(fromBank) \in Seq(FromBank)
  BY <1>1
<1>3. /\ bankState' \in [Symbols -> Exposures] \cup {NoState} /\ rest' \subseteq Symbols
      /\ pc' \in {"loop", "await", "check", "dead"}
      /\ call' \in [todo : Seq(Requests), onError : {"log", "panic", "exit"}]
  <2>1. CASE TakeBankState(Head(fromBank))
    BY <1>2, <2>1, ProcessBankKeeps DEF ProcessBankMessage
  <2>2. CASE UNCHANGED <<bankState, rest, pc, call>>
    BY <2>2 DEF ThreadInv, TypeOK, LoopTypeOK
  <2> QED
    BY <2>1, <2>2 DEF AwaitedMessage
<1>4. LoopTypeOK'
  BY <1>2, <1>3 DEF ThreadInv, TypeOK, LoopTypeOK, AwaitedMessage, FromBank
<1> QED
  BY <1>4, BankFrame DEF AwaitedMessage

\* The timers keep the invariant (check_risk, check_health).
LEMMA TimersInv == ThreadInv /\ (RiskTimer \/ HealthTimer \/ CheckEnds) => ThreadInv'
<1> SUFFICES ASSUME ThreadInv, RiskTimer \/ HealthTimer \/ CheckEnds PROVE ThreadInv'
  OBVIOUS
<1>1. CASE RiskTimer
  <2>1. bankState \in [Symbols -> Exposures]
    BY <1>1 DEF ThreadInv, TypeOK, LoopTypeOK, RiskTimer
  <2>2. rest' \subseteq Symbols /\ pc' \in {"loop", "await", "check", "dead"}
    BY <1>1, <2>1, RiskCheckKeeps DEF RiskTimer
  <2>3. LoopTypeOK'
    BY <1>1, <2>2 DEF ThreadInv, TypeOK, LoopTypeOK, RiskTimer, bank
  <2> QED
    BY <1>1, <2>3, BankFrame DEF RiskTimer
<1>2. CASE HealthTimer
  <2>1. LoopTypeOK'
    BY <1>2 DEF ThreadInv, TypeOK, LoopTypeOK, HealthTimer, dealer
  <2> QED
    BY <1>2, <2>1, BankFrame DEF HealthTimer, dealer
<1>3. CASE CheckEnds
  <2>1. LoopTypeOK'
    BY <1>3 DEF ThreadInv, TypeOK, LoopTypeOK, CheckEnds, bank
  <2> QED
    BY <1>3, <2>1, BankFrame, Zenon DEF CheckEnds
<1> QED
  BY <1>1, <1>2, <1>3

\* Looking at a symbol keeps the invariant (check_risk_from_bank_state).
LEMMA CheckSymbolInv == \A s \in Symbols : Inv /\ CheckSymbol(s) => ThreadInv'
<1> SUFFICES ASSUME NEW s \in Symbols, Inv, CheckSymbol(s) PROVE ThreadInv'
  OBVIOUS
<1>0. ThreadInv
  BY DEF Inv
<1>1. bankState \in [Symbols -> Exposures] /\ state.pos \in [Symbols -> Int]
  BY DEF Inv, ThreadInv, TypeOK, ThreadTypeOK, LoopTypeOK, CheckHasState, CheckSymbol
<1>2. bankState[s] \in Int /\ state.pos[s] \in Int
  BY <1>1, HedgingAssumption, ZenonT(30)
<1>3. PICK h \in Int, p \in Int : h = bankState[s] /\ p = state.pos[s]
  BY <1>2
<1>4. OrderFor(s, h, p) \in Int
  <2>1. Contracts(h) - p \in Int
    BY DEF Contracts
  <2>2. PICK d \in Int : d = Contracts(h) - p
    BY <2>1
  <2>3. Abs(d) \in Int /\ OrderCap[s] \in Int
    BY HedgingAssumption DEF Abs
  <2> QED
    BY <2>2, <2>3 DEF OrderFor
<1>5. PICK q \in Int : q = OrderFor(s, h, p)
  BY <1>4
<1>6. call' = call \/ call' = Call(<<Order(s, q)>>, "panic")
  BY <1>3, <1>5 DEF CheckSymbol
<1>7. call' \in [todo : Seq(Requests), onError : {"log", "panic", "exit"}]
  <2>1. Order(s, q) \in Requests
    BY DEF Order, Requests
  <2>2. <<Order(s, q)>> \in Seq(Requests)
    BY <2>1
  <2>3. Call(<<Order(s, q)>>, "panic") \in [todo : Seq(Requests), onError : {"log", "panic", "exit"}]
    BY <2>2 DEF Call
  <2> QED
    BY <1>0, <1>6, <2>3 DEF ThreadInv, TypeOK, LoopTypeOK
<1>8. LoopTypeOK'
  BY <1>0, <1>7 DEF ThreadInv, TypeOK, LoopTypeOK, CheckSymbol, bank
<1> QED
  BY <1>0, <1>8, BankFrame DEF CheckSymbol, thread, exchange

\* The bank keeps the invariant.
LEMMA BankInv == ThreadInv /\ (ExposureChanges \/ InvoiceIssued) => ThreadInv'
<1> SUFFICES ASSUME ThreadInv, ExposureChanges \/ InvoiceIssued PROVE ThreadInv'
  OBVIOUS
<1>1. fromBank \in Seq(FromBank)
  BY DEF ThreadInv, TypeOK, LoopTypeOK, FromBank
<1>2. CASE ExposureChanges
  <2>1. exposure' \in [Symbols -> Exposures]
    BY <1>2 DEF ExposureChanges
  <2>2. [kind |-> "BankState", exposures |-> exposure'] \in FromBank
    BY <2>1 DEF FromBank
  <2>3. fromBank' \in Seq(FromBank)
    <3>1. PICK m \in FromBank : m = [kind |-> "BankState", exposures |-> exposure']
      BY <2>2
    <3>2. fromBank' = Append(fromBank, m) \/ fromBank' = fromBank
      BY <1>2, <3>1 DEF ExposureChanges
    <3> QED
      BY <1>1, <3>2
  <2>4. LoopTypeOK'
    BY <1>2, <2>1, <2>3 DEF ThreadInv, TypeOK, LoopTypeOK, ExposureChanges, dealer, FromBank
  <2> QED
    BY <1>2, <2>4, BankFrame DEF ExposureChanges, dealer
<1>3. CASE InvoiceIssued
  <2>1. fromBank' \in Seq(FromBank)
    BY <1>1, <1>3 DEF InvoiceIssued, FromBank
  <2>2. LoopTypeOK'
    BY <1>3, <2>1 DEF ThreadInv, TypeOK, LoopTypeOK, InvoiceIssued, dealer, FromBank
  <2> QED
    BY <1>3, <2>2, BankFrame DEF InvoiceIssued, dealer
<1> QED
  BY <1>2, <1>3

-----------------------------------------------------------------------------
\* The invariant.

\* A step that leaves the main loop's check alone.
LEMMA CheckFrame ==
  ASSUME CheckHasState, UNCHANGED <<rest, bankState>>, pc' = pc \/ pc' = "dead"
  PROVE  CheckHasState'
BY DEF CheckHasState

\* A risk check that begins has the state it works on.
LEMMA RiskCheckHasState ==
  ASSUME NEW e, RiskCheck(e), bankState' = e
  PROVE  CheckHasState'
<1>1. e = NoState => DOMAIN e = {}
  BY DEF NoState
<1>2. rest' # {} => e # NoState
  BY <1>1 DEF RiskCheck
<1>3. pc' \in {"loop", "await"} => rest' = {}
  BY DEF RiskCheck
<1> QED
  BY <1>2, <1>3 DEF CheckHasState

\* Every step leaves a risk check its state.
LEMMA CheckHasStateStep == CheckHasState /\ [Next]_vars => CheckHasState'
<1> SUFFICES ASSUME CheckHasState, [Next]_vars PROVE CheckHasState'
  OBVIOUS
<1>1. CASE UNCHANGED <<rest, bankState, pc>>
  BY <1>1, CheckFrame
<1>2. CASE CallStep
  <2>1. pc' = pc \/ pc' = "dead"
    BY <1>2 DEF CallStep, Returns, Sends, CheckedSend, Fails
  <2> QED
    BY <1>2, <2>1, CheckFrame DEF CallStep
<1>3. CASE WaitTimesOut
  BY <1>3, CheckFrame DEF WaitTimesOut, Fails
<1>4. CASE KolliderMessage
  BY <1>4 DEF KolliderMessage, Idle, CheckHasState
<1>5. CASE BankMessage
  <2>1. CASE Head(fromBank).kind = "BankState"
    BY <1>5, <2>1, RiskCheckHasState DEF BankMessage, ProcessBankMessage, TakeBankState
  <2>2. CASE Head(fromBank).kind # "BankState"
    <3>1. UNCHANGED <<bankState, rest, pc>>
      BY <1>5, <2>2 DEF BankMessage, ProcessBankMessage, TakeBankState
    <3> QED
      BY <3>1, CheckFrame
  <2> QED
    BY <2>1, <2>2, Zenon
<1>6. CASE AwaitBankState
  BY <1>6 DEF AwaitBankState, Idle, CheckHasState
<1>7. CASE AwaitedMessage
  <2>1. CASE Head(fromBank).kind = "BankState"
    BY <1>7, <2>1, RiskCheckHasState DEF AwaitedMessage, TakeBankState
  <2>2. CASE Head(fromBank).kind # "BankState"
    BY <1>7, <2>2, CheckFrame DEF AwaitedMessage, TakeBankState
  <2> QED
    BY <2>1, <2>2
<1>8. CASE RiskTimer
  BY <1>8, RiskCheckHasState DEF RiskTimer
<1>9. CASE \E s \in Symbols : CheckSymbol(s)
  BY <1>9 DEF CheckSymbol, CheckHasState
<1>10. CASE CheckEnds
  BY <1>10 DEF CheckEnds, CheckHasState
<1>11. CASE \/ SocketDrops \/ SetDisconnected \/ SetReconnected \/ WsReads \/ SendToCallback
            \/ WsWrites \/ WsPanics
  BY <1>1, <1>11, Zenon DEF SocketDrops, SetDisconnected, SetReconnected, WsReads, SendToCallback,
       WsWrites, WsPanics, dealer
<1>12. CASE \/ \E s \in Symbols : PositionReport(s)
            \/ HealthTimer \/ ExposureChanges \/ InvoiceIssued \/ UNCHANGED vars
  BY <1>1, <1>12 DEF PositionReport, HealthTimer, ExposureChanges, InvoiceIssued, vars, dealer
<1> QED
  BY <1>2, <1>3, <1>4, <1>5, <1>6, <1>7, <1>8, <1>9, <1>10, <1>11, <1>12, Zenon DEF Next

\* The invariant holds at the start.
LEMMA InitInv == Init => Inv
<1> SUFFICES ASSUME Init PROVE Inv
  OBVIOUS
<1>1. ThreadTypeOK
  <2>1. state \in [connected : BOOLEAN, authenticated : BOOLEAN, positions : BOOLEAN,
                   pos : [Symbols -> Int], symbols : BOOLEAN]
    <3>1. Cleared \in [connected : BOOLEAN, authenticated : BOOLEAN, positions : BOOLEAN,
                       pos : [Symbols -> Int], symbols : BOOLEAN]
      BY DEF Cleared, NoPositions
    <3> QED
      BY <3>1, Zenon DEF Init
  <2>2. ws \in [pc : {"run", "dead"}, msg : {"none"}, locked : {FALSE}]
    BY DEF Init, Running
  <2>3. socket \in [up : BOOLEAN, authenticated : BOOLEAN, subscribed : BOOLEAN]
    BY DEF Init, NewSocket
  <2>4. callback \in Seq(Messages) /\ wire \in Seq(Sent) /\ Len(callback) <= Capacity
    BY HedgingAssumption DEF Init
  <2>5. real \in [Symbols -> Int]
    BY DEF Init, NoPositions
  <2> QED
    BY <2>1, <2>2, <2>3, <2>4, <2>5, Zenon DEF ThreadTypeOK, Sent
<1>2. LoopTypeOK
  <2>1. Initialise \in Seq(Requests)
    BY DEF Initialise, Request, Requests
  <2>2. call \in [todo : Seq(Requests), onError : {"log", "panic", "exit"}]
    BY <2>1 DEF Init, Call
  <2> QED
    BY <2>2 DEF Init, LoopTypeOK, NoFlags
<1>3. LostIsQuiet /\ CheckHasState
  BY DEF Init, LostIsQuiet, CheckHasState, Cleared
<1>4. FlagsFollowState
  <2>1. Pending = <<>> /\ Len(Pending) = 0
    BY DEF Init, Running, Pending
  <2>2. state.authenticated = FALSE /\ state.symbols = FALSE /\ state.positions = FALSE
    BY DEF Init, Cleared
  <2>3. flags.authenticated = FALSE /\ flags.symbols = FALSE /\ flags.positions = FALSE
    BY DEF Init, NoFlags
  <2> QED
    BY <2>1, <2>2, <2>3 DEF FlagsFollowState, WillBe
<1> QED
  BY <1>1, <1>2, <1>3, <1>4 DEF Inv, ThreadInv, TypeOK

\* Every step keeps the invariant.
LEMMA NextInv == Inv /\ [Next]_vars => Inv'
<1> SUFFICES ASSUME Inv, [Next]_vars PROVE Inv'
  OBVIOUS
<1>1. ThreadInv /\ CheckHasState
  BY DEF Inv
<1>2. CheckHasState'
  BY <1>1, CheckHasStateStep
<1>3. ThreadInv'
  <2>1. CASE UNCHANGED vars
    <3>1. LoopTypeOK'
      BY <1>1, <2>1 DEF ThreadInv, TypeOK, LoopTypeOK, vars
    <3> QED
      BY <1>1, <2>1, <3>1, BankFrame DEF vars, exchange
  <2>2. CASE Next
    BY <1>1, <2>2, SocketDropsInv, SetDisconnectedInv, SetReconnectedInv, WsReadsInv,
       SendToCallbackInv, WsWritesInv, WsPanicsInv, PositionReportInv, CallStepInv,
       WaitTimesOutInv, KolliderMessageInv, BankMessageInv, AwaitBankStateInv,
       AwaitedMessageInv, TimersInv, CheckSymbolInv, BankInv, Zenon DEF Next
  <2> QED
    BY <2>1, <2>2
<1> QED
  BY <1>2, <1>3 DEF Inv

\* The inductive invariant holds throughout, for every set of symbols, every
\* capacity of the channel and any number of lost connections.
THEOREM HedgingInvariant == Spec => []Inv
<1>1. Init => Inv
  BY InitInv
<1>2. Inv /\ [Next]_vars => Inv'
  BY NextInv
<1> QED
  BY <1>1, <1>2, PTL DEF Spec

\* The main loop's flags trail the shared state by exactly the messages still
\* in the channel (set_disconnected, process_incoming_message, reset_state).
THEOREM LoopFollowsThread == Spec => []FlagsFollowState
<1>1. Inv => FlagsFollowState
  BY DEF Inv, ThreadInv
<1> QED
  BY <1>1, HedgingInvariant, PTL
=============================================================================
