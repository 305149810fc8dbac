------------------------------- MODULE ApiComms -------------------------------
(***************************************************************************)
(* How a route of the API gets the answer to its request (src/api/src:     *)
(* comms.rs and routes/).  The route hands an envelope to the comms actor  *)
(* and waits for a while; the actor lists the route's filter and then      *)
(* sends the message to the bank; a thread puts whatever the bank          *)
(* publishes on a broadcast channel; a reader task takes the messages from *)
(* it, hands each to the listed routes whose filter accepts it, and drops  *)
(* old filters when there are too many.                                    *)
(*                                                                         *)
(* The routes differ for these purposes only in how long they wait and in  *)
(* what their filter compares, so four kinds stand for all: "balance",     *)
(* "payment", "withdrawal" (of an LNURL) and "plain", which is every other *)
(* route.  A request that fails the validation of its route sends nothing  *)
(* and is left out.                                                        *)
(***************************************************************************)
EXTENDS Integers, Sequences, FiniteSets, ApiClock

CONSTANTS Routes,            \* calls of routes that wait for an answer
          Ids,               \* request ids
          KindOf, IdOf,      \* kind and request id of each call
          Timeout,           \* how long a call of each kind waits
          FilterExpiration,  \* filter_expiration_millis
          FilterSizeLimit,   \* filter_size_limit
          Capacity           \* of the broadcast channel and of the actor's channel

Kinds == {"balance", "payment", "withdrawal", "plain"}

(* The routes draw a fresh id for every call, except those that serve a    *)
(* withdrawal: they use the id in the LNURL, which the call that created   *)
(* it drew.                                                                *)
ASSUME CommsAssumption ==
  /\ IsFiniteSet(Routes)
  /\ KindOf \in [Routes -> Kinds] /\ IdOf \in [Routes -> Ids]
  /\ \A r, s \in Routes : IdOf[r] = IdOf[s] /\ r # s =>
       "withdrawal" \in {KindOf[r], KindOf[s]} /\ "payment" \notin {KindOf[r], KindOf[s]}
  /\ Timeout \in [Kinds -> Nat \ {0}] /\ FilterExpiration \in Nat /\ FilterSizeLimit \in Nat
  /\ Capacity \in Nat \ {0} /\ MaxTime \in Nat

VARIABLES route,    \* where each call is
          since,    \* when its wait began
          mail,     \* the answer in its response channel, if any
          inbox,    \* envelopes for the comms actor
          sending,  \* the request, if any, the actor has listed and has still to send
          waiting,  \* when each listed filter was created, or NotListed
          asked,    \* requests that the bank has to answer
          ring,     \* broadcast messages the reader has still to take
          lagged,   \* a message was overwritten before the reader took it
          reader,   \* what the reader task does next
          taken,    \* the time at which it took its last message
          tasks,    \* sends that the reader has spawned
          heard     \* requests whose answer the reader has taken

routeVars  == <<route, since, mail>>
actorVars  == <<inbox, sending>>
bankVars   == <<asked, ring, lagged>>
readerVars == <<reader, taken, tasks, heard>>
vars == <<routeVars, actorVars, waiting, bankVars, readerVars, now>>

NotListed == -1
Answers == [kind : Kinds, id : Ids, of : Routes]

(* A withdrawal ends in a response of its own or in the response of the    *)
(* payment it started.                                                     *)
AnswerKinds(r) == IF KindOf[r] = "withdrawal" THEN {"withdrawal", "payment"} ELSE {KindOf[r]}

(* Mutant: every filter compares the kind of the response only.            *)
AcceptsKind(r, m) == m.kind \in AnswerKinds(r)

(* The response_filter of each route; the filter of balance compares the   *)
(* id of its own request with itself and so accepts all balances.          *)
Accepts(r, m) ==
  /\ m.kind \in AnswerKinds(r)
  /\ KindOf[r] = "balance" \/ m.id = IdOf[r]

Init ==
  /\ route = [r \in Routes |-> "idle"] /\ since = [r \in Routes |-> 0] /\ mail = [r \in Routes |-> {}]
  /\ inbox = <<>> /\ sending = {}
  /\ waiting = [r \in Routes |-> NotListed]
  /\ asked = {} /\ ring = <<>> /\ lagged = FALSE
  /\ reader = "takes" /\ taken = 0 /\ tasks = {} /\ heard = {}
  /\ now = 0

Tick ==
  /\ now < MaxTime /\ now' = now + 1
  /\ UNCHANGED <<routeVars, actorVars, waiting, bankVars, readerVars>>

(* The wait begins when the envelope is in the actor's channel, which may  *)
(* be full.  The clock is bounded, so a call begins only if its wait fits. *)
Call(r) ==
  /\ route[r] = "idle" /\ Len(inbox) < Capacity
  /\ now + Timeout[KindOf[r]] <= MaxTime
  /\ inbox' = Append(inbox, r)
  /\ route' = [route EXCEPT ![r] = "waiting"] /\ since' = [since EXCEPT ![r] = now]
  /\ UNCHANGED <<mail, sending, waiting, bankVars, readerVars, now>>

(* The filter is listed before the request is sent.                        *)
List ==
  /\ sending = {} /\ inbox # <<>>
  /\ sending' = {Head(inbox)} /\ inbox' = Tail(inbox)
  /\ waiting' = [waiting EXCEPT ![Head(inbox)] = now]
  /\ UNCHANGED <<routeVars, bankVars, readerVars, now>>

Send ==
  /\ sending # {}
  /\ asked' = asked \cup sending /\ sending' = {}
  /\ UNCHANGED <<routeVars, inbox, waiting, ring, lagged, readerVars, now>>

(* The bank answers a request, in any order and possibly never, and the    *)
(* subscriber thread broadcasts the answer.  A full channel overwrites its *)
(* oldest message.                                                         *)
Broadcast(r) ==
  /\ r \in asked
  /\ asked' = asked \ {r}
  /\ \E k \in AnswerKinds(r) :
       LET m == [kind |-> k, id |-> IdOf[r], of |-> r]
       IN  \/ Len(ring) < Capacity /\ ring' = Append(ring, m) /\ UNCHANGED lagged
           \/ Len(ring) >= Capacity /\ ring' = Append(Tail(ring), m) /\ lagged' = TRUE
  /\ UNCHANGED <<routeVars, actorVars, waiting, readerVars, now>>

Listed == {r \in Routes : waiting[r] # NotListed}

(* Mutant: only one of the filters that accept a message is drained.       *)
DrainedFirst(m) == {r \in Listed : Accepts(r, m) /\ r = CHOOSE s \in Listed : Accepts(s, m)}

Drained(m) == {r \in Listed : Accepts(r, m)}

(* The reader drains the filters that accept its message and spawns a send *)
(* for each.                                                               *)
Take ==
  /\ reader = "takes" /\ ring # <<>> /\ ~lagged
  /\ LET m == Head(ring)
     IN  /\ tasks' = tasks \cup {[to |-> r, answer |-> m] : r \in Drained(m)}
         /\ waiting' = [r \in Routes |-> IF r \in Drained(m) THEN NotListed ELSE waiting[r]]
         /\ heard' = heard \cup {m.of}
  /\ ring' = Tail(ring)
  /\ reader' = "collects" /\ taken' = now
  /\ UNCHANGED <<routeVars, actorVars, asked, lagged, now>>

(* A reader that was overtaken gets an error instead of a message, which   *)
(* ends its loop.                                                          *)
ReaderEnds ==
  /\ reader = "takes" /\ lagged
  /\ reader' = "ended"
  /\ UNCHANGED <<routeVars, actorVars, waiting, bankVars, taken, tasks, heard, now>>

(* Mutant: all filters are dropped when there are too many.                *)
ExpiredAll == Listed

Expired == {r \in Listed : taken > waiting[r] + FilterExpiration}

(* The size is read under one lock and the expired filters are drained     *)
(* under another.  In between the actor can only list new filters, which   *)
(* changes neither outcome, so this is one step.                           *)
Collect ==
  /\ reader = "collects" /\ reader' = "takes"
  /\ \/ Cardinality(Listed) <= FilterSizeLimit /\ UNCHANGED waiting
     \/ /\ Cardinality(Listed) > FilterSizeLimit
        /\ waiting' = [r \in Routes |-> IF r \in Expired THEN NotListed ELSE waiting[r]]
  /\ UNCHANGED <<routeVars, actorVars, bankVars, taken, tasks, heard, now>>

(* A spawned send finds the channel of the route, unless the route has     *)
(* given up.                                                               *)
Deliver(t) ==
  /\ t \in tasks /\ tasks' = tasks \ {t}
  /\ \/ route[t.to] = "waiting" /\ mail' = [mail EXCEPT ![t.to] = {t.answer}]
     \/ route[t.to] # "waiting" /\ UNCHANGED mail
  /\ UNCHANGED <<route, since, actorVars, waiting, bankVars, reader, taken, heard, now>>

Receive(r) ==
  /\ route[r] = "waiting" /\ mail[r] # {}
  /\ route' = [route EXCEPT ![r] = "answered"]
  /\ UNCHANGED <<since, mail, actorVars, waiting, bankVars, readerVars, now>>

(* The channel is polled before the timer.                                 *)
TimeOut(r) ==
  /\ route[r] = "waiting" /\ mail[r] = {}
  /\ now >= since[r] + Timeout[KindOf[r]]
  /\ route' = [route EXCEPT ![r] = "timeout"]
  /\ UNCHANGED <<since, mail, actorVars, waiting, bankVars, readerVars, now>>

Next ==
  \/ Tick \/ List \/ Send \/ Take \/ ReaderEnds \/ Collect
  \/ \E r \in Routes : Call(r) \/ Broadcast(r) \/ Receive(r) \/ TimeOut(r)
  \/ \E t \in tasks : Deliver(t)

Spec == Init /\ [][Next]_vars

-------------------------------------------------------------------------------
(* The calls still within both their own wait and the life of a filter.    *)
InTime(r) ==
  /\ route[r] = "waiting"
  /\ now < since[r] + Timeout[KindOf[r]] /\ now <= since[r] + FilterExpiration

(* An answer is for r's channel: it is in it or about to be sent to it.    *)
Reached(r) == mail[r] # {} \/ \E t \in tasks : t.to = r

InRing(r) == \E i \in DOMAIN ring : ring[i].of = r

WellFormed(m) == m \in Answers /\ m.kind \in AnswerKinds(m.of) /\ m.id = IdOf[m.of]

TypeOK ==
  /\ route \in [Routes -> {"idle", "waiting", "answered", "timeout"}]
  /\ since \in [Routes -> Nat] /\ now \in Nat
  /\ mail \in [Routes -> SUBSET Answers]
  /\ inbox \in Seq(Routes) /\ sending \subseteq Routes /\ asked \subseteq Routes /\ heard \subseteq Routes
  /\ waiting \in [Routes -> Nat \cup {NotListed}]
  /\ ring \in Seq(Answers) /\ lagged \in BOOLEAN
  /\ reader \in {"takes", "collects", "ended"} /\ taken \in Nat
  /\ tasks \subseteq [to : Routes, answer : Answers]

(* What the bank publishes names the request it answers, and what is sent  *)
(* to a route passed its filter.                                           *)
Filtered ==
  /\ \A i \in DOMAIN ring : WellFormed(ring[i])
  /\ \A t \in tasks : WellFormed(t.answer) /\ Accepts(t.to, t.answer)
  /\ \A r \in Routes : \A m \in mail[r] : WellFormed(m) /\ Accepts(r, m)

(* Nothing is known of a call that has not begun, and no filter is older   *)
(* than the wait of its route.                                             *)
Ordered ==
  /\ taken <= now
  /\ \A i \in DOMAIN inbox : route[inbox[i]] # "idle"
  /\ \A r \in Routes :
       /\ since[r] <= now
       /\ waiting[r] # NotListed => since[r] <= waiting[r]
       /\ route[r] = "idle" =>
            r \notin asked \cup sending \cup heard /\ waiting[r] = NotListed /\ ~InRing(r)

(* A request that left the actor finds its route listed, unless an answer  *)
(* reached the route already.                                              *)
Expected ==
  \A r \in Routes : InTime(r) /\ (r \in asked \cup sending \/ InRing(r)) => waiting[r] # NotListed \/ Reached(r)

(* No answer is missed: when the reader has taken the answer to a request  *)
(* whose route still waits, and waits no longer than filters live, the     *)
(* route has an answer or is about to.  A filter is listed before its      *)
(* request is sent, and the clean-up in the reader drops no filter in use. *)
AnswerNotMissed == \A r \in heard : InTime(r) => Reached(r)

(* The inductive invariant.                                                *)
Inv == TypeOK /\ Filtered /\ Ordered /\ Expected /\ AnswerNotMissed

(* A route whose id is its own gets the answer to its own request, however *)
(* many routes wait and in whatever order the bank answers (the filters of *)
(* all routes but balance and the LNURL withdrawals).                      *)
OwnAnswer == \A r \in Routes : KindOf[r] \in {"payment", "plain"} => \A m \in mail[r] : m.of = r

(* The response transferred back to a route is the response to its request *)
(* (the comment on the contact details in CommsActor::start).              *)
ResponseTransferedBack == \A r \in Routes : \A m \in mail[r] : m.id = IdOf[r]
===============================================================================
